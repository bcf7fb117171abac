--------------------------- MODULE CatalogProofs ---------------------------
(***************************************************************************)
(* The blob API, as shipped, implements BlobCatalog.                       *)
(***************************************************************************)
EXTENDS RegistryProofs

(* Which operation a request that waits for a call is of; an idle slot has none, *)
(* and a request has an answer exactly when it is done.                          *)
OpFits(q) ==
    /\ q.pc = "idle" => q.op = "none"
    /\ q.pc = "stat" => q.op \in PullOps
    /\ q.pc = "open" => q.op \in {"Get", "Range"}
    /\ q.pc \in {"put", "statExisting", "register", "cleanup", "offset", "finalChunk",
                 "finalize", "discard"} => q.op \in PushOps
    /\ q.pc \in {"mountSource", "mountOpen", "fallback"} => q.op = "Mount"
    /\ q.pc = "initiate" => q.op \in {"Mount", "Initiate"}
    /\ q.pc \in {"append", "status", "cancelStat", "cancel"} => q.op \notin PushOps \cup PullOps
    /\ q.pc = "done" <=> q.reply # "none"
    /\ q.op = "none" => q.pc = "idle"

(* A request that is about to open a file found its row. *)
OpensRegistered ==
    \A r \in BlobRequest :
        blobReq[r].pc = "open" => namespaceBlobs[<<blobReq[r].ns, blobReq[r].dg>>] = "active"

CatalogInv ==
    /\ TypeInv /\ ForeignKeys /\ RegisteredHasBytes /\ BytesBeforeRow
    /\ \A r \in BlobRequest : OpFits(blobReq[r])
    /\ OpensRegistered /\ Unremoved

(* The call of every client, as the catalogue sees it. *)
Calls == [r \in BlobRequest |-> AbstractCall(blobReq[r])]

-----------------------------------------------------------------------------
(* What a step does to one slot, in the terms of the catalogue *)

LEMMA OtherCalls ==
    ASSUME NEW r \in BlobRequest,
           \A x \in BlobRequest \ {r} : blobReq'[x] = blobReq[x]
    PROVE  Calls' = [Calls EXCEPT ![r] = AbstractCall(blobReq'[r])]
<1>1. \A x \in BlobRequest \ {r} : AbstractCall(blobReq'[x]) = AbstractCall(blobReq[x])
  OBVIOUS
<1>2. Calls' = [x \in BlobRequest |-> AbstractCall(blobReq'[x])]
  BY DEF Calls
<1> QED BY <1>1, <1>2 DEF Calls

(* A step that neither answers nor registers is invisible. *)
LEMMA InvisibleGoto ==
    ASSUME BlobReqTypeOK, NEW r \in BlobRequest,
           blobReq'[r].op = blobReq[r].op, blobReq'[r].ns = blobReq[r].ns,
           blobReq'[r].dg = blobReq[r].dg, blobReq'[r].reply = blobReq[r].reply,
           \A x \in BlobRequest \ {r} : blobReq'[x] = blobReq[x]
    PROVE  Calls' = Calls
<1>1. AbstractCall(blobReq'[r]) = AbstractCall(blobReq[r])
  BY DEF AbstractCall, AbstractAnswer
<1> QED BY <1>1, OtherCalls DEF Calls

LEMMA VisibleAnswer ==
    ASSUME BlobReqTypeOK, NEW r \in BlobRequest, NEW reply, Answer(r, reply)
    PROVE  /\ blobReq[r].op \notin PushOps \cup PullOps => Calls' = Calls
           /\ blobReq[r].op \in PushOps \cup PullOps =>
                 Calls' = [Calls EXCEPT ![r] =
                    [kind |-> Kind(blobReq[r].op),
                     key |-> <<blobReq[r].ns, blobReq[r].dg>>,
                     answer |-> IF reply \in {"none", "ok", "nameUnknown", "blobUnknown", "truncated"}
                                THEN reply
                                ELSE IF reply = "accepted" THEN "uploadStarted" ELSE "failed"]]
<1>1. /\ blobReq'[r].op = blobReq[r].op /\ blobReq'[r].ns = blobReq[r].ns
      /\ blobReq'[r].dg = blobReq[r].dg /\ blobReq'[r].reply = reply
      /\ \A x \in BlobRequest \ {r} : blobReq'[x] = blobReq[x]
  BY Answered
<1>2. Calls' = [Calls EXCEPT ![r] = AbstractCall(blobReq'[r])]
  BY <1>1, OtherCalls
<1>3. CASE blobReq[r].op \notin PushOps \cup PullOps
  <2>1. AbstractCall(blobReq'[r]) = AbstractCall(blobReq[r])
    BY <1>1, <1>3 DEF AbstractCall
  <2> QED BY <1>2, <1>3, <2>1 DEF Calls
<1>4. CASE blobReq[r].op \in PushOps \cup PullOps
  BY <1>1, <1>2, <1>4 DEF AbstractCall, AbstractAnswer
<1> QED BY <1>3, <1>4

-----------------------------------------------------------------------------
(* The invariant of the refinement *)

LEMMA ArrivalFits ==
    ASSUME BlobReqTypeOK, NEW r \in BlobRequest, BlobArrive(r)
    PROVE  OpFits(blobReq'[r])
<1>1. PICK op \in BlobOps, n \in Namespace, d \in Digest \cup {NoDigest},
           s \in Namespace \cup {NoNamespace}, u \in Upload \cup {NoUploadID} :
          \/ blobReq' = [blobReq EXCEPT ![r] = NewRequest(op, n, d, s, u)]
          \/ blobReq' = [blobReq EXCEPT ![r] = RefusedRequest(op, n, d)]
  BY DEF BlobArrive
<1>2. /\ op # "none"
      /\ FirstCall[op] \in {"stat", "put", "mountSource", "initiate", "append", "offset",
                            "status", "cancelStat"}
      /\ FirstCall[op] = "stat" => op \in PullOps
      /\ FirstCall[op] \in {"put", "offset"} => op \in PushOps
      /\ FirstCall[op] = "mountSource" => op = "Mount"
      /\ FirstCall[op] = "initiate" => op = "Initiate"
      /\ FirstCall[op] \in {"append", "status", "cancelStat"} => op \notin PushOps \cup PullOps
  BY BlobServiceAssumption DEF FirstCall, PushOps, PullOps
<1>3. blobReq'[r] \in {NewRequest(op, n, d, s, u), RefusedRequest(op, n, d)}
  BY <1>1 DEF BlobReqTypeOK
<1>4. /\ blobReq'[r].op = op
      /\ \/ blobReq'[r].pc = FirstCall[op] /\ blobReq'[r].reply = "none"
         \/ blobReq'[r].pc = "done" /\ blobReq'[r].reply \in {"nameUnknown", "error"}
  BY <1>3 DEF NewRequest, RefusedRequest, Request
<1> QED BY <1>2, <1>4 DEF OpFits

LEMMA AnswerFits ==
    ASSUME BlobReqTypeOK, NEW r \in BlobRequest, OpFits(blobReq[r]), blobReq[r].pc # "idle",
           \E reply \in BlobReply \ {"none"} : Answer(r, reply)
    PROVE  OpFits(blobReq'[r])
BY Answered DEF OpFits

LEMMA ServeFits ==
    ASSUME BlobReqTypeOK, NEW r \in BlobRequest, OpFits(blobReq[r]), BlobServe(r)
    PROVE  OpFits(blobReq'[r])
<1> USE DEF At, BlobReply
<1> DEFINE Ends == \E reply \in BlobReply \ {"none"} : Answer(r, reply)
<1>1. CASE Ends
  <2>1. blobReq[r].pc # "idle"
    BY DEF BlobServe, StatRegistered, OpenBlob, PutFile, PutFileCommitted,
           PutFileFails, StatExisting, Register, RegisterFails, Cleanup, MountSource,
           MountOpen, MountFallback, Initiate, AppendChunk, CommitOffset, FinalChunk,
           Finalize, FinalizeFails, Discard, GetUploadStatus, CancelStat, CancelUpload,
           UploadUnknown
  <2> QED BY <1>1, <2>1, AnswerFits
<1>2. CASE StatRegistered(r) /\ ~Ends
  <2>1. Goto(r, "open") /\ blobReq[r].op \in {"Get", "Range"} /\ blobReq[r].pc = "stat"
    BY <1>2 DEF StatRegistered, OpFits, PullOps, Op
  <2> QED BY <2>1, Gone DEF OpFits
<1>3. CASE (PutFileCommitted(r) \/ StatExisting(r) \/ RegisterFails(r) \/ FinalizeFails(r))
             /\ ~Ends
  <2>1. /\ blobReq[r].pc \in {"put", "statExisting", "register", "finalize"}
        /\ \E pc \in {"statExisting", "register", "cleanup", "discard"} : Goto(r, pc)
    BY <1>3 DEF PutFileCommitted, StatExisting, RegisterFails, FinalizeFails
  <2> QED BY <2>1, Gone DEF OpFits
<1>8. CASE (MountSource(r) \/ MountOpen(r)) /\ ~Ends
  <2>1. /\ blobReq[r].pc \in {"mountSource", "mountOpen"}
        /\ \E pc \in {"mountOpen", "fallback", "put"} : Goto(r, pc)
    BY <1>8 DEF MountSource, MountOpen
  <2> QED BY <2>1, Gone DEF OpFits, PushOps
<1>4. CASE (MountFallback(r) \/ CancelStat(r)) /\ ~Ends
  <2>1. CASE MountFallback(r)
    <3>1. Goto(r, "initiate") /\ blobReq[r].pc = "fallback"
      BY <1>4, <2>1 DEF MountFallback
    <3> QED BY <3>1, Gone DEF OpFits
  <2>2. CASE CancelStat(r)
    <3>1. Goto(r, "cancel") /\ blobReq[r].pc = "cancelStat"
      BY <1>4, <2>2 DEF CancelStat
    <3> QED BY <3>1, Gone DEF OpFits
  <2> QED BY <1>4, <2>1, <2>2
<1>5. CASE (PutFile(r) \/ Finalize(r)) /\ ~Ends
  <2>1. GotoRegister(r) /\ blobReq[r].pc \in {"put", "finalize"}
    BY <1>5 DEF PutFile, Finalize
  <2> QED BY <2>1, GoneToRegister DEF OpFits
<1>6. CASE (CommitOffset(r) \/ FinalChunk(r)) /\ ~Ends
  <2>1. /\ blobReq[r].pc \in {"offset", "finalChunk"}
        /\ \E pc \in {"finalChunk", "finalize"} : \E offset : GotoAt(r, pc, offset)
    BY <1>6 DEF CommitOffset, FinalChunk
  <2> QED BY <2>1, GoneAt DEF OpFits
<1>7. OpenBlob(r) \/ PutFileFails(r) \/ Register(r) \/ Cleanup(r) \/ Initiate(r)
        \/ AppendChunk(r) \/ Discard(r) \/ GetUploadStatus(r) \/ CancelUpload(r)
        \/ UploadUnknown(r) => Ends
  BY DEF OpenBlob, PutFileFails, Register, Cleanup, Initiate, AppendChunk, Discard,
         GetUploadStatus, CancelUpload, UploadUnknown
<1> HIDE DEF Ends
<1> QED BY <1>1, <1>2, <1>3, <1>4, <1>5, <1>6, <1>7, <1>8 DEF BlobServe

LEMMA FitsStep ==
    ASSUME TypeInv, \A r \in BlobRequest : OpFits(blobReq[r]), [Next]_vars
    PROVE  \A r \in BlobRequest : OpFits(blobReq'[r])
<1>0. BlobReqTypeOK
  BY DEF TypeInv, BlobReqInv
<1>1. CASE BlobServiceNext
  <2>1. PICK r \in BlobRequest : BlobArrive(r) \/ Disconnect(r) \/ BlobServe(r)
    BY <1>1 DEF BlobServiceNext
  <2>2. \A x \in BlobRequest \ {r} : blobReq'[x] = blobReq[x]
    BY <1>0, <2>1, OtherSlots
  <2>3. OpFits(blobReq'[r])
    <3>1. CASE Disconnect(r)
      BY <1>0, <3>1, Disconnected DEF OpFits
    <3> QED BY <1>0, <2>1, <3>1, ArrivalFits, ServeFits
  <2> QED BY <2>2, <2>3
<1>2. CASE UNCHANGED blobReq
  BY <1>2
<1>3. CASE Crash
  BY <1>3 DEF Crash, NoRequest, Request, OpFits
<1> QED
  BY <1>1, <1>2, <1>3
     DEF Next, CreateNamespaceRequest, DeleteNamespaceRequest, vars

(* A registered blob stays registered. *)
LEMMA RegisteredGrows ==
    ASSUME TypeInv, [Next]_vars
    PROVE  \/ Registered' = Registered /\ UNCHANGED namespaceBlobs
           \/ \E r \in BlobRequest :
                 Register(r) /\ Registered' = Registered \cup {<<Ns(r), Dg(r)>>}
<1>1. CASE UNCHANGED namespaceBlobs
  BY <1>1 DEF Registered
<1>2. CASE \E r \in BlobRequest : Register(r)
  <2>1. PICK r \in BlobRequest : Register(r)
    BY <1>2
  <2>2. <<Ns(r), Dg(r)>> \in Key
    BY <2>1 DEF Register, At, Ns, Dg, TypeInv, BlobReqInv, Targeted, Key
  <2>3. namespaceBlobs' = [namespaceBlobs EXCEPT ![<<Ns(r), Dg(r)>>] = "active"]
    BY <2>1 DEF Register, InsertNamespaceBlob
  <2>4. Registered' = Registered \cup {<<Ns(r), Dg(r)>>}
    BY <2>2, <2>3 DEF TypeInv, MetaTypeOK, Registered
  <2> QED BY <2>1, <2>4
<1> QED BY <1>1, <1>2, RegisterEffect

LEMMA OpensStep ==
    ASSUME CatalogInv, [Next]_vars
    PROVE  OpensRegistered'
<1> USE DEF CatalogInv
<1>0. BlobReqTypeOK
  BY DEF TypeInv, BlobReqInv
<1> SUFFICES ASSUME NEW x \in BlobRequest, blobReq'[x].pc = "open"
             PROVE  namespaceBlobs'[<<blobReq'[x].ns, blobReq'[x].dg>>] = "active"
  BY DEF OpensRegistered
<1>1. \A k \in Key : namespaceBlobs[k] = "active" => namespaceBlobs'[k] = "active"
  BY RegisteredGrows DEF Registered
<1>2. CASE blobReq[x].pc = "open" /\ blobReq'[x].ns = blobReq[x].ns
                                  /\ blobReq'[x].dg = blobReq[x].dg
  <2>1. <<blobReq[x].ns, blobReq[x].dg>> \in Key
    BY <1>2 DEF TypeInv, BlobReqInv, Targeted, Key
  <2> QED BY <1>1, <1>2, <2>1 DEF OpensRegistered
<1>3. CASE StatRegistered(x) /\ Goto(x, "open")
  <2>1. namespaceBlobs[<<Ns(x), Dg(x)>>] = "active"
    BY <1>0, <1>3, Answered DEF StatRegistered, StatNamespaceBlob
  <2>2. <<Ns(x), Dg(x)>> \in Key
    BY <1>3 DEF StatRegistered, At, Ns, Dg, TypeInv, BlobReqInv, Targeted, Key
  <2> QED BY <1>0, <1>1, <1>3, <2>1, <2>2, Gone DEF Ns, Dg
<1>4. CASE BlobServiceNext
  <2>1. PICK r \in BlobRequest : BlobArrive(r) \/ Disconnect(r) \/ BlobServe(r)
    BY <1>4 DEF BlobServiceNext
  <2>2. CASE x # r
    BY <1>0, <1>2, <2>1, <2>2, OtherSlots
  <2>3. CASE x = r /\ BlobArrive(r)
    <3>1. \A op \in BlobOps : FirstCall[op] # "open"
      BY BlobServiceAssumption DEF FirstCall
    <3> QED BY <1>0, <2>3, <3>1, Arrived
  <2>4. CASE x = r /\ Disconnect(r)
    BY <1>0, <1>2, <2>4, Disconnected
  <2>5. CASE x = r /\ StatRegistered(r)
    BY <1>0, <1>3, <2>5, Answered DEF StatRegistered
  <2>6. CASE x = r /\ BlobServe(r) /\ ~StatRegistered(r)
    <3>1. \/ \E reply : Answer(r, reply)
          \/ \E pc : Goto(r, pc) /\ pc # "open"
          \/ GotoRegister(r)
          \/ \E pc, offset : GotoAt(r, pc, offset) /\ pc # "open"
      BY <2>6
         DEF BlobServe, OpenBlob, PutFile, PutFileCommitted, PutFileFails, StatExisting,
             Register, RegisterFails, Cleanup, MountSource, MountOpen, MountFallback, Initiate,
             AppendChunk, CommitOffset, FinalChunk, Finalize, FinalizeFails, Discard,
             GetUploadStatus, CancelStat, CancelUpload, UploadUnknown
    <3>2. ~\E reply : Answer(r, reply)
      BY <1>0, <2>6, Answered
    <3>3. ~\E pc : Goto(r, pc) /\ pc # "open"
      BY <1>0, <2>6, Gone
    <3>4. ~GotoRegister(r)
      BY <1>0, <2>6, GoneToRegister
    <3>5. ~\E pc, offset : GotoAt(r, pc, offset) /\ pc # "open"
      BY <1>0, <2>6, GoneAt
    <3> QED BY <3>1, <3>2, <3>3, <3>4, <3>5
  <2> QED BY <2>1, <2>2, <2>3, <2>4, <2>5, <2>6
<1>5. CASE UNCHANGED blobReq
  BY <1>2, <1>5
<1>6. CASE Crash
  BY <1>6 DEF Crash, NoRequest, Request
<1> QED
  BY <1>4, <1>5, <1>6
     DEF Next, CreateNamespaceRequest, DeleteNamespaceRequest, vars

-----------------------------------------------------------------------------
(* Every step is a step of the catalogue, or invisible *)

CatalogStep == [Catalog!CatalogNext]_(Catalog!CatalogVars)

LEMMA Invisible ==
    ASSUME Calls' = Calls, Registered' = Registered
    PROVE  CatalogStep
BY DEF CatalogStep, Calls, Catalog!CatalogVars

(* A push or a pull that waits for a call has no answer yet. *)
LEMMA PendingCall ==
    ASSUME NEW r \in BlobRequest, OpFits(blobReq[r]),
           blobReq[r].pc \notin {"idle", "done"}, blobReq[r].op \in PushOps \cup PullOps
    PROVE  /\ Catalog!Pending(r)
           /\ Calls[r].kind = Kind(blobReq[r].op)
           /\ Calls[r].key = <<blobReq[r].ns, blobReq[r].dg>>
BY DEF Calls, AbstractCall, AbstractAnswer, Kind, OpFits, Catalog!Pending

LEMMA KindOf ==
    /\ \A op \in PushOps : Kind(op) \in {"push", "mount"} /\ (Kind(op) = "mount" <=> op = "Mount")
    /\ \A op \in PullOps : Kind(op) = "pull"
BY DEF Kind, PushOps, PullOps

(* A push that is answered without a registration. *)
LEMMA PushFails ==
    ASSUME CatalogInv, NEW r \in BlobRequest, blobReq[r].pc \notin {"idle", "done"},
           blobReq[r].op \in PushOps, Registered' = Registered,
           NEW reply \in BlobReply \ {"none", "ok", "blobUnknown", "truncated"}, Answer(r, reply),
           reply = "nameUnknown" => <<blobReq[r].ns, blobReq[r].dg>> \notin Registered,
           reply = "accepted" => blobReq[r].op = "Mount"
    PROVE  CatalogStep
<1>1. /\ Catalog!Pending(r) /\ Calls[r].kind \in {"push", "mount"}
      /\ Calls[r].kind = "mount" <=> blobReq[r].op = "Mount"
      /\ Calls[r].kind = Kind(blobReq[r].op)
      /\ Calls[r].key = <<blobReq[r].ns, blobReq[r].dg>>
  BY PendingCall, KindOf DEF CatalogInv
<1> DEFINE a == IF reply = "nameUnknown" THEN reply
                ELSE IF reply = "accepted" THEN "uploadStarted" ELSE "failed"
<1>2. Calls' = [Calls EXCEPT ![r] =
                  [kind |-> Calls[r].kind, key |-> Calls[r].key, answer |-> a]]
  BY <1>1, VisibleAnswer DEF CatalogInv, TypeInv, BlobReqInv
<1>3. /\ a \in {"failed", "uploadStarted", "nameUnknown"}
      /\ a = "nameUnknown" => Calls[r].key \notin Registered
      /\ a = "uploadStarted" => Calls[r].kind = "mount"
  BY <1>1
<1> HIDE DEF a
<1>4. Catalog!PushFails(r)
  BY <1>1, <1>2, <1>3 DEF Catalog!PushFails, Catalog!Set, Calls
<1> QED BY <1>4 DEF CatalogStep, Catalog!CatalogNext

(* A pull that is answered. *)
LEMMA PullAnswers ==
    ASSUME CatalogInv, NEW r \in BlobRequest, blobReq[r].pc \notin {"idle", "done"},
           blobReq[r].op \in PullOps, Registered' = Registered,
           NEW reply \in BlobReply \ {"none", "accepted", "nameUnknown", "truncated"},
           Answer(r, reply),
           reply = "ok" => <<blobReq[r].ns, blobReq[r].dg>> \in Registered,
           reply = "blobUnknown" => <<blobReq[r].ns, blobReq[r].dg>> \notin Registered
    PROVE  CatalogStep
<1>1. Catalog!Pending(r) /\ Calls[r].kind = "pull"
        /\ Calls[r].key = <<blobReq[r].ns, blobReq[r].dg>>
  BY PendingCall, KindOf DEF CatalogInv
<1> DEFINE a == IF reply \in {"ok", "blobUnknown"} THEN reply ELSE "failed"
<1>2. Calls' = [Calls EXCEPT ![r] = [kind |-> "pull", key |-> Calls[r].key, answer |-> a]]
  BY <1>1, KindOf, VisibleAnswer DEF CatalogInv, TypeInv, BlobReqInv
<1>3. /\ a \in {"ok", "blobUnknown", "failed"}
      /\ a = "ok" => Calls[r].key \in Registered
      /\ a = "blobUnknown" => Calls[r].key \notin Registered
  BY <1>1
<1> HIDE DEF a
<1>4. Catalog!Pull(r)
  BY <1>1, <1>2, <1>3 DEF Catalog!Pull, Catalog!Set, Calls
<1> QED BY <1>4 DEF CatalogStep, Catalog!CatalogNext

LEMMA RegisterIsPush ==
    ASSUME CatalogInv, NEW r \in BlobRequest, Register(r),
           Registered' = Registered \cup {<<Ns(r), Dg(r)>>}
    PROVE  CatalogStep
<1>0. blobReq[r].pc = "register" /\ blobReq[r].op \in PushOps
  BY DEF Register, At, CatalogInv, OpFits
<1>1. /\ Catalog!Pending(r) /\ Calls[r].kind \in {"push", "mount"}
      /\ Calls[r].kind = "mount" <=> blobReq[r].op = "Mount"
      /\ Calls[r].kind = Kind(blobReq[r].op)
      /\ Calls[r].key = <<blobReq[r].ns, blobReq[r].dg>>
  BY <1>0, PendingCall, KindOf DEF CatalogInv
<1>2. PICK reply \in {"ok", "error"} :
         Answer(r, reply) /\ (reply = "error" => blobReq[r].op = "Mount")
  BY DEF Register, Op
<1> DEFINE a == IF reply = "ok" THEN "ok" ELSE "failed"
<1>3. Calls' = [Calls EXCEPT ![r] =
                  [kind |-> Calls[r].kind, key |-> Calls[r].key, answer |-> a]]
  BY <1>0, <1>1, <1>2, VisibleAnswer DEF CatalogInv, TypeInv, BlobReqInv
<1>4. a \in {"ok", "failed"} /\ (a = "failed" => Calls[r].kind = "mount")
  BY <1>1, <1>2
<1> HIDE DEF a
<1>5. Catalog!Push(r)
  BY <1>1, <1>3, <1>4 DEF Catalog!Push, Catalog!Set, Calls, Ns, Dg
<1> QED BY <1>5 DEF CatalogStep, Catalog!CatalogNext

(* A key of a namespace that does not exist is not registered. *)
LEMMA UnknownNamespace ==
    ASSUME ForeignKeys, NEW n \in Namespace, ~NamespaceExists(n), NEW d
    PROVE  <<n, d>> \notin Registered
BY DEF ForeignKeys, Referenced, Registered, Key

LEMMA ArriveIsMake ==
    ASSUME CatalogInv, NEW r \in BlobRequest, BlobArrive(r), Registered' = Registered
    PROVE  CatalogStep
<1> USE DEF CatalogInv
<1>0. BlobReqTypeOK
  BY DEF TypeInv, BlobReqInv
<1>1. PICK op \in BlobOps, n \in Namespace, d \in Digest \cup {NoDigest},
           s \in Namespace \cup {NoNamespace}, u \in Upload \cup {NoUploadID} :
          /\ WellAddressed(op, d, s, u)
          /\ \/ blobReq' = [blobReq EXCEPT ![r] = NewRequest(op, n, d, s, u)]
             \/ blobReq' = [blobReq EXCEPT ![r] = RefusedRequest(op, n, d)]
  BY DEF BlobArrive
<1>2. /\ blobReq'[r] \in {NewRequest(op, n, d, s, u), RefusedRequest(op, n, d)}
      /\ \A x \in BlobRequest \ {r} : blobReq'[x] = blobReq[x]
  BY <1>0, <1>1 DEF BlobReqTypeOK
<1>3. Calls' = [Calls EXCEPT ![r] = AbstractCall(blobReq'[r])]
  BY <1>2, OtherCalls
<1>4. ~Catalog!Pending(r)
  BY DEF BlobArrive, OpFits, Catalog!Pending, AbstractCall, AbstractAnswer, PushOps, PullOps
<1>5. /\ blobReq'[r].op = op /\ blobReq'[r].ns = n /\ blobReq'[r].dg = d
      /\ \/ blobReq'[r].reply \in {"none", "error"}
         \/ blobReq'[r].reply = "nameUnknown" /\ ~NamespaceExists(n)
  BY <1>2 DEF NewRequest, RefusedRequest, Request
<1>6. CASE op \in PushOps \cup PullOps
  <2>1. d \in Digest
    BY <1>1, <1>6 DEF WellAddressed, PushOps, PullOps
  <2>2. /\ <<n, d>> \in Key
        /\ blobReq'[r].reply = "nameUnknown" => <<n, d>> \notin Registered
    BY <1>5, <2>1, UnknownNamespace DEF Key
  <2> DEFINE a == IF blobReq'[r].reply = "error" THEN "failed" ELSE blobReq'[r].reply
  <2>3. Calls' = [Calls EXCEPT ![r] = [kind |-> Kind(op), key |-> <<n, d>>, answer |-> a]]
    BY <1>3, <1>5, <1>6 DEF AbstractCall, AbstractAnswer
  <2>4. /\ a \in {"none", "nameUnknown", "failed"}
        /\ a = "nameUnknown" => <<n, d>> \notin Registered
    BY <1>5, <2>2
  <2>5. Kind(op) \in {"push", "mount", "pull"}
    BY <1>6, KindOf
  <2> HIDE DEF a
  <2>6. Catalog!Make(r, Kind(op), <<n, d>>)
    BY <1>4, <2>3, <2>4 DEF Catalog!Make, Catalog!Set, Calls
  <2> QED BY <2>2, <2>5, <2>6 DEF CatalogStep, Catalog!CatalogNext
<1>7. CASE op \notin PushOps \cup PullOps
  <2>1. AbstractCall(blobReq'[r]) = Catalog!NoCall
    BY <1>5, <1>7 DEF AbstractCall, Catalog!NoCall
  <2>2. Catalog!Forget(r)
    BY <1>3, <1>4, <2>1 DEF Catalog!Forget, Calls
  <2> QED BY <2>2 DEF CatalogStep, Catalog!CatalogNext
<1> QED BY <1>6, <1>7

(* An answer to a request that is no pull, and does not say what the catalogue   *)
(* would have to agree with.                                                     *)
LEMMA OtherAnswer ==
    ASSUME CatalogInv, NEW r \in BlobRequest, blobReq[r].pc \notin {"idle", "done"},
           blobReq[r].op \notin PullOps, Registered' = Registered, NEW reply \in BlobReply,
           Answer(r, reply),
           blobReq[r].op \in PushOps =>
              \/ reply \in {"uploadUnknown", "rejected", "rangeInvalid", "error"}
              \/ reply = "accepted" /\ blobReq[r].op = "Mount"
    PROVE  CatalogStep
<1>1. CASE blobReq[r].op \in PushOps
  BY <1>1, PushFails
<1>2. CASE blobReq[r].op \notin PushOps
  <2>1. Calls' = Calls
    BY <1>2, VisibleAnswer DEF CatalogInv, TypeInv, BlobReqInv
  <2> QED BY <2>1, Invisible
<1> QED BY <1>1, <1>2

LEMMA MoveInvisible ==
    ASSUME CatalogInv, NEW r \in BlobRequest, Registered' = Registered,
           \/ \E pc : Goto(r, pc)
           \/ GotoRegister(r)
           \/ \E pc, offset : GotoAt(r, pc, offset)
           \/ Disconnect(r)
    PROVE  CatalogStep
<1>0. BlobReqTypeOK
  BY DEF CatalogInv, TypeInv, BlobReqInv
<1>1. /\ blobReq'[r].op = blobReq[r].op /\ blobReq'[r].ns = blobReq[r].ns
      /\ blobReq'[r].dg = blobReq[r].dg /\ blobReq'[r].reply = blobReq[r].reply
      /\ \A x \in BlobRequest \ {r} : blobReq'[x] = blobReq[x]
  <2>1. CASE \E pc : Goto(r, pc)
    BY <1>0, <2>1, Gone
  <2>2. CASE GotoRegister(r)
    BY <1>0, <2>2, GoneToRegister
  <2>3. CASE \E pc, offset : GotoAt(r, pc, offset)
    BY <1>0, <2>3, GoneAt
  <2>4. CASE Disconnect(r)
    BY <1>0, <2>4, Disconnected
  <2> QED BY <2>1, <2>2, <2>3, <2>4
<1> QED BY <1>0, <1>1, InvisibleGoto, Invisible

LEMMA ServeRefines ==
    ASSUME CatalogInv, NEW r \in BlobRequest, BlobServe(r), ~Register(r)
    PROVE  CatalogStep
<1> USE DEF CatalogInv, At
<1>0. Registered' = Registered
  BY DEF BlobServe, StatRegistered, OpenBlob, PutFile, PutFileCommitted,
         PutFileFails, StatExisting, RegisterFails, Cleanup, MountSource, MountOpen,
         MountFallback, Initiate, AppendChunk, CommitOffset, FinalChunk, Finalize,
         FinalizeFails, Discard, GetUploadStatus, CancelStat, CancelUpload, UploadUnknown,
         ReadOnly, metaVars, Registered
<1>1. CASE \/ \E pc : Goto(r, pc)
           \/ GotoRegister(r)
           \/ \E pc, offset : GotoAt(r, pc, offset)
  BY <1>0, <1>1, MoveInvisible
<1>2. CASE StatRegistered(r)
  <2>1. blobReq[r].op \in PullOps /\ <<blobReq[r].ns, blobReq[r].dg>> \in Key
    BY <1>2 DEF StatRegistered, OpFits, TypeInv, BlobReqInv, Targeted, Key
  <2>2. \/ \E pc : Goto(r, pc)
        \/ Answer(r, "error") \/ Answer(r, "rangeInvalid")
        \/ Answer(r, "ok") /\ <<blobReq[r].ns, blobReq[r].dg>> \in Registered
        \/ Answer(r, "blobUnknown") /\ <<blobReq[r].ns, blobReq[r].dg>> \notin Registered
    BY <1>2, <2>1 DEF StatRegistered, StatNamespaceBlob, Registered, Ns, Dg
  <2> QED BY <1>0, <1>1, <1>2, <2>1, <2>2, PullAnswers DEF StatRegistered, BlobReply
<1>3. CASE OpenBlob(r)
  <2>1. blobReq[r].op \in PullOps /\ Ns(r) \in Namespace /\ Dg(r) \in Digest
    BY <1>3 DEF OpenBlob, OpFits, PullOps, TypeInv, BlobReqInv, Targeted, Ns, Dg
  <2>2. namespaceBlobs[<<Ns(r), Dg(r)>>] = "active"
    BY <1>3 DEF OpenBlob, OpensRegistered, Ns, Dg
  <2>3. <<Ns(r), Dg(r)>> \in Registered /\ Stored(Ns(r), Dg(r))
    BY <2>1, <2>2 DEF Registered, Key, RegisteredHasBytes, StatNamespaceBlob
  <2>4. Answer(r, "ok") \/ Answer(r, "error")
    BY <1>3, <2>3 DEF OpenBlob
  <2> QED BY <1>0, <1>3, <2>1, <2>3, <2>4, PullAnswers DEF OpenBlob, BlobReply, Ns, Dg
<1>4. CASE MountFallback(r)
  <2>1. /\ blobReq[r].op \in PushOps /\ blobReq[r].op \notin PullOps
        /\ blobReq[r].ns \in Namespace
    BY <1>4 DEF MountFallback, OpFits, PushOps, PullOps, TypeInv, BlobReqInv, Targeted
  <2>2. CASE Answer(r, "nameUnknown") /\ ~NamespaceExists(Ns(r))
    <3>1. <<blobReq[r].ns, blobReq[r].dg>> \notin Registered
      BY <2>1, <2>2, UnknownNamespace DEF Ns
    <3> QED BY <1>0, <1>4, <2>1, <2>2, <3>1, PushFails DEF MountFallback, BlobReply
  <2>3. CASE Answer(r, "error")
    BY <1>0, <1>4, <2>1, <2>3, OtherAnswer DEF MountFallback, BlobReply
  <2> QED BY <1>1, <1>4, <2>2, <2>3 DEF MountFallback
<1>5. CASE PutFileFails(r) \/ StatExisting(r) \/ RegisterFails(r) \/ Cleanup(r) \/ MountSource(r)
           \/ MountOpen(r) \/ CommitOffset(r) \/ FinalChunk(r) \/ Finalize(r)
           \/ FinalizeFails(r) \/ Discard(r)
  <2>1. /\ blobReq[r].op \notin PullOps
        /\ blobReq[r].pc \notin {"idle", "done"}
    BY <1>5 DEF PutFileFails, StatExisting, RegisterFails, Cleanup, MountSource, MountOpen,
                CommitOffset, FinalChunk, Finalize, FinalizeFails, Discard, OpFits, PushOps,
                PullOps
  <2>2. \/ \E reply \in {"rejected", "error"} : Answer(r, reply)
        \/ \E pc : Goto(r, pc)
        \/ GotoRegister(r)
        \/ \E pc, offset : GotoAt(r, pc, offset)
    BY <1>5 DEF PutFileFails, StatExisting, RegisterFails, Cleanup, MountSource, MountOpen,
                CommitOffset, FinalChunk, Finalize, FinalizeFails, Discard
  <2> QED BY <1>0, <1>1, <2>1, <2>2, OtherAnswer DEF BlobReply
<1>6. CASE Initiate(r) \/ AppendChunk(r) \/ UploadUnknown(r)
  <2>1. /\ blobReq[r].op \notin PullOps
        /\ blobReq[r].pc \notin {"idle", "done"}
        /\ Initiate(r) => (blobReq[r].op \in PushOps => blobReq[r].op = "Mount")
        /\ AppendChunk(r) => blobReq[r].op \notin PushOps
    BY <1>6 DEF Initiate, AppendChunk, UploadUnknown, OpFits, PushOps, PullOps
  <2>2. \/ \E reply \in {"uploadUnknown", "rangeInvalid", "error"} : Answer(r, reply)
        \/ Answer(r, "accepted") /\ (blobReq[r].op \in PushOps => blobReq[r].op = "Mount")
    BY <1>6, <2>1 DEF Initiate, AppendChunk, UploadUnknown
  <2> QED BY <1>0, <2>1, <2>2, OtherAnswer DEF BlobReply
<1>7. CASE GetUploadStatus(r) \/ CancelStat(r) \/ CancelUpload(r)
  <2>1. /\ blobReq[r].op \notin PushOps \cup PullOps
        /\ blobReq[r].pc \notin {"idle", "done"}
    BY <1>7 DEF GetUploadStatus, CancelStat, CancelUpload, OpFits
  <2>2. \/ Answer(r, "ok") \/ Answer(r, "error")
        \/ Goto(r, "cancel")
    BY <1>7 DEF GetUploadStatus, CancelStat, CancelUpload
  <2> QED BY <1>0, <1>1, <2>1, <2>2, OtherAnswer DEF BlobReply
<1>8. CASE PutFile(r) \/ PutFileCommitted(r)
  BY <1>1, <1>8 DEF PutFile, PutFileCommitted
<1> QED BY <1>2, <1>3, <1>4, <1>5, <1>6, <1>7, <1>8 DEF BlobServe

LEMMA NextRefines ==
    ASSUME CatalogInv, [Next]_vars
    PROVE  CatalogStep
<1>1. CASE BlobServiceNext
  <2>1. PICK r \in BlobRequest : BlobArrive(r) \/ Disconnect(r) \/ BlobServe(r)
    BY <1>1 DEF BlobServiceNext
  <2>2. CASE BlobArrive(r) \/ Disconnect(r)
    <3>1. Registered' = Registered
      BY <2>2 DEF BlobArrive, Disconnect, ReadOnly, metaVars, Registered
    <3> QED BY <2>2, <3>1, ArriveIsMake, MoveInvisible
  <2>3. CASE Register(r)
    <3>1. <<Ns(r), Dg(r)>> \in Key
      BY <2>3 DEF Register, At, Ns, Dg, CatalogInv, TypeInv, BlobReqInv, Targeted, Key
    <3>2. namespaceBlobs' = [namespaceBlobs EXCEPT ![<<Ns(r), Dg(r)>>] = "active"]
      BY <2>3 DEF Register, InsertNamespaceBlob
    <3>3. Registered' = Registered \cup {<<Ns(r), Dg(r)>>}
      BY <3>1, <3>2 DEF CatalogInv, TypeInv, MetaTypeOK, Registered
    <3> QED BY <2>3, <3>3, RegisterIsPush
  <2>4. CASE BlobServe(r) /\ ~Register(r)
    BY <2>4, ServeRefines
  <2> QED BY <2>1, <2>2, <2>3, <2>4
<1>2. CASE /\ \/ ManifestServiceNext /\ UNCHANGED blobReq
              \/ \E n \in Namespace : CreateNamespaceRequest(n) \/ DeleteNamespaceRequest(n)
              \/ UNCHANGED vars
  <2>1. UNCHANGED <<namespaceBlobs, blobReq>>
    BY <1>2
       DEF ManifestServiceNext, ManifestArrive, ManifestDisconnect, ManifestServe, PutBody, Store,
           StoreFails, ResolveManifest, OpenBody, Remove, RemoveFails, DeleteBody, List,
           MReadOnly, metaVars, StoreManifest, RemoveManifest, CreateNamespaceRequest,
           DeleteNamespaceRequest, CreateNamespace, DeleteNamespace, vars
  <2>2. Calls' = Calls /\ Registered' = Registered
    BY <2>1 DEF Calls, Registered
  <2> QED BY <2>2, Invisible
<1>3. CASE Crash
  <2>1. Registered' = Registered
    BY <1>3 DEF Crash, metaVars, Registered
  <2>2. AbstractCall(NoRequest) = Catalog!NoCall
    BY DEF AbstractCall, NoRequest, Request, PushOps, PullOps, Catalog!NoCall
  <2>3. Calls' = [c \in BlobRequest |-> Catalog!NoCall]
    BY <1>3, <2>2 DEF Crash, Calls
  <2>4. Catalog!Restart
    BY <2>1, <2>3 DEF Catalog!Restart, Calls
  <2> QED BY <2>4 DEF CatalogStep, Catalog!CatalogNext
<1> QED BY <1>1, <1>2, <1>3 DEF Next

(* The blob API implements the catalogue: every push and pull takes effect at    *)
(* one moment, and what was pushed stays there and can be pulled. As shipped     *)
(* this is through every interleaving, failure, disconnect and crash; with a     *)
(* worker pool as long as nothing makes a request delete bytes of others.        *)
THEOREM RegistryImplementsCatalog ==
    ASSUME NothingRemoved
    PROVE  Spec => ImplementsCatalog
<1>1. Init => Catalog!CatalogInit
  <2>1. AbstractCall(NoRequest) = Catalog!NoCall
    BY DEF AbstractCall, NoRequest, Request, PushOps, PullOps, Catalog!NoCall
  <2> QED BY <2>1 DEF Init, MetaInit, BlobReqInit, Registered, Key, Catalog!CatalogInit
<1>2. Init => CatalogInv
  <2>1. Init => ForeignKeys
    BY DEF Init, MetaInit, ForeignKeys, Referenced, Key
  <2>2. Init => RegisteredHasBytes /\ BytesBeforeRow /\ OpensRegistered
                  /\ \A r \in BlobRequest : OpFits(blobReq[r])
    BY DEF Init, MetaInit, BlobReqInit, NoRequest, Request, Key, RegisteredHasBytes,
           StatNamespaceBlob, BytesBeforeRow, OpensRegistered, OpFits
  <2> QED BY <2>1, <2>2, InitType, UnremovedInit DEF CatalogInv, Unremoved
<1>3. CatalogInv /\ [Next]_vars => CatalogInv'
  <2> SUFFICES ASSUME CatalogInv, [Next]_vars PROVE CatalogInv'
    OBVIOUS
  <2>1. TypeInv'
    BY NextType DEF CatalogInv
  <2>2. ForeignKeys'
    BY MetaEffect, ForeignKeysStep DEF CatalogInv, TypeInv
  <2>3. RegisteredHasBytes' /\ BytesBeforeRow'
    BY BytesStep DEF CatalogInv
  <2>4. \A r \in BlobRequest : OpFits(blobReq'[r])
    BY FitsStep DEF CatalogInv
  <2>5. OpensRegistered'
    BY OpensStep
  <2>6. Unremoved'
    BY UnremovedStep DEF CatalogInv
  <2> QED BY <2>1, <2>2, <2>3, <2>4, <2>5, <2>6 DEF CatalogInv, OpFits
<1>4. CatalogInv /\ [Next]_vars => [Catalog!CatalogNext]_(Catalog!CatalogVars)
  BY NextRefines DEF CatalogStep
<1> QED BY <1>1, <1>2, <1>3, <1>4, PTL DEF Spec, ImplementsCatalog, Catalog!CatalogSpec

-----------------------------------------------------------------------------
(* The manifest API, as shipped, implements ManifestCatalog. *)

ManifestCallOps == {"PutManifest", "GetManifest", "HeadManifest", "DeleteManifest"}

(* As OpFits. *)
MFits(q) ==
    /\ q.pc = "idle" => q.op = "none"
    /\ q.pc \in {"putBody", "store"} => q.op = "PutManifest"
    /\ q.pc = "lookup" => q.op \in {"GetManifest", "HeadManifest"}
    /\ q.pc = "openBody" => q.op = "GetManifest"
    /\ q.pc \in {"remove", "deleteBody"} => q.op = "DeleteManifest"
    /\ q.pc = "list" => q.op = "ListReferrers"
    /\ q.pc = "done" <=> q.reply # "none"
    /\ q.op = "none" => q.pc = "idle"

ShelfInv ==
    /\ TypeInv /\ ForeignKeys /\ ActiveManifestHasBytes
    /\ \A r \in ManifestRequest : MFits(manReq[r])

(* The call of every client, as the catalogue of manifests sees it. *)
ManifestCalls == [r \in ManifestRequest |-> AbstractManifestCall(manReq[r])]

ShelfStep == [Manifest!ManifestCatalogNext]_(Manifest!ManifestVars)

LEMMA MReplied ==
    ASSUME ManReqTypeOK, NEW r \in ManifestRequest, NEW reply, MAnswer(r, reply)
    PROVE  /\ manReq'[r].pc = "done" /\ manReq'[r].reply = reply
           /\ manReq'[r].op = manReq[r].op
           /\ manReq'[r].ns = manReq[r].ns /\ manReq'[r].dg = manReq[r].dg
           /\ manReq'[r].mediaType = NoMediaType
           /\ \A x \in ManifestRequest \ {r} : manReq'[x] = manReq[x]
BY DEF ManReqTypeOK, MAnswer, MRequest, MOp, MNs, MDg

LEMMA MMoved ==
    ASSUME ManReqTypeOK, NEW r \in ManifestRequest, NEW pc, MGoto(r, pc)
    PROVE  /\ manReq'[r].pc = pc
           /\ manReq'[r].op = manReq[r].op
           /\ manReq'[r].ns = manReq[r].ns /\ manReq'[r].dg = manReq[r].dg
           /\ manReq'[r].mediaType = manReq[r].mediaType
           /\ manReq'[r].reply = manReq[r].reply
           /\ \A x \in ManifestRequest \ {r} : manReq'[x] = manReq[x]
BY DEF ManReqTypeOK, MGoto, ManifestRequestRecord

(* The request that a slot is given: what the checks of its text and the first   *)
(* call of the metadata store make of it.                                        *)
LEMMA MArrival ==
    ASSUME ManReqTypeOK, NEW r \in ManifestRequest, ManifestArrive(r)
    PROVE  \E op \in ManifestOps, n \in Namespace, d \in Digest, m \in MediaType \cup {NoMediaType} :
             /\ op = "PutManifest" <=> m # NoMediaType
             /\ manReq'[r].op = op /\ manReq'[r].ns = n /\ manReq'[r].dg = d
             /\ \/ /\ manReq'[r].pc = ManifestFirstCall[op] /\ manReq'[r].reply = "none"
                   /\ manReq'[r].mediaType = m
                \/ /\ manReq'[r].pc = "done" /\ manReq'[r].mediaType = NoMediaType
                   /\ \/ manReq'[r].reply = "nameUnknown" /\ ~NamespaceExists(n)
                      \/ manReq'[r].reply = "error"
                      \/ manReq'[r].reply = "ok" /\ op = "ListReferrers"
             /\ \A x \in ManifestRequest \ {r} : manReq'[x] = manReq[x]
<1>1. PICK op \in ManifestOps, n \in Namespace, d \in Digest, m \in MediaType \cup {NoMediaType} :
          /\ op = "PutManifest" <=> m # NoMediaType
          /\ \/ manReq' = [manReq EXCEPT ![r] = NewManifestRequest(op, n, d, m)]
             \/ manReq' = [manReq EXCEPT ![r] = RefusedManifestRequest(op, n, d)]
  BY DEF ManifestArrive
<1>2. /\ manReq'[r] \in {NewManifestRequest(op, n, d, m), RefusedManifestRequest(op, n, d)}
      /\ \A x \in ManifestRequest \ {r} : manReq'[x] = manReq[x]
  BY <1>1 DEF ManReqTypeOK
<1>3. CASE manReq'[r] = RefusedManifestRequest(op, n, d)
  BY <1>1, <1>2, <1>3 DEF RefusedManifestRequest, MRequest
<1>4. CASE manReq'[r] = NewManifestRequest(op, n, d, m)
  BY <1>1, <1>2, <1>4 DEF NewManifestRequest, MRequest
<1> QED BY <1>2, <1>3, <1>4

LEMMA MFitsStep ==
    ASSUME TypeInv, \A r \in ManifestRequest : MFits(manReq[r]), [Next]_vars
    PROVE  \A r \in ManifestRequest : MFits(manReq'[r])
<1>0. ManReqTypeOK
  BY DEF TypeInv, ManReqInv
<1>1. CASE ManifestServiceNext
  <2>1. PICK r \in ManifestRequest :
           ManifestArrive(r) \/ ManifestDisconnect(r) \/ ManifestServe(r)
    BY <1>1 DEF ManifestServiceNext
  <2>2. CASE ManifestArrive(r)
    <3>1. \A op \in ManifestOps : /\ op # "none"
                                  /\ ManifestFirstCall[op] \in {"putBody", "lookup", "remove", "list"}
                                  /\ ManifestFirstCall[op] = "putBody" => op = "PutManifest"
                                  /\ ManifestFirstCall[op] = "lookup"
                                        => op \in {"GetManifest", "HeadManifest"}
                                  /\ ManifestFirstCall[op] = "remove" => op = "DeleteManifest"
                                  /\ ManifestFirstCall[op] = "list" => op = "ListReferrers"
      BY ManifestServiceAssumption DEF ManifestFirstCall
    <3>2. MFits(manReq'[r])
      BY <1>0, <2>2, <3>1, MArrival DEF MFits
    <3> QED BY <1>0, <2>2, <3>2, MArrival
  <2>3. CASE ManifestDisconnect(r)
    <3>1. manReq'[r].op = manReq[r].op
      BY <1>0, <2>3 DEF ManifestDisconnect, ManReqTypeOK, ManifestRequestRecord
    <3> QED BY <1>0, <2>3, <3>1, MDisconnected DEF MFits
  <2>4. CASE ManifestServe(r)
    <3>1. CASE \E reply \in ManifestReply \ {"none"} : MAnswer(r, reply)
      <4>1. manReq[r].pc # "idle"
        BY <2>4 DEF ManifestServe, PutBody, Store, StoreFails, ResolveManifest, OpenBody, Remove,
                    RemoveFails, DeleteBody, List, MAt
      <4>2. PICK reply \in ManifestReply \ {"none"} : MAnswer(r, reply)
        BY <3>1
      <4>3. manReq'[r].pc = "done" /\ manReq'[r].reply = reply /\ manReq'[r].op = manReq[r].op
        BY <1>0, <4>2, MReplied
      <4>4. MFits(manReq[r])
        OBVIOUS
      <4>5. MFits(manReq'[r])
        BY <4>1, <4>3, <4>4 DEF MFits
      <4> QED BY <1>0, <4>2, <4>5, MReplied
    <3>2. CASE \/ manReq[r].pc = "putBody" /\ MGoto(r, "store")
               \/ manReq[r].pc = "lookup" /\ manReq[r].op # "HeadManifest" /\ MGoto(r, "openBody")
               \/ manReq[r].pc = "remove" /\ MGoto(r, "deleteBody")
      <4>1. PICK pc \in {"store", "openBody", "deleteBody"} :
               /\ MGoto(r, pc)
               /\ pc = "store" => manReq[r].pc = "putBody"
               /\ pc = "openBody" => manReq[r].pc = "lookup" /\ manReq[r].op # "HeadManifest"
               /\ pc = "deleteBody" => manReq[r].pc = "remove"
        BY <3>2
      <4>2. /\ manReq'[r].pc = pc /\ manReq'[r].reply = manReq[r].reply
            /\ manReq'[r].op = manReq[r].op
        BY <1>0, <4>1, MMoved
      <4>3. MFits(manReq[r])
        OBVIOUS
      <4>4. MFits(manReq'[r])
        BY <4>1, <4>2, <4>3 DEF MFits
      <4> QED BY <1>0, <4>1, <4>4, MMoved
    <3> QED BY <2>4, <3>1, <3>2
            DEF ManifestServe, PutBody, Store, StoreFails, ResolveManifest, OpenBody, Remove,
                RemoveFails, DeleteBody, List, MAt, MOp, ManifestReply
  <2> QED BY <2>1, <2>2, <2>3, <2>4
<1>2. CASE UNCHANGED manReq
  BY <1>2
<1>3. CASE Crash
  BY <1>3 DEF Crash, NoManifestRequest, MRequest, MFits
<1> QED
  BY <1>1, <1>2, <1>3
     DEF Next, CreateNamespaceRequest, DeleteNamespaceRequest, vars

-----------------------------------------------------------------------------
(* Every step is a step of the catalogue of manifests, or invisible *)

LEMMA OtherManifestCalls ==
    ASSUME NEW r \in ManifestRequest,
           \A x \in ManifestRequest \ {r} : manReq'[x] = manReq[x]
    PROVE  ManifestCalls' = [ManifestCalls EXCEPT ![r] = AbstractManifestCall(manReq'[r])]
<1>1. \A x \in ManifestRequest \ {r} :
         AbstractManifestCall(manReq'[x]) = AbstractManifestCall(manReq[x])
  OBVIOUS
<1>2. ManifestCalls' = [x \in ManifestRequest |-> AbstractManifestCall(manReq'[x])]
  BY DEF ManifestCalls
<1> QED BY <1>1, <1>2 DEF ManifestCalls

LEMMA InvisibleToShelf ==
    ASSUME ManifestCalls' = ManifestCalls, UNCHANGED manifests
    PROVE  ShelfStep
BY DEF ShelfStep, ManifestCalls, Manifest!ManifestVars

(* The call of a request, whose moment has come or has not. *)
CallRecord(q, effect) ==
    [kind |-> ManifestKind(q.op), key |-> <<q.ns, q.dg>>, type |-> q.mediaType,
     effect |-> effect, answer |-> q.reply]

LEMMA CallOf ==
    ASSUME NEW q, q.op \in ManifestCallOps
    PROVE  /\ q.pc \in {"openBody", "deleteBody"} => AbstractManifestCall(q) = CallRecord(q, TRUE)
           /\ q.pc \notin {"openBody", "deleteBody"}
                 => AbstractManifestCall(q) = CallRecord(q, FALSE)
<1>1. AbstractManifestCall(q) = CallRecord(q, q.pc \in {"openBody", "deleteBody"})
  BY Zenon DEF AbstractManifestCall, CallRecord, ManifestCallOps
<1>2. CASE q.pc \in {"openBody", "deleteBody"}
  <2>1. (q.pc \in {"openBody", "deleteBody"}) = TRUE
    BY <1>2, Zenon
  <2> QED BY <1>1, <1>2, <2>1, Zenon
<1>3. CASE q.pc \notin {"openBody", "deleteBody"}
  <2>1. (q.pc \in {"openBody", "deleteBody"}) = FALSE
    BY <1>3, SMT
  <2> QED BY <1>1, <1>3, <2>1, Zenon
<1> QED BY <1>2, <1>3

(* What the catalogue knows of a request that waits for a call. *)
LEMMA WaitingCall ==
    ASSUME NEW r \in ManifestRequest, MFits(manReq[r]),
           manReq[r].pc \notin {"idle", "done"}, manReq[r].op \in ManifestCallOps
    PROVE  /\ Manifest!Calls(r, ManifestKind(manReq[r].op))
           /\ ManifestCalls[r].key = <<manReq[r].ns, manReq[r].dg>>
           /\ ManifestCalls[r].type = manReq[r].mediaType
           /\ manReq[r].pc \in {"openBody", "deleteBody"}
                 => ManifestCalls[r] = CallRecord(manReq[r], TRUE) /\ ManifestCalls[r].effect = TRUE
           /\ manReq[r].pc \notin {"openBody", "deleteBody"}
                 => ManifestCalls[r] = CallRecord(manReq[r], FALSE) /\ ManifestCalls[r].effect = FALSE
<1>1. PICK effect \in BOOLEAN : ManifestCalls[r] = CallRecord(manReq[r], effect)
  BY CallOf DEF ManifestCalls
<1>2. ManifestKind(manReq[r].op) # "none" /\ manReq[r].reply = "none"
  BY DEF ManifestKind, MFits
<1>3. Manifest!Calls(r, ManifestKind(manReq[r].op))
  BY <1>1, <1>2 DEF CallRecord, Manifest!Calls, Manifest!Waiting, ManifestCalls
<1>4. /\ ManifestCalls[r].key = <<manReq[r].ns, manReq[r].dg>>
      /\ ManifestCalls[r].type = manReq[r].mediaType
  BY <1>1 DEF CallRecord
<1>5. CASE manReq[r].pc \in {"openBody", "deleteBody"}
  <2>1. ManifestCalls[r] = CallRecord(manReq[r], TRUE)
    BY <1>5, CallOf DEF ManifestCalls
  <2>2. ManifestCalls[r].effect = TRUE
    BY <2>1 DEF CallRecord
  <2> QED BY <1>3, <1>4, <1>5, <2>1, <2>2
<1>6. CASE manReq[r].pc \notin {"openBody", "deleteBody"}
  <2>1. ManifestCalls[r] = CallRecord(manReq[r], FALSE)
    BY <1>6, CallOf DEF ManifestCalls
  <2>2. ManifestCalls[r].effect = FALSE
    BY <2>1 DEF CallRecord
  <2> QED BY <1>3, <1>4, <1>6, <2>1, <2>2
<1> QED BY <1>5, <1>6

(* An answer, as the catalogue sees it. *)
LEMMA AnswerIsReply ==
    ASSUME ManReqTypeOK, NEW r \in ManifestRequest, manReq[r].op \in ManifestCallOps, NEW reply,
           MAnswer(r, reply)
    PROVE  Manifest!Reply(r, reply)
<1>1. /\ manReq'[r].op = manReq[r].op /\ manReq'[r].ns = manReq[r].ns
      /\ manReq'[r].dg = manReq[r].dg /\ manReq'[r].mediaType = NoMediaType
      /\ manReq'[r].pc = "done" /\ manReq'[r].reply = reply
  BY MReplied
<1>2. AbstractManifestCall(manReq'[r]) = CallRecord(manReq'[r], FALSE)
  BY <1>1, CallOf
<1>3. PICK effect \in BOOLEAN : ManifestCalls[r] = CallRecord(manReq[r], effect)
  BY CallOf DEF ManifestCalls
<1>4. ManifestCalls' = [ManifestCalls EXCEPT ![r] = AbstractManifestCall(manReq'[r])]
  BY MReplied, OtherManifestCalls
<1>5. AbstractManifestCall(manReq'[r]) =
         [kind |-> ManifestCalls[r].kind, key |-> ManifestCalls[r].key, type |-> NoMediaType,
          effect |-> FALSE, answer |-> reply]
  BY <1>1, <1>2, <1>3 DEF CallRecord
<1> QED BY <1>4, <1>5 DEF Manifest!Reply, ManifestCalls

(* A request that moves on, as the catalogue sees it. *)
LEMMA MoveIsEffect ==
    ASSUME ManReqTypeOK, NEW r \in ManifestRequest, manReq[r].op \in ManifestCallOps, NEW pc,
           MGoto(r, pc)
    PROVE  /\ pc \in {"openBody", "deleteBody"}
                 => ManifestCalls' = [ManifestCalls EXCEPT ![r].effect = TRUE]
           /\ pc \notin {"openBody", "deleteBody"}
                 => ManifestCalls' = [ManifestCalls EXCEPT ![r].effect = FALSE]
<1>1. /\ manReq'[r].op = manReq[r].op /\ manReq'[r].ns = manReq[r].ns
      /\ manReq'[r].dg = manReq[r].dg /\ manReq'[r].mediaType = manReq[r].mediaType
      /\ manReq'[r].pc = pc /\ manReq'[r].reply = manReq[r].reply
  BY MMoved
<1>2. PICK effect \in BOOLEAN : ManifestCalls[r] = CallRecord(manReq[r], effect)
  BY CallOf DEF ManifestCalls
<1>3. ManifestCalls' = [ManifestCalls EXCEPT ![r] = AbstractManifestCall(manReq'[r])]
  BY MMoved, OtherManifestCalls
<1>4. \A b : CallRecord(manReq'[r], b) = [ManifestCalls[r] EXCEPT !.effect = b]
  BY <1>1, <1>2 DEF CallRecord
<1>5. ASSUME pc \in {"openBody", "deleteBody"}
      PROVE  ManifestCalls' = [ManifestCalls EXCEPT ![r].effect = TRUE]
  <2>1. AbstractManifestCall(manReq'[r]) = CallRecord(manReq'[r], TRUE)
    BY <1>1, <1>5, CallOf
  <2>2. CallRecord(manReq'[r], TRUE) = [ManifestCalls[r] EXCEPT !.effect = TRUE]
    BY <1>4
  <2> QED BY <1>3, <2>1, <2>2
<1>6. ASSUME pc \notin {"openBody", "deleteBody"}
      PROVE  ManifestCalls' = [ManifestCalls EXCEPT ![r].effect = FALSE]
  <2>1. AbstractManifestCall(manReq'[r]) = CallRecord(manReq'[r], FALSE)
    BY <1>1, <1>6, CallOf
  <2>2. CallRecord(manReq'[r], FALSE) = [ManifestCalls[r] EXCEPT !.effect = FALSE]
    BY <1>4
  <2> QED BY <1>3, <2>1, <2>2
<1> QED BY <1>5, <1>6

LEMMA ArriveIsCall ==
    ASSUME ShelfInv, NEW r \in ManifestRequest, ManifestArrive(r)
    PROVE  ShelfStep
<1>0. ManReqTypeOK
  BY DEF ShelfInv, TypeInv, ManReqInv
<1>1. PICK op \in ManifestOps, n \in Namespace, d \in Digest, m \in MediaType \cup {NoMediaType} :
             /\ op = "PutManifest" <=> m # NoMediaType
             /\ manReq'[r].op = op /\ manReq'[r].ns = n /\ manReq'[r].dg = d
             /\ \/ /\ manReq'[r].pc = ManifestFirstCall[op] /\ manReq'[r].reply = "none"
                   /\ manReq'[r].mediaType = m
                \/ /\ manReq'[r].pc = "done" /\ manReq'[r].mediaType = NoMediaType
                   /\ \/ manReq'[r].reply = "nameUnknown" /\ ~NamespaceExists(n)
                      \/ manReq'[r].reply = "error"
                      \/ manReq'[r].reply = "ok" /\ op = "ListReferrers"
             /\ \A x \in ManifestRequest \ {r} : manReq'[x] = manReq[x]
  BY <1>0, MArrival
<1>2. ManifestCalls' = [ManifestCalls EXCEPT ![r] = AbstractManifestCall(manReq'[r])]
  BY <1>1, OtherManifestCalls
<1>3. UNCHANGED manifests
  BY DEF ManifestArrive, MReadOnly, metaVars
<1>4. ~Manifest!Waiting(r)
  BY DEF ManifestArrive, ShelfInv, MFits, AbstractManifestCall, Manifest!Waiting
<1>5. CASE op \in ManifestCallOps
  <2>1. <<n, d>> \in Key /\ (~NamespaceExists(n) => manifests[<<n, d>>] = NoManifest)
    BY DEF Key, ShelfInv, ForeignKeys, Referenced
  <2>2. ManifestFirstCall[op] \notin {"openBody", "deleteBody"}
    BY ManifestServiceAssumption DEF ManifestFirstCall
  <2>a. manReq'[r].pc \notin {"openBody", "deleteBody"}
    BY <1>1, <2>2
  <2>3. AbstractManifestCall(manReq'[r]) =
           [kind |-> ManifestKind(op), key |-> <<n, d>>, type |-> manReq'[r].mediaType,
            effect |-> FALSE, answer |-> manReq'[r].reply]
    BY <1>1, <1>5, <2>a, CallOf DEF CallRecord
  <2>b. AbstractManifestCall(manReq'[r]).answer = "nameUnknown"
           => manifests[AbstractManifestCall(manReq'[r]).key] = NoManifest
    BY <1>1, <2>1, <2>3
  <2>4. Manifest!NewCall(AbstractManifestCall(manReq'[r]))
    <3>1. /\ ManifestKind(op) \in {"put", "get", "delete"}
          /\ ManifestKind(op) = "put" <=> op = "PutManifest"
      BY <1>5 DEF ManifestKind, ManifestCallOps
    <3>2. /\ manReq'[r].reply \in {"none", "nameUnknown", "error"}
          /\ manReq'[r].mediaType \in IF ManifestKind(op) = "put" /\ manReq'[r].reply = "none"
                                      THEN MediaType ELSE {NoMediaType}
      BY <1>1, <1>5, <3>1 DEF ManifestCallOps
    <3> QED BY <2>1, <2>3, <3>1, <3>2 DEF Manifest!NewCall
  <2>5. Manifest!Make(r)
    BY <1>2, <1>3, <1>4, <2>b, <2>4 DEF Manifest!Make, Manifest!NoEntry, NoManifest, ManifestCalls
  <2> QED BY <2>5 DEF ShelfStep, Manifest!ManifestCatalogNext
<1>6. CASE op \notin ManifestCallOps
  <2>1. AbstractManifestCall(manReq'[r]) = Manifest!NoManifestCall
    BY <1>1, <1>6 DEF AbstractManifestCall, ManifestCallOps, Manifest!NoManifestCall
  <2>2. Manifest!Forget(r)
    BY <1>2, <1>3, <1>4, <2>1 DEF Manifest!Forget, ManifestCalls
  <2> QED BY <2>2 DEF ShelfStep, Manifest!ManifestCatalogNext
<1> QED BY <1>5, <1>6

LEMMA PutRefines ==
    ASSUME ShelfInv, NEW r \in ManifestRequest, PutBody(r) \/ Store(r) \/ StoreFails(r)
    PROVE  ShelfStep
<1>0. ManReqTypeOK /\ MFits(manReq[r])
  BY DEF ShelfInv, TypeInv, ManReqInv
<1>1. /\ manReq[r].pc \in {"putBody", "store"} /\ manReq[r].op = "PutManifest"
      /\ manReq[r].op \in ManifestCallOps /\ ManifestKind(manReq[r].op) = "put"
  BY <1>0 DEF PutBody, Store, StoreFails, MAt, MFits, ManifestCallOps, ManifestKind
<1>2. /\ Manifest!Calls(r, "put")
      /\ ManifestCalls[r].key = <<manReq[r].ns, manReq[r].dg>>
      /\ ManifestCalls[r].type = manReq[r].mediaType
  BY <1>0, <1>1, WaitingCall
<1>3. CASE PutBody(r) /\ MGoto(r, "store")
  <2>1. CallRecord(manReq'[r], FALSE) = CallRecord(manReq[r], FALSE)
    BY <1>0, <1>3, MMoved DEF CallRecord
  <2>2. AbstractManifestCall(manReq'[r]) = CallRecord(manReq'[r], FALSE)
    <3>1. manReq'[r].pc = "store" /\ manReq'[r].op = manReq[r].op
      BY <1>0, <1>3, MMoved
    <3> QED BY <1>1, <3>1, CallOf
  <2>3. AbstractManifestCall(manReq[r]) = CallRecord(manReq[r], FALSE)
    BY <1>1, CallOf
  <2>4. ManifestCalls' = ManifestCalls
    BY <1>0, <1>3, <2>1, <2>2, <2>3, MMoved, OtherManifestCalls DEF ManifestCalls
  <2>5. UNCHANGED manifests
    BY <1>3 DEF PutBody, metaVars
  <2> QED BY <2>4, <2>5, InvisibleToShelf
<1>4. CASE (PutBody(r) \/ StoreFails(r)) /\ MAnswer(r, "error")
  <2>1. Manifest!Reply(r, "error")
    BY <1>0, <1>1, <1>4, AnswerIsReply
  <2>2. UNCHANGED manifests
    BY <1>4 DEF PutBody, StoreFails, MReadOnly, metaVars
  <2>3. Manifest!PutFails(r)
    BY <1>2, <2>1, <2>2 DEF Manifest!PutFails
  <2> QED BY <2>3 DEF ShelfStep, Manifest!ManifestCatalogNext
<1>5. CASE Store(r)
  <2>1. Manifest!Reply(r, "ok")
    BY <1>0, <1>1, <1>5, AnswerIsReply DEF Store
  <2>2. manifests' = [manifests EXCEPT ![<<manReq[r].ns, manReq[r].dg>>] =
                        InsertedManifest(manReq[r].ns, manReq[r].dg, manReq[r].mediaType)]
    BY <1>5 DEF Store, StoreManifest, MNs, MDg
  <2>3. Manifest!Put(r)
    BY <1>2, <2>1, <2>2
       DEF Manifest!Put, Manifest!NoEntry, Manifest!Entry, InsertedManifest, NoManifest,
           ManifestCalls
  <2> QED BY <2>3 DEF ShelfStep, Manifest!ManifestCatalogNext
<1> QED BY <1>3, <1>4, <1>5 DEF PutBody, StoreFails

LEMMA GetRefines ==
    ASSUME ShelfInv, NEW r \in ManifestRequest, ResolveManifest(r) \/ OpenBody(r)
    PROVE  ShelfStep
<1>0. ManReqTypeOK /\ MFits(manReq[r])
  BY DEF ShelfInv, TypeInv, ManReqInv
<1>1. /\ manReq[r].pc \in {"lookup", "openBody"}
      /\ manReq[r].op \in ManifestCallOps /\ ManifestKind(manReq[r].op) = "get"
      /\ manReq[r].ns \in Namespace /\ manReq[r].dg \in Digest
  BY <1>0 DEF ResolveManifest, OpenBody, MAt, MFits, ManifestCallOps, ManifestKind, ShelfInv,
              TypeInv, ManReqInv, MTargeted
<1>2. /\ Manifest!Calls(r, "get")
      /\ ManifestCalls[r].key = <<manReq[r].ns, manReq[r].dg>>
      /\ manReq[r].pc = "openBody" => ManifestCalls[r].effect
  BY <1>0, <1>1, WaitingCall
<1>3. Manifest!Listed(r) <=> GetManifestByDigest(manReq[r].ns, manReq[r].dg)
  BY <1>2 DEF Manifest!Listed, ManifestCalls, GetManifestByDigest
<1>4. UNCHANGED manifests
  BY DEF ResolveManifest, OpenBody, MReadOnly, metaVars
<1>5. CASE MGoto(r, "openBody") /\ GetManifestByDigest(manReq[r].ns, manReq[r].dg)
  <2>1. ManifestCalls' = [ManifestCalls EXCEPT ![r].effect = TRUE]
    BY <1>0, <1>1, <1>5, MoveIsEffect
  <2>2. Manifest!See(r)
    BY <1>2, <1>3, <1>4, <1>5, <2>1 DEF Manifest!See, ManifestCalls
  <2> QED BY <2>2 DEF ShelfStep, Manifest!ManifestCatalogNext
<1>6. ASSUME NEW a \in {"ok", "manifestUnknown", "error"}, MAnswer(r, a),
             a = "ok" => ManifestCalls[r].effect \/ Manifest!Listed(r),
             a = "manifestUnknown" => ~Manifest!Listed(r)
      PROVE  ShelfStep
  <2>1. Manifest!Reply(r, a)
    BY <1>0, <1>1, <1>6, AnswerIsReply
  <2>2. Manifest!Get(r)
    BY <1>2, <1>4, <1>6, <2>1 DEF Manifest!Get, ManifestCalls
  <2> QED BY <2>2 DEF ShelfStep, Manifest!ManifestCatalogNext
<1>7. CASE ResolveManifest(r)
  BY <1>3, <1>5, <1>6, <1>7 DEF ResolveManifest, MNs, MDg
<1>8. CASE OpenBody(r)
  <2>1. ~Stored(MNs(r), MDg(r)) => ~Manifest!Listed(r)
    BY <1>1, <1>3 DEF ShelfInv, ActiveManifestHasBytes, MNs, MDg
  <2>2. ManifestCalls[r].effect
    BY <1>2, <1>8 DEF OpenBody, MAt
  <2> QED BY <1>6, <1>8, <2>1, <2>2 DEF OpenBody
<1> QED BY <1>7, <1>8

LEMMA DeleteRefines ==
    ASSUME ShelfInv, NEW r \in ManifestRequest, Remove(r) \/ RemoveFails(r) \/ DeleteBody(r)
    PROVE  ShelfStep
<1>0. ManReqTypeOK /\ MFits(manReq[r])
  BY DEF ShelfInv, TypeInv, ManReqInv
<1>1. /\ manReq[r].pc \in {"remove", "deleteBody"}
      /\ manReq[r].op \in ManifestCallOps /\ ManifestKind(manReq[r].op) = "delete"
  BY <1>0 DEF Remove, RemoveFails, DeleteBody, MAt, MFits, ManifestCallOps, ManifestKind
<1>2. /\ Manifest!Calls(r, "delete")
      /\ ManifestCalls[r].key = <<manReq[r].ns, manReq[r].dg>>
      /\ ManifestCalls[r].effect <=> manReq[r].pc = "deleteBody"
  BY <1>0, <1>1, WaitingCall
<1>3. Manifest!Listed(r) <=> GetManifestByDigest(manReq[r].ns, manReq[r].dg)
  BY <1>2 DEF Manifest!Listed, ManifestCalls, GetManifestByDigest
<1>4. CASE Remove(r)
  <2>1. ManifestCalls' = [ManifestCalls EXCEPT ![r].effect = TRUE]
    BY <1>0, <1>1, <1>4, MoveIsEffect DEF Remove
  <2>2. /\ GetManifestByDigest(manReq[r].ns, manReq[r].dg)
        /\ manifests' = [manifests EXCEPT ![<<manReq[r].ns, manReq[r].dg>>] = Tombstone(@)]
    BY <1>4 DEF Remove, RemoveManifest, MNs, MDg
  <2>3. ~ManifestCalls[r].effect
    BY <1>2, <1>4 DEF Remove, MAt
  <2>4. Manifest!Withdraw(r)
    BY <1>2, <1>3, <2>1, <2>2, <2>3
       DEF Manifest!Withdraw, Manifest!Gone, Tombstone, ManifestCalls
  <2> QED BY <2>4 DEF ShelfStep, Manifest!ManifestCatalogNext
<1>5. CASE RemoveFails(r) \/ DeleteBody(r)
  <2>1. PICK a \in {"ok", "manifestUnknown", "error"} :
           /\ MAnswer(r, a)
           /\ a = "ok" <=> DeleteBody(r)
           /\ a = "manifestUnknown" => ~Manifest!Listed(r)
    <3>1. CASE RemoveFails(r)
      BY <1>3, <3>1 DEF RemoveFails, DeleteBody, MAt, MNs, MDg
    <3>2. CASE DeleteBody(r)
      BY <3>2 DEF DeleteBody
    <3> QED BY <1>5, <3>1, <3>2
  <2>2. a = "ok" <=> ManifestCalls[r].effect
    BY <1>2, <1>5, <2>1 DEF RemoveFails, DeleteBody, MAt
  <2>3. Manifest!Reply(r, a)
    BY <1>0, <1>1, <2>1, AnswerIsReply
  <2>4. UNCHANGED manifests
    BY <1>5 DEF RemoveFails, DeleteBody, MReadOnly, metaVars
  <2>5. Manifest!Delete(r)
    BY <1>2, <2>1, <2>2, <2>3, <2>4 DEF Manifest!Delete, ManifestCalls
  <2> QED BY <2>5 DEF ShelfStep, Manifest!ManifestCatalogNext
<1> QED BY <1>4, <1>5

(* A request for the referrers, and a client that goes away. *)
LEMMA OthersInvisible ==
    ASSUME ShelfInv, NEW r \in ManifestRequest, List(r) \/ ManifestDisconnect(r)
    PROVE  ShelfStep
<1>0. ManReqTypeOK /\ MFits(manReq[r])
  BY DEF ShelfInv, TypeInv, ManReqInv
<1>1. UNCHANGED manifests
  BY DEF List, ManifestDisconnect, MReadOnly, metaVars
<1>2. /\ AbstractManifestCall(manReq'[r]) = AbstractManifestCall(manReq[r])
      /\ \A x \in ManifestRequest \ {r} : manReq'[x] = manReq[x]
  <2>1. CASE List(r)
    <3>1. manReq[r].op = "ListReferrers"
      BY <1>0, <2>1 DEF List, MAt, MFits
    <3>2. \E reply : MAnswer(r, reply)
      BY <2>1 DEF List
    <3> QED BY <1>0, <3>1, <3>2, MReplied DEF AbstractManifestCall
  <2>2. CASE ManifestDisconnect(r)
    <3>1. /\ manReq'[r].op = manReq[r].op /\ manReq'[r].ns = manReq[r].ns
          /\ manReq'[r].dg = manReq[r].dg /\ manReq'[r].mediaType = manReq[r].mediaType
          /\ manReq'[r].pc = manReq[r].pc /\ manReq'[r].reply = manReq[r].reply
      BY <1>0, <2>2 DEF ManifestDisconnect, ManReqTypeOK, ManifestRequestRecord
    <3>2. \A x \in ManifestRequest \ {r} : manReq'[x] = manReq[x]
      BY <1>0, <2>2, MDisconnected
    <3>3. AbstractManifestCall(manReq'[r]) = AbstractManifestCall(manReq[r])
      BY <3>1, Zenon DEF AbstractManifestCall
    <3> QED BY <3>2, <3>3
  <2> QED BY <2>1, <2>2
<1>3. ManifestCalls' = ManifestCalls
  BY <1>2, OtherManifestCalls DEF ManifestCalls
<1> QED BY <1>1, <1>3, InvisibleToShelf

LEMMA NextRefinesShelf ==
    ASSUME ShelfInv, [Next]_vars
    PROVE  ShelfStep
<1>1. CASE ManifestServiceNext
  BY <1>1, ArriveIsCall, PutRefines, GetRefines, DeleteRefines, OthersInvisible
     DEF ManifestServiceNext, ManifestServe
<1>2. CASE UNCHANGED manReq
  <2>1. ~\E r \in ManifestRequest : Store(r) \/ Remove(r)
    BY <1>2, MAnswered, MGone DEF ShelfInv, TypeInv, ManReqInv, Store, Remove, MAt
  <2>2. UNCHANGED manifests
    BY <2>1, ManifestEffect
  <2> QED BY <1>2, <2>2, InvisibleToShelf DEF ManifestCalls
<1>3. CASE Crash
  <2>1. AbstractManifestCall(NoManifestRequest) = Manifest!NoManifestCall
    BY DEF AbstractManifestCall, NoManifestRequest, MRequest, Manifest!NoManifestCall
  <2>2. ManifestCalls' = [c \in ManifestRequest |-> Manifest!NoManifestCall] /\ UNCHANGED manifests
    BY <1>3, <2>1 DEF Crash, ManifestCalls, metaVars
  <2>3. Manifest!Restart
    BY <2>2 DEF Manifest!Restart, ManifestCalls
  <2> QED BY <2>3 DEF ShelfStep, Manifest!ManifestCatalogNext
<1> QED
  BY <1>1, <1>2, <1>3
     DEF Next, CreateNamespaceRequest, DeleteNamespaceRequest, vars

(* The manifest API implements the catalogue of manifests: each put, get and     *)
(* delete takes effect at one moment between its start and its answer, although  *)
(* a get opens the bytes long after it found the row and a delete removes them   *)
(* long after it withdrew it, through every interleaving with requests for the   *)
(* same digest, every failure, disconnect and crash. As shipped there is no      *)
(* further condition; with a worker pool, a readable manifest keeps its bytes    *)
(* as long as no push of a blob has to clean up.                                 *)
THEOREM RegistryImplementsManifests ==
    ASSUME ~VacuumRunning \/ NoPush \/ RegistrationsHold
    PROVE  Spec => ImplementsManifests
<1> DEFINE Fits == \A r \in ManifestRequest : MFits(manReq[r])
<1>1. Init => Manifest!ManifestCatalogInit /\ Fits
  <2>1. AbstractManifestCall(NoManifestRequest) = Manifest!NoManifestCall
    BY DEF AbstractManifestCall, NoManifestRequest, MRequest, Manifest!NoManifestCall
  <2>2. MFits(NoManifestRequest)
    BY DEF MFits, NoManifestRequest, MRequest
  <2> QED BY <2>1, <2>2 DEF Init, MetaInit, ManReqInit, NoManifest, Manifest!ManifestCatalogInit,
                            Manifest!NoEntry
<1>2. TypeInv /\ Fits /\ [Next]_vars => Fits'
  BY MFitsStep
<1>3. TypeInv /\ ForeignKeys /\ ActiveManifestHasBytes /\ Fits /\ [Next]_vars
         => [Manifest!ManifestCatalogNext]_(Manifest!ManifestVars)
  BY NextRefinesShelf DEF ShelfInv, ShelfStep
<1>4. Spec => [](TypeInv /\ ForeignKeys /\ ActiveManifestHasBytes)
  <2>1. Spec => []ActiveManifestHasBytes
    BY ManifestKeepsBytes
  <2> QED BY <2>1, TypeInvariant, ForeignKeysHold, PTL
<1> HIDE DEF Fits
<1> QED BY <1>1, <1>2, <1>3, <1>4, PTL DEF Spec, ImplementsManifests, Manifest!ManifestCatalogSpec
=============================================================================
