-------------------------- MODULE ManifestService --------------------------
(***************************************************************************)
(* The manifest service (internal/manifest) and the referrer service       *)
(* (internal/referrer), in the style of BlobService: request slots, one    *)
(* action per call of a store.  A manifest's bytes live in the same blob   *)
(* store, under the same paths, as the blobs of its namespace.             *)
(***************************************************************************)
EXTENDS Metastore, BlobStore

CONSTANTS
    ManifestRequest,   \* request slots
    ManifestOps        \* operations the clients of a run use

ASSUME ManifestServiceAssumption ==
    ManifestOps \subseteq {"PutManifest", "GetManifest", "HeadManifest",
                           "DeleteManifest", "ListReferrers"}

VARIABLE manReq   \* the request in each slot

ManifestFirstCall ==
    [op \in {"PutManifest", "GetManifest", "HeadManifest", "DeleteManifest", "ListReferrers"} |->
        CASE op = "PutManifest" -> "putBody"
          [] op \in {"GetManifest", "HeadManifest"} -> "lookup"
          [] op = "DeleteManifest" -> "remove"
          [] op = "ListReferrers" -> "list"]

ManifestPC == {"idle", "done", "putBody", "store", "lookup", "openBody", "remove",
               "deleteBody", "list"}

ManifestReply == {"none", "ok", "nameUnknown", "manifestUnknown", "error"}

ManifestRequestRecord ==
    [op : DOMAIN ManifestFirstCall \cup {"none"}, pc : ManifestPC, reply : ManifestReply,
     ns : Namespace \cup {NoNamespace}, dg : Digest \cup {NoDigest},
     mediaType : MediaType \cup {NoMediaType},
     alive : BOOLEAN]   \* the request context is not cancelled

MRequest(op, pc, reply, n, d, m) ==
    [op |-> op, pc |-> pc, reply |-> reply, ns |-> n, dg |-> d, mediaType |-> m,
     alive |-> TRUE]

NoManifestRequest == MRequest("none", "idle", "none", NoNamespace, NoDigest, NoMediaType)

ManReqTypeOK == manReq \in [ManifestRequest -> ManifestRequestRecord]

ManReqInit == manReq = [r \in ManifestRequest |-> NoManifestRequest]

-----------------------------------------------------------------------------
MAt(r, pc) == manReq[r].pc = pc
MOp(r) == manReq[r].op
MNs(r) == manReq[r].ns
MDg(r) == manReq[r].dg
MAlive(r) == manReq[r].alive

MGoto(r, pc) == manReq' = [manReq EXCEPT ![r].pc = pc]

MAnswer(r, reply) ==
    manReq' = [manReq EXCEPT ![r] =
        MRequest(MOp(r), "done", reply, MNs(r), MDg(r), NoMediaType)]

MReadOnly == UNCHANGED <<metaVars, blobVars>>

MMetaCanFail(r) == ~MAlive(r) \/ "metastore" \in Faults

MDiskCanFail == "disk" \in Faults

-----------------------------------------------------------------------------
(* A request that passes the checks of its own text; its first call is       *)
(* NamespaceExists.  GET referrers of an unknown namespace is an empty list. *)
NewManifestRequest(op, n, d, m) ==
    IF NamespaceExists(n)
    THEN MRequest(op, ManifestFirstCall[op], "none", n, d, m)
    ELSE MRequest(op, "done", IF op = "ListReferrers" THEN "ok" ELSE "nameUnknown",
                  n, d, NoMediaType)

RefusedManifestRequest(op, n, d) == MRequest(op, "done", "error", n, d, NoMediaType)

ManifestArrive(r) ==
    /\ manReq[r].pc \in {"idle", "done"}
    /\ \E op \in ManifestOps, n \in Namespace, d \in Digest,
          m \in MediaType \cup {NoMediaType} :
          /\ op = "PutManifest" <=> m # NoMediaType
          /\ \/ manReq' = [manReq EXCEPT ![r] = NewManifestRequest(op, n, d, m)]
             \/ /\ Faults \cap {"metastore", "disconnect"} # {}
                /\ manReq' = [manReq EXCEPT ![r] = RefusedManifestRequest(op, n, d)]
    /\ MReadOnly

ManifestDisconnect(r) ==
    /\ "disconnect" \in Faults
    /\ manReq[r].pc \notin {"idle", "done"}
    /\ MAlive(r)
    /\ manReq' = [manReq EXCEPT ![r].alive = FALSE]
    /\ MReadOnly

-----------------------------------------------------------------------------
(* PutManifest: the bytes first, whoever stored them, then the rows; no      *)
(* cleanup when the rows cannot be stored.                                   *)

PutBody(r) ==
    /\ MAt(r, "putBody")
    /\ \/ PutBlob(MNs(r), MDg(r)) /\ MGoto(r, "store")
       \/ Stored(MNs(r), MDg(r)) /\ MGoto(r, "store") /\ UNCHANGED blobVars
       \/ MDiskCanFail /\ MAnswer(r, "error") /\ UNCHANGED blobVars
    /\ UNCHANGED metaVars

Store(r) ==
    /\ MAt(r, "store")
    /\ MAlive(r)
    /\ StoreManifest(MNs(r), MDg(r), manReq[r].mediaType)
    /\ MAnswer(r, "ok")
    /\ UNCHANGED blobVars

StoreFails(r) ==
    /\ MAt(r, "store")
    /\ MMetaCanFail(r) \/ ~ForeignKeyHolds(MNs(r))
    /\ MAnswer(r, "error")
    /\ MReadOnly

-----------------------------------------------------------------------------
(* GetManifest and HeadManifest *)

ResolveManifest(r) ==
    /\ MAt(r, "lookup")
    /\ \/ MAlive(r) /\ ~GetManifestByDigest(MNs(r), MDg(r)) /\ MAnswer(r, "manifestUnknown")
       \/ /\ MAlive(r)
          /\ GetManifestByDigest(MNs(r), MDg(r))
          /\ IF MOp(r) = "HeadManifest" THEN MAnswer(r, "ok") ELSE MGoto(r, "openBody")
       \/ MMetaCanFail(r) /\ MAnswer(r, "error")
    /\ MReadOnly

OpenBody(r) ==
    /\ MAt(r, "openBody")
    /\ \/ MAnswer(r, IF Stored(MNs(r), MDg(r)) THEN "ok" ELSE "manifestUnknown")
       \/ MDiskCanFail /\ MAnswer(r, "error")
    /\ MReadOnly

-----------------------------------------------------------------------------
(* DeleteManifest: the rows first, then the bytes; a failure to delete the   *)
(* bytes is only logged.                                                     *)

Remove(r) ==
    /\ MAt(r, "remove")
    /\ MAlive(r)
    /\ RemoveManifest(MNs(r), MDg(r))
    /\ MGoto(r, "deleteBody")
    /\ UNCHANGED blobVars

RemoveFails(r) ==
    /\ MAt(r, "remove")
    /\ \/ MAlive(r) /\ ~GetManifestByDigest(MNs(r), MDg(r)) /\ MAnswer(r, "manifestUnknown")
       \/ MMetaCanFail(r) /\ MAnswer(r, "error")
    /\ MReadOnly

(* Mutant: a failure to delete the bytes is the answer. *)
DeleteBodyReported(r) ==
    /\ MAt(r, "deleteBody")
    /\ \/ MAlive(r) /\ DeleteBlob(MNs(r), MDg(r)) /\ MAnswer(r, "ok")
       \/ (~MAlive(r) \/ MDiskCanFail) /\ UNCHANGED blobVars /\ MAnswer(r, "error")
    /\ UNCHANGED metaVars

DeleteBody(r) ==
    /\ MAt(r, "deleteBody")
    /\ \/ MAlive(r) /\ DeleteBlob(MNs(r), MDg(r))
       \/ (~MAlive(r) \/ MDiskCanFail) /\ UNCHANGED blobVars
    /\ MAnswer(r, "ok")
    /\ UNCHANGED metaVars

-----------------------------------------------------------------------------
List(r) ==
    /\ MAt(r, "list")
    /\ \/ MAlive(r) /\ MAnswer(r, "ok")
       \/ MMetaCanFail(r) /\ MAnswer(r, "error")
    /\ MReadOnly

ManifestServe(r) ==
    \/ PutBody(r) \/ Store(r) \/ StoreFails(r)
    \/ ResolveManifest(r) \/ OpenBody(r)
    \/ Remove(r) \/ RemoveFails(r) \/ DeleteBody(r)
    \/ List(r)

ManifestServiceNext ==
    \E r \in ManifestRequest : ManifestArrive(r) \/ ManifestDisconnect(r) \/ ManifestServe(r)
=============================================================================
