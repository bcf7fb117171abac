------------------------------ MODULE Registry ------------------------------
(***************************************************************************)
(* The registry: the blob, manifest, referrer and namespace services       *)
(* (cmd/omnistash/main.go wires them) over one metadata store and one blob *)
(* store, serving concurrent requests of any clients, with client          *)
(* disconnects, failures of either store, and crashes.                     *)
(***************************************************************************)
EXTENDS BlobService, ManifestService

CONSTANT NamespaceOps   \* of {"Create", "Delete"}: what the clients of a run use

ASSUME RegistryAssumption == NamespaceOps \subseteq {"Create", "Delete"}

vars == <<metaVars, blobVars, blobReq, manReq>>

TypeOK == MetaTypeOK /\ BlobTypeOK /\ BlobReqTypeOK /\ ManReqTypeOK

Init == MetaInit /\ BlobInit /\ BlobReqInit /\ ManReqInit

(* The namespace service: one transaction a request. A request that fails      *)
(* changes nothing.                                                            *)
CreateNamespaceRequest(n) ==
    /\ "Create" \in NamespaceOps
    /\ CreateNamespace(n)
    /\ UNCHANGED <<blobVars, blobReq, manReq>>

DeleteNamespaceRequest(n) ==
    /\ "Delete" \in NamespaceOps
    /\ DeleteNamespace(n)
    /\ UNCHANGED <<blobVars, blobReq, manReq>>

(* The process dies and is started again: tables and files stay as they are. *)
Crash ==
    /\ "crash" \in Faults
    /\ blobReq' = [r \in BlobRequest |-> NoRequest]
    /\ manReq' = [r \in ManifestRequest |-> NoManifestRequest]
    /\ UNCHANGED <<metaVars, blobVars>>

Next ==
    \/ BlobServiceNext /\ UNCHANGED manReq
    \/ ManifestServiceNext /\ UNCHANGED blobReq
    \/ \E n \in Namespace : CreateNamespaceRequest(n) \/ DeleteNamespaceRequest(n)
    \/ Crash

Spec == Init /\ [][Next]_vars

-----------------------------------------------------------------------------
(* A row of any table belongs to a namespace that exists, whatever deletions of *)
(* namespaces run between a request's NamespaceExists and its transaction.      *)
ForeignKeys == \A n \in Namespace : Referenced(n) => NamespaceExists(n)

(* A blob the metadata store answers for has its bytes in the blob store: bytes *)
(* are committed before the row, and nothing takes them away from under it.     *)
RegisteredHasBytes ==
    \A n \in Namespace, d \in Digest : StatNamespaceBlob(n, d) => Stored(n, d)

(* The same of manifests, across puts and deletes of one digest that overlap:   *)
(* DeleteManifest removes the bytes long after its transaction.                 *)
ActiveManifestHasBytes ==
    \A n \in Namespace, d \in Digest : GetManifestByDigest(n, d) => Stored(n, d)

(* The referrers index lists every readable manifest under its subject, and     *)
(* nothing that was never put: both tables change in one transaction.           *)
ReferrersIndexed ==
    \A n \in Namespace, d \in Digest :
        /\ GetManifestByDigest(n, d) /\ Subject[d] # NoDigest
              => d \in ListReferrers(n, Subject[d])
        /\ \A s \in Digest : d \in ListReferrers(n, s)
              => s = Subject[d] /\ manifests[<<n, d>>] # NoManifest

(* A manifest row never changes but by deletion, and a deleted one stays        *)
(* deleted: overlapping puts cannot replace a media type or undo a delete.      *)
RowsFinal ==
    \A n \in Namespace, d \in Digest :
        manifests[<<n, d>>] # NoManifest =>
            /\ manifests'[<<n, d>>].mediaType = manifests[<<n, d>>].mediaType
            /\ manifests'[<<n, d>>].lifecycle
                  \in {manifests[<<n, d>>].lifecycle, "pending_deletion"}
ManifestRowsFinal == [][RowsFinal]_vars

(* When no blob request is in progress, every file has a row: a failed upload   *)
(* leaves no bytes behind, whichever of several uploads of a digest made them.  *)
AtRest == \A r \in BlobRequest : blobReq[r].pc \in {"idle", "done"}
NoOrphanAtRest ==
    AtRest => \A n \in Namespace, d \in Digest : Stored(n, d) => StatNamespaceBlob(n, d)

(* "InsertManifest then GetManifestByDigest returns row" (the metastore's       *)
(* contract test): a put that is answered "ok" can be read back.                *)
PutManifestIsReadable ==
    [][\A r \in ManifestRequest : MAt(r, "store") /\ manReq'[r].reply = "ok"
          => GetManifestByDigest(MNs(r), MDg(r))']_vars

-----------------------------------------------------------------------------
(* How the step of request r may end the session u: as its client asked; by a   *)
(* commit of all the bytes there are; or because the bytes r itself measured, a *)
(* final chunk of its own included, are not those of its digest.                *)
MayEnd(r, u) ==
    LET data == uploads[u].data
        measured == blobReq[r].offset
    IN  /\ Up(r) = u /\ Ns(r) = uploads[u].ns /\ blobReq'[r] # blobReq[r]
        /\ \/ Op(r) = "Cancel"
           \/ /\ Op(r) = "Commit" /\ At(r, "finalize")
              /\ data = Content[Dg(r)] /\ Stored(Ns(r), Dg(r))'
           \/ /\ Op(r) = "Commit" /\ At(r, "discard")
              /\ measured <= Len(data)
              /\ SubSeq(data, 1, measured) # Content[Dg(r)]

(* An upload session survives the requests that overlap on it: a commit that    *)
(* another request's chunk overtook between its calls (the offset, the final    *)
(* chunk, the commit, the cancellation of handleFinalizeError) fails and leaves *)
(* the session to the others, and only a commit whose own bytes were wrong      *)
(* takes it away.                                                               *)
SessionsKept ==
    [][\A u \in Upload :
          uploads[u].state = "open" /\ uploads'[u].state # "open"
             => \E r \in BlobRequest : MayEnd(r, u)]_vars

-----------------------------------------------------------------------------
(* The blob API implements the catalogue: a blob is in it from the commit of    *)
(* the transaction that registers it.                                           *)
PushOps == {"Monolithic", "Commit", "Mount"}
PullOps == {"Head", "Get", "Range"}

Kind(op) ==
    CASE op = "Mount"     -> "mount"
      [] op \in PullOps   -> "pull"
      [] OTHER            -> "push"

AbstractAnswer(q) ==
    IF q.reply \in {"none", "ok", "nameUnknown", "blobUnknown", "truncated"} THEN q.reply
    ELSE IF q.reply = "accepted" THEN "uploadStarted" ELSE "failed"

NoKey == <<NoNamespace, NoDigest>>

AbstractCall(q) ==
    IF q.op \in PushOps \cup PullOps
    THEN [kind |-> Kind(q.op),
          key |-> <<q.ns, q.dg>>, answer |-> AbstractAnswer(q)]
    ELSE [kind |-> "none", key |-> NoKey, answer |-> "none"]

Registered == {k \in Key : namespaceBlobs[k] = "active"}

Catalog == INSTANCE BlobCatalog WITH
    Client <- BlobRequest,
    BlobKey <- Key,
    NoKey <- NoKey,
    catalog <- Registered,
    call <- [r \in BlobRequest |-> AbstractCall(blobReq[r])]

ImplementsCatalog == Catalog!CatalogSpec

(* The manifest API implements the catalogue of manifests: a put takes effect    *)
(* with its transaction and so does a delete, whose answer comes only after the  *)
(* bytes are dealt with; a get takes effect where it finds the row, long before  *)
(* it opens the bytes, or where it finds that they are gone.                     *)
ManifestKind(op) ==
    CASE op = "PutManifest"    -> "put"
      [] op = "DeleteManifest" -> "delete"
      [] OTHER                 -> "get"

AbstractManifestCall(q) ==
    IF q.op \in {"PutManifest", "GetManifest", "HeadManifest", "DeleteManifest"}
    THEN [kind |-> ManifestKind(q.op), key |-> <<q.ns, q.dg>>, type |-> q.mediaType,
          effect |-> q.pc \in {"openBody", "deleteBody"}, answer |-> q.reply]
    ELSE [kind |-> "none", key |-> NoKey, type |-> NoMediaType,
          effect |-> FALSE, answer |-> "none"]

Manifest == INSTANCE ManifestCatalog WITH
    Client <- ManifestRequest,
    ManifestKey <- Key,
    NoKey <- NoKey,
    Type <- MediaType,
    NoType <- NoMediaType,
    shelf <- manifests,
    call <- [r \in ManifestRequest |-> AbstractManifestCall(manReq[r])]

ImplementsManifests == Manifest!ManifestCatalogSpec
=============================================================================
