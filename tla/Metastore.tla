----------------------------- MODULE Metastore -----------------------------
(***************************************************************************)
(* The SQLite metadata store (internal/metastore/sqlite): its tables, and  *)
(* the statements that services run inside Atomic.  The write connection   *)
(* is a pool of one, so a transaction is one step of the system: an action *)
(* below is enabled when the transaction commits, and a transaction that   *)
(* returns an error leaves metaVars unchanged (rollback).                  *)
(*                                                                         *)
(* Sizes, annotations, timestamps and the artifact type are functions of   *)
(* the digest that no property reads, and are left out.                    *)
(***************************************************************************)
EXTENDS SystemConstants

CONSTANTS
    MediaType,   \* media types a client sends as the Content-Type of a manifest
    NoMediaType, \* "no row" of a media type column
    Subject      \* the subject a digest's content names, read as a manifest

ASSUME MetastoreAssumption ==
    /\ NoMediaType \notin MediaType
    /\ Subject \in [Digest -> Digest \cup {NoDigest}]

VARIABLES
    namespaces,      \* rows of table namespace
    namespaceBlobs,  \* lifecycle of the row of a key in table namespace_blobs
    manifests,       \* row of a key in table manifests
    referrers        \* row of a key (namespace, referrer_digest) in manifest_referrers

metaVars == <<namespaces, namespaceBlobs, manifests, referrers>>

(* "absent" is a key without a row. *)
Lifecycle == {"absent", "active", "pending_deletion"}

ManifestRow == [lifecycle : Lifecycle, mediaType : MediaType \cup {NoMediaType}]
NoManifest  == [lifecycle |-> "absent", mediaType |-> NoMediaType]

ReferrerRow == [subject : Digest \cup {NoDigest}, mediaType : MediaType \cup {NoMediaType}]
NoReferrer  == [subject |-> NoDigest, mediaType |-> NoMediaType]

MetaTypeOK ==
    /\ namespaces \subseteq Namespace
    /\ namespaceBlobs \in [Key -> Lifecycle]
    /\ manifests \in [Key -> ManifestRow]
    /\ referrers \in [Key -> ReferrerRow]

MetaInit ==
    /\ namespaces = {}
    /\ namespaceBlobs = [k \in Key |-> "absent"]
    /\ manifests = [k \in Key |-> NoManifest]
    /\ referrers = [k \in Key |-> NoReferrer]

-----------------------------------------------------------------------------
(* Queries *)

NamespaceExists(n) == n \in namespaces

(* GetNamespaceBlob and StatNamespaceBlob run the same query. *)
StatNamespaceBlob(n, d) == namespaceBlobs[<<n, d>>] = "active"

GetManifestByDigest(n, d) == manifests[<<n, d>>].lifecycle = "active"

ListReferrers(n, subject) == {d \in Digest : referrers[<<n, d>>].subject = subject}

(* A row of namespace n exists in a table whose foreign key is namespace(name). *)
Referenced(n) ==
    \E d \in Digest : \/ namespaceBlobs[<<n, d>>] # "absent"
                      \/ manifests[<<n, d>>] # NoManifest
                      \/ referrers[<<n, d>>] # NoReferrer

-----------------------------------------------------------------------------
(* Transactions that commit *)

CreateNamespace(n) ==
    /\ ~NamespaceExists(n)
    /\ namespaces' = namespaces \cup {n}
    /\ UNCHANGED <<namespaceBlobs, manifests, referrers>>

(* Mutant: the foreign keys are declared but not enforced on this connection. *)
CanDeleteUnenforced(n) == NamespaceExists(n)

CanDeleteNamespace(n) == NamespaceExists(n) /\ ~Referenced(n)

DeleteNamespace(n) ==
    /\ CanDeleteNamespace(n)
    /\ namespaces' = namespaces \ {n}
    /\ UNCHANGED <<namespaceBlobs, manifests, referrers>>

(* Mutant: as above, for an insertion. *)
ForeignKeyUnenforced(n) == n \in Namespace

(* The foreign key of a new row; OR IGNORE does not suppress its violation. *)
ForeignKeyHolds(n) == NamespaceExists(n)

(* Resurrect a row pending deletion, insert a missing one, ignore an active one. *)
InsertNamespaceBlob(n, d) ==
    /\ ForeignKeyHolds(n)
    /\ namespaceBlobs' = [namespaceBlobs EXCEPT ![<<n, d>>] = "active"]
    /\ UNCHANGED <<namespaces, manifests, referrers>>

(* Mutant: a put undoes a deletion, as InsertNamespaceBlob does. *)
ResurrectedManifest(n, d, mediaType) ==
    IF manifests[<<n, d>>] = NoManifest
    THEN [lifecycle |-> "active", mediaType |-> mediaType]
    ELSE [manifests[<<n, d>>] EXCEPT !.lifecycle = "active"]

(* Mutant: INSERT OR REPLACE. *)
ReplacedManifest(n, d, mediaType) == [lifecycle |-> "active", mediaType |-> mediaType]

(* INSERT OR IGNORE: an existing row, whatever its lifecycle, stays as it is. *)
InsertedManifest(n, d, mediaType) ==
    IF manifests[<<n, d>>] = NoManifest
    THEN [lifecycle |-> "active", mediaType |-> mediaType]
    ELSE manifests[<<n, d>>]

(* Mutant: the two digest parameters of the statement bound in the wrong order. *)
SwappedReferrer(n, d, mediaType) ==
    IF Subject[d] = NoDigest
    THEN referrers[<<n, d>>]
    ELSE [subject |-> d, mediaType |-> mediaType]

UpsertedReferrer(n, d, mediaType) ==
    IF Subject[d] = NoDigest
    THEN referrers[<<n, d>>]
    ELSE [subject |-> Subject[d], mediaType |-> mediaType]

(* storeManifest: InsertManifest, then UpsertReferrer when there is a subject. *)
StoreManifest(n, d, mediaType) ==
    /\ ForeignKeyHolds(n)
    /\ manifests' = [manifests EXCEPT ![<<n, d>>] = InsertedManifest(n, d, mediaType)]
    /\ referrers' = [referrers EXCEPT ![<<n, d>>] = UpsertedReferrer(n, d, mediaType)]
    /\ UNCHANGED <<namespaces, namespaceBlobs>>

Tombstone(row) == [row EXCEPT !.lifecycle = "pending_deletion"]

(* DeleteManifestByDigest, which fails when no active row matches, then      *)
(* DeleteReferrer.                                                           *)
RemoveManifest(n, d) ==
    /\ GetManifestByDigest(n, d)
    /\ manifests' = [manifests EXCEPT ![<<n, d>>] = Tombstone(manifests[<<n, d>>])]
    /\ referrers' = [referrers EXCEPT ![<<n, d>>] = NoReferrer]
    /\ UNCHANGED <<namespaces, namespaceBlobs>>

-----------------------------------------------------------------------------
(* The store on its own, driven by arbitrary callers *)

MetaNext ==
    \/ \E n \in Namespace : CreateNamespace(n) \/ DeleteNamespace(n)
    \/ \E n \in Namespace, d \in Digest :
          \/ InsertNamespaceBlob(n, d)
          \/ \E m \in MediaType : StoreManifest(n, d, m)
          \/ RemoveManifest(n, d)
=============================================================================
