---------------------------- MODULE BlobCatalog ----------------------------
(***************************************************************************)
(* What the blob API promises a client: a catalogue of blobs that only     *)
(* grows, in which every call takes effect at one moment between its start *)
(* and its answer.  A push answered "ok" is in the catalogue from then on, *)
(* a pull answers "ok" only for what is in it and "blobUnknown" (or        *)
(* "nameUnknown") only for what is not, and never finds its bytes gone.    *)
(***************************************************************************)
CONSTANTS Client, BlobKey, NoKey

VARIABLES
    catalog,   \* the keys that can be pulled
    call       \* the call each client has made

CatalogVars == <<catalog, call>>

NoCall == [kind |-> "none", key |-> NoKey, answer |-> "none"]

CatalogInit == catalog = {} /\ call = [c \in Client |-> NoCall]

Pending(c) == call[c].kind # "none" /\ call[c].answer = "none"

Set(c, kind, k, answer) ==
    call' = [call EXCEPT ![c] = [kind |-> kind, key |-> k, answer |-> answer]]

(* A call may be answered as soon as it is made. *)
Make(c, kind, k) ==
    /\ ~Pending(c)
    /\ \E a \in {"none", "nameUnknown", "failed"} :
          /\ a = "nameUnknown" => k \notin catalog
          /\ Set(c, kind, k, a)
    /\ UNCHANGED catalog

(* A mount that was carried out may be answered "failed" all the same, *)
Push(c) ==
    /\ Pending(c) /\ call[c].kind \in {"push", "mount"}
    /\ catalog' = catalog \cup {call[c].key}
    /\ \E a \in {"ok", "failed"} :
          /\ a = "failed" => call[c].kind = "mount"
          /\ Set(c, call[c].kind, call[c].key, a)

(* ...and become an upload session; a push that fails leaves no trace. *)
PushFails(c) ==
    /\ Pending(c) /\ call[c].kind \in {"push", "mount"}
    /\ \E a \in {"failed", "uploadStarted", "nameUnknown"} :
          /\ a = "nameUnknown" => call[c].key \notin catalog
          /\ a = "uploadStarted" => call[c].kind = "mount"
          /\ Set(c, call[c].kind, call[c].key, a)
    /\ UNCHANGED catalog

Pull(c) ==
    /\ Pending(c) /\ call[c].kind = "pull"
    /\ \E a \in {"ok", "blobUnknown", "failed"} :
          /\ a = "ok" => call[c].key \in catalog
          /\ a = "blobUnknown" => call[c].key \notin catalog
          /\ Set(c, "pull", call[c].key, a)
    /\ UNCHANGED catalog

(* A call that neither pushes nor pulls leaves no trace here. *)
Forget(c) == ~Pending(c) /\ call' = [call EXCEPT ![c] = NoCall] /\ UNCHANGED catalog

(* The server stops: no pending call is ever answered. *)
Restart == call' = [c \in Client |-> NoCall] /\ UNCHANGED catalog

CatalogNext ==
    \/ \E c \in Client :
          \/ \E kind \in {"push", "mount", "pull"}, k \in BlobKey : Make(c, kind, k)
          \/ Push(c) \/ PushFails(c) \/ Pull(c) \/ Forget(c)
    \/ Restart

CatalogSpec == CatalogInit /\ [][CatalogNext]_CatalogVars
=============================================================================
