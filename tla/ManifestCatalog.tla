-------------------------- MODULE ManifestCatalog --------------------------
(***************************************************************************)
(* What the manifest API promises a client: manifests that are put, once,  *)
(* and withdrawn, for good; every call takes effect at one moment between  *)
(* its start and its answer.  The first put of a manifest decides its      *)
(* media type, and later ones change nothing; of the deletes of a manifest *)
(* one is answered "ok"; a get answers "ok" only for a manifest that was   *)
(* listed during the call, and "manifestUnknown" only if it is not.        *)
(***************************************************************************)
CONSTANTS Client, ManifestKey, NoKey, Type, NoType

VARIABLES
    shelf,   \* the entry of each key
    call     \* the call each client has made

ManifestVars == <<shelf, call>>

(* A manifest that was never put, one that can be read, one that was deleted. *)
NoEntry == [lifecycle |-> "absent", mediaType |-> NoType]
Entry(t) == [lifecycle |-> "active", mediaType |-> t]
Gone(entry) == [entry EXCEPT !.lifecycle = "pending_deletion"]

NoManifestCall ==
    [kind |-> "none", key |-> NoKey, type |-> NoType, effect |-> FALSE, answer |-> "none"]

ManifestCatalogInit ==
    /\ shelf = [k \in ManifestKey |-> NoEntry]
    /\ call = [c \in Client |-> NoManifestCall]

Waiting(c) == call[c].kind # "none" /\ call[c].answer = "none"
Calls(c, kind) == Waiting(c) /\ call[c].kind = kind

Listed(c) == shelf[call[c].key].lifecycle = "active"

Reply(c, a) ==
    call' = [call EXCEPT ![c] =
        [kind |-> @.kind, key |-> @.key, type |-> NoType, effect |-> FALSE, answer |-> a]]

-----------------------------------------------------------------------------
(* A call may be answered as soon as it is made. *)
NewCall(q) ==
    /\ q.kind \in {"put", "get", "delete"}
    /\ q.answer \in {"none", "nameUnknown", "error"}
    /\ q.key \in ManifestKey
    /\ q.type \in IF q.kind = "put" /\ q.answer = "none" THEN Type ELSE {NoType}
    /\ q.effect = FALSE

Make(c) ==
    /\ ~Waiting(c)
    /\ UNCHANGED shelf
    /\ NewCall(call'[c])
    /\ call'[c].answer = "nameUnknown" => shelf[call'[c].key] = NoEntry
    /\ call' = [call EXCEPT ![c] = call'[c]]

(* A put that is answered "ok" lists what is new, and nothing else. *)
Put(c) ==
    /\ Calls(c, "put")
    /\ shelf' = [shelf EXCEPT ![call[c].key] = IF @ = NoEntry THEN Entry(call[c].type) ELSE @]
    /\ Reply(c, "ok")

PutFails(c) == Calls(c, "put") /\ Reply(c, "error") /\ UNCHANGED shelf

(* The moment of a get that finds the manifest... *)
See(c) ==
    /\ Calls(c, "get") /\ Listed(c)
    /\ call' = [call EXCEPT ![c].effect = TRUE]
    /\ UNCHANGED shelf

(* ...and its answer. *)
Get(c) ==
    /\ Calls(c, "get")
    /\ \E a \in {"ok", "manifestUnknown", "error"} :
          /\ a = "ok" => call[c].effect \/ Listed(c)
          /\ a = "manifestUnknown" => ~Listed(c)
          /\ Reply(c, a)
    /\ UNCHANGED shelf

(* The moment of a delete... *)
Withdraw(c) ==
    /\ Calls(c, "delete") /\ ~call[c].effect /\ Listed(c)
    /\ shelf' = [shelf EXCEPT ![call[c].key] = Gone(@)]
    /\ call' = [call EXCEPT ![c].effect = TRUE]

(* ...and its answer, which tells whether it came. *)
Delete(c) ==
    /\ Calls(c, "delete")
    /\ \E a \in {"ok", "manifestUnknown", "error"} :
          /\ a = "ok" <=> call[c].effect
          /\ a = "manifestUnknown" => ~Listed(c)
          /\ Reply(c, a)
    /\ UNCHANGED shelf

(* A call that is about no manifest leaves no trace here. *)
Forget(c) == ~Waiting(c) /\ call' = [call EXCEPT ![c] = NoManifestCall] /\ UNCHANGED shelf

(* The server stops: no call is ever answered. *)
Restart == call' = [c \in Client |-> NoManifestCall] /\ UNCHANGED shelf

ManifestCatalogNext ==
    \/ \E c \in Client :
          \/ Make(c) \/ Put(c) \/ PutFails(c) \/ See(c) \/ Get(c)
          \/ Withdraw(c) \/ Delete(c) \/ Forget(c)
    \/ Restart

ManifestCatalogSpec == ManifestCatalogInit /\ [][ManifestCatalogNext]_ManifestVars
=============================================================================
