---------------------------- MODULE BlobDeletion ----------------------------
(***************************************************************************)
(* What deletion promises, without workers, channels or locks: a call      *)
(* deals with each of its paths once, at a moment when the vacuum process  *)
(* runs, and its answer says what happened to them.                        *)
(***************************************************************************)
CONSTANTS Client, Path

VARIABLES
    present,   \* the paths at which there is a file
    running,   \* whether the vacuum process runs
    calls      \* the call of each client

DeletionVars == <<present, running, calls>>

Kind == {"none", "one", "many", "sweep"}

(* The answer to a call that has dealt with all its paths. *)
Verdict(kind, removed, failed) ==
    CASE kind = "one" /\ ~failed   -> IF removed THEN "ok" ELSE "unknown"
      [] kind = "many" /\ failed   -> IF removed THEN "partial" ELSE "failed"
      [] kind = "many" /\ ~failed  -> "ok"
      [] kind = "sweep" /\ ~failed -> "ok"
      [] OTHER -> "failed"

Call(kind, left, removed, failed, verdict) ==
    [kind |-> kind, left |-> left, removed |-> removed, failed |-> failed, verdict |-> verdict]

DeletionInit ==
    /\ present = {}
    /\ running = FALSE
    /\ calls = [c \in Client |-> Call("none", {}, FALSE, FALSE, "none")]

Open(c) == calls[c].kind # "none" /\ calls[c].verdict = "none"

Become(c, call) == calls' = [calls EXCEPT ![c] = call]

(* A call may fail as soon as it is made. *)
Make(c) ==
    /\ ~Open(c)
    /\ UNCHANGED <<present, running>>
    /\ \E kind \in Kind \ {"none"}, paths \in SUBSET Path, failed \in BOOLEAN,
          v \in {"none", "failed"} : Become(c, Call(kind, paths, FALSE, failed, v))

(* A sweep finds more paths to remove, perhaps not all there are. *)
Find(c) ==
    /\ Open(c) /\ calls[c].kind = "sweep"
    /\ UNCHANGED <<present, running>>
    /\ \E paths \in SUBSET Path, failed \in BOOLEAN :
          Become(c, [calls[c] EXCEPT !.left = paths, !.failed = @ \/ failed])

(* A path is dealt with: removed, found missing, or not removable. *)
Deal(c, p) ==
    /\ Open(c) /\ p \in calls[c].left
    /\ running
    /\ \/ p \in present /\ present' = present \ {p} /\ Become(c, [calls[c] EXCEPT
              !.left = @ \ {p}, !.removed = TRUE])
       \/ p \notin present /\ UNCHANGED present
              /\ Become(c, [calls[c] EXCEPT !.left = @ \ {p}])
       \/ UNCHANGED present /\ Become(c, [calls[c] EXCEPT !.left = @ \ {p}, !.failed = TRUE])
    /\ UNCHANGED running

(* None of the paths is there. *)
MissAll(c) ==
    /\ Open(c) /\ running
    /\ calls[c].left \cap present = {}
    /\ \E v \in {"none", Verdict(calls[c].kind, calls[c].removed, calls[c].failed)} :
          Become(c, [calls[c] EXCEPT !.left = {}, !.verdict = v])
    /\ UNCHANGED <<present, running>>

(* The paths are given up before any of them was dealt with. *)
GiveUp(c) ==
    /\ Open(c)
    /\ calls[c].kind = "sweep" \/ ~calls[c].removed
    /\ \E v \in {"none", "failed"} :
          Become(c, [calls[c] EXCEPT !.left = {}, !.failed = TRUE, !.verdict = v])
    /\ UNCHANGED <<present, running>>

Finish(c) ==
    /\ Open(c) /\ calls[c].left = {}
    /\ Become(c, [calls[c] EXCEPT
          !.verdict = Verdict(calls[c].kind, calls[c].removed, calls[c].failed)])
    /\ UNCHANGED <<present, running>>

(* Somebody else writes or completes a file. *)
Appear(p) == present' = present \cup {p} /\ UNCHANGED <<running, calls>>

Switch == running' = ~running /\ UNCHANGED <<present, calls>>

DeletionNext ==
    \/ \E c \in Client :
          \/ Make(c) \/ Find(c)
          \/ \E p \in Path : Deal(c, p)
          \/ MissAll(c) \/ GiveUp(c) \/ Finish(c)
    \/ \E p \in Path : Appear(p)
    \/ Switch

DeletionSpec == DeletionInit /\ [][DeletionNext]_DeletionVars
=============================================================================
