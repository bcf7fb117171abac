------------------------------- MODULE Server -------------------------------
(***************************************************************************)
(* The life of the process (cmd/omnistash/main.go, run): it serves until a *)
(* signal or an error of the listener, lets the requests in progress       *)
(* finish, though not for ever, closes the metadata store and exits.  The  *)
(* requests are those of Routes and Ranges.                                *)
(***************************************************************************)
EXTENDS Routes, Ranges

CONSTANTS
    Client,     \* each with one connection
    Requests    \* what each client may ask: [op, name, arg, header, size, length]

(* A blob has at most MaxInt bytes and a session fewer, which int64 file sizes   *)
(* see to; the numbers in a header may be larger.                                *)
ASSUME ServerAssumption ==
    \A c \in Client : \A req \in Requests[c] :
        /\ req.op \in Operation
        /\ req.name \in Seq(STRING) /\ req.name # <<>>
        /\ \A i \in DOMAIN req.name : req.name[i] # NoSegment
        /\ req.arg \in STRING /\ req.arg # NoSegment
        /\ req.header.kind \in {"none", "malformed", "range"}
        /\ req.header.kind = "range" => req.header.first \in Nat /\ req.header.last \in Nat
        /\ req.size \in Nat /\ req.length \in Nat
        /\ IF req.op = "PatchBlobUpload" THEN req.size < MaxInt ELSE req.size <= MaxInt

VARIABLES
    phase,      \* where run() is
    signals,    \* number of signals in signalChan
    listener,   \* what ListenAndServe does, and has sent to serveErrChan
    deadline,   \* the context of Shutdown
    store,      \* the metadata store
    exit,       \* the status main() will exit with
    conn        \* each client's request and how far it is

runVars == <<phase, signals, listener, deadline, store, exit>>
vars == <<runVars, conn>>

NoRequest == [op |-> "none"]

TypeOK ==
    /\ phase \in {"serving", "draining", "drained", "returning", "exiting", "exited"}
    /\ signals \in 0 .. 1
    /\ listener \in {"open", "closed", "failed"}
    /\ deadline \in {"none", "running", "passed"}
    /\ store \in {"open", "closed"}
    /\ exit \in {0, 1}
    /\ \A c \in Client :
          /\ conn[c].req \in Requests[c] \cup {NoRequest}
          /\ conn[c].state \in {"idle", "serving", "answered", "failed", "cut"}

Plain(status) == Answer(status, 0, 0)

Quiet(req, state) == [req |-> req, state |-> state, to |-> Refused, answer |-> Plain(0)]

Init ==
    /\ phase = "serving"
    /\ signals = 0
    /\ listener = "open"
    /\ deadline = "none"
    /\ store = "open"
    /\ exit = 0
    /\ conn = [c \in Client |-> Quiet(NoRequest, "idle")]

Running == phase # "exited"

Active(c) == conn[c].state = "serving"

-----------------------------------------------------------------------------
(* Requests.  They leave nothing behind here, so each client asks once.      *)

(* The server accepts while the listener is open, and finds the handler.     *)
Accept(c, req) ==
    /\ Running /\ listener = "open"
    /\ conn[c].state = "idle"
    /\ conn' = [conn EXCEPT ![c] =
          [Quiet(req, "serving") EXCEPT
              !.to = Route(MethodOf(req.op), PathOf(req.op, req.name, req.arg))]]
    /\ UNCHANGED runVars

(* The answer of a handler whose calls succeed, or that refuses the request itself. *)
Result(handler, req) ==
    CASE handler = "GetBlob" -> RangeAnswer(req.header, req.size)
      [] handler = "PatchBlobUpload" -> PatchAnswer(req.header, req.size, req.length)
      [] handler = "GetBlobUpload" -> StatusAnswer(req.size)
      [] handler \in {"PostBlobUploads", "DeleteManifest"} -> Plain(202)
      [] handler \in {"PutBlobUpload", "PutManifest", "CreateNamespace"} -> Plain(201)
      [] handler = "DeleteBlobUpload" -> Plain(204)
      [] handler = "none" -> Plain(404)
      [] OTHER -> Plain(200)

(* The handler calls the stores and answers; with a closed metadata store it    *)
(* fails (500).  A request nobody handles, a ping, and a chunk whose header is  *)
(* refused need no store.                                                       *)
Respond(c) ==
    /\ Running /\ Active(c)
    /\ LET handler == conn[c].to.handler
           result == Result(handler, conn[c].req)
           fails == /\ store = "closed"
                    /\ handler \notin {"none", "BaseCheck"} /\ result.status # 400
       IN  conn' = [conn EXCEPT
              ![c].state = IF fails THEN "failed" ELSE "answered",
              ![c].answer = IF fails THEN Plain(500) ELSE result]
    /\ UNCHANGED runVars

-----------------------------------------------------------------------------
(* run() *)

(* Mutant: signals queue up. *)
SignalQueued ==
    /\ Running
    /\ signals' = signals + 1
    /\ UNCHANGED <<phase, listener, deadline, store, exit, conn>>

(* SIGINT or SIGTERM. The channel holds one; another is dropped. *)
Signal ==
    /\ Running
    /\ signals' = 1
    /\ UNCHANGED <<phase, listener, deadline, store, exit, conn>>

(* The address is taken, or accepting connections fails. *)
ListenFails ==
    /\ Running /\ listener = "open"
    /\ listener' = "failed"
    /\ UNCHANGED <<phase, signals, deadline, store, exit, conn>>

(* Mutant: Shutdown is called with a context that has no deadline. *)
ShutdownPatiently ==
    /\ phase = "serving" /\ signals > 0
    /\ phase' = "draining"
    /\ signals' = signals - 1
    /\ listener' = IF listener = "open" THEN "closed" ELSE listener
    /\ UNCHANGED <<deadline, store, exit, conn>>

(* The signal is taken: Shutdown closes the listener and waits. *)
Shutdown ==
    /\ phase = "serving" /\ signals > 0
    /\ phase' = "draining"
    /\ signals' = signals - 1
    /\ listener' = IF listener = "open" THEN "closed" ELSE listener
    /\ deadline' = "running"
    /\ UNCHANGED <<store, exit, conn>>

(* The error of the listener is taken: run() returns it at once. *)
ServeError ==
    /\ phase = "serving" /\ listener = "failed"
    /\ phase' = "returning"
    /\ exit' = 1
    /\ UNCHANGED <<signals, listener, deadline, store, conn>>

(* Thirty seconds pass. *)
DeadlinePasses ==
    /\ deadline = "running"
    /\ deadline' = "passed"
    /\ UNCHANGED <<phase, signals, listener, store, exit, conn>>

(* Mutant: Shutdown does not wait for the requests in progress, as Close does. *)
DrainedAtOnce ==
    /\ phase = "draining"
    /\ phase' = "drained"
    /\ UNCHANGED <<signals, listener, deadline, store, exit, conn>>

(* No connection is active any more: Shutdown returns nil. *)
Drained ==
    /\ phase = "draining"
    /\ \A c \in Client : ~Active(c)
    /\ phase' = "drained"
    /\ UNCHANGED <<signals, listener, deadline, store, exit, conn>>

(* Mutant: Shutdown is tried again until it succeeds. *)
DrainAgain ==
    /\ phase = "draining" /\ deadline = "passed"
    /\ deadline' = "running"
    /\ UNCHANGED <<phase, signals, listener, store, exit, conn>>

DrainTimeout ==
    /\ phase = "draining" /\ deadline = "passed"
    /\ phase' = "returning"
    /\ exit' = 1
    /\ UNCHANGED <<signals, listener, deadline, store, conn>>

(* The last word of ListenAndServe, once it has returned: ErrServerClosed, or the *)
(* error it had before.                                                           *)
ServeResult ==
    /\ phase = "drained" /\ listener # "open"
    /\ phase' = "returning"
    /\ exit' = IF listener = "failed" THEN 1 ELSE 0
    /\ UNCHANGED <<signals, listener, deadline, store, conn>>

(* The deferred Close, whoever still runs. *)
CloseStore ==
    /\ phase = "returning"
    /\ phase' = "exiting"
    /\ store' = "closed"
    /\ UNCHANGED <<signals, listener, deadline, exit, conn>>

(* The process ends, and cuts what is in progress. *)
Exit ==
    /\ phase = "exiting"
    /\ phase' = "exited"
    /\ listener' = "closed"
    /\ conn' = [c \in Client |-> IF Active(c) THEN [conn[c] EXCEPT !.state = "cut"] ELSE conn[c]]
    /\ UNCHANGED <<signals, deadline, store, exit>>

RunNext ==
    Shutdown \/ ServeError \/ Drained \/ DrainTimeout \/ ServeResult \/ CloseStore \/ Exit

Next ==
    \/ RunNext \/ DeadlinePasses
    \/ Signal \/ ListenFails
    \/ \E c \in Client : Respond(c) \/ \E req \in Requests[c] : Accept(c, req)

(* The goroutine of run() goes on, and time passes. Handlers may take for ever,  *)
(* and nobody has to send a request or a signal.                                *)
Spec == Init /\ [][Next]_vars /\ WF_vars(RunNext) /\ WF_vars(DeadlinePasses)

-----------------------------------------------------------------------------
(* Whatever components a repository name has, the request reaches the handler    *)
(* its documentation names, with that name and that digest, reference or id;     *)
(* Shadowed says where the program does something else.                          *)
RoutedRight ==
    \A c \in Client : conn[c].req # NoRequest =>
        LET req == conn[c].req
        IN  Shadowed(req.op, req.name) \/ conn[c].to = Meant(req.op, req.name, req.arg)

(* Seen as numbers without bound: a range within the blob is served as asked,    *)
(* one that goes beyond it is 416, and what is not a range never yields a part.  *)
(* A chunk is taken exactly if it begins where the session ends, and the answer  *)
(* says where the next one begins, as does the status of a session that is not   *)
(* empty (blob_uploader.go:151,190).                                             *)
RangesRight ==
    \A c \in Client : conn[c].state = "answered" =>
        LET req == conn[c].req
            h == req.header
            valid == h.kind = "range" /\ h.first <= h.last
            said == conn[c].answer
        IN  /\ req.op = "GetBlob" =>
                 /\ valid /\ h.last < req.size => said = Answer(206, h.first, h.last)
                 /\ valid /\ h.last >= req.size => said.status = 416
                 /\ ~valid => said.status # 206
            /\ req.op = "PatchBlobUpload" =>
                 /\ (said.status = 202) <=> IF h.kind = "none" THEN req.size = 0
                                            ELSE valid /\ h.first = req.size
                 /\ said.status = 202 => said.last + 1 = req.size + req.length
            /\ req.op = "GetBlobUpload" /\ req.size > 0 => said.last + 1 = req.size

(* A request that was cut off, or met the closed metadata store, shows in the    *)
(* exit status: run() returns nil only when every request was answered.          *)
CleanExit == (\E c \in Client : conn[c].state \in {"failed", "cut"}) => exit = 1

(* The goroutine of run() can go on. *)
MainReady ==
    \/ phase = "serving" /\ (signals > 0 \/ listener = "failed")
    \/ phase = "draining" /\ (deadline = "passed" \/ \A c \in Client : ~Active(c))
    \/ phase = "drained" /\ listener # "open"
    \/ phase \in {"returning", "exiting"}

(* Once there is a signal run() waits for nothing but the deadline: not for a    *)
(* request that never ends, not for another signal, not for an error of          *)
(* ListenAndServe that it has had already (main.go:111-129).                     *)
NeverHangs ==
    Running /\ (phase # "serving" \/ signals > 0) => MainReady \/ deadline = "running"

(* The steps that are left. *)
Left ==
    CASE phase = "serving"   -> 6
      [] phase = "draining"  -> IF deadline = "passed" THEN 4 ELSE 5
      [] phase = "drained"   -> 3
      [] phase = "returning" -> 2
      [] phase = "exiting"   -> 1
      [] OTHER               -> 0

(* Each step of run() brings the end nearer, and nothing that clients, signals,  *)
(* the listener or the clock do puts it off.                                     *)
WindsDown == [][Left' <= Left /\ (RunNext => Left' < Left)]_vars

(* A signal stops the process, even when a handler never returns, another signal *)
(* follows or the listener fails.                                                *)
SignalStops == (phase = "serving" /\ signals > 0) ~> (phase = "exited")
=============================================================================
