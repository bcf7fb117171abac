---------------------------- MODULE ServerProofs ----------------------------
(***************************************************************************)
(* The safety of Server: for every set of clients and requests, every      *)
(* repository name, and every MaxInt.                                      *)
(***************************************************************************)
EXTENDS Server, RoutesProofs, TLAPS

RouteOf(req) == Route(MethodOf(req.op), PathOf(req.op, req.name, req.arg))

Everything == UNION {Requests[c] : c \in Client}
Targets == {Refused} \cup {RouteOf(req) : req \in Everything}
Answers == {Plain(0), Plain(500)} \cup {Result(to.handler, req) : to \in Targets, req \in Everything}

Conn == [req : Everything \cup {NoRequest},
         state : {"idle", "serving", "answered", "failed", "cut"},
         to : Targets, answer : Answers]

(* A connection keeps its request, where it was routed, and the answer to it. *)
Served(c) ==
    /\ conn[c].req = NoRequest <=> conn[c].state = "idle"
    /\ conn[c].req # NoRequest => conn[c].req \in Requests[c] /\ conn[c].to = RouteOf(conn[c].req)
    /\ conn[c].state = "answered" => conn[c].answer = Result(conn[c].to.handler, conn[c].req)

RunTypes ==
    /\ phase \in {"serving", "draining", "drained", "returning", "exiting", "exited"}
    /\ signals \in 0 .. 1
    /\ listener \in {"open", "closed", "failed"}
    /\ deadline \in {"none", "running", "passed"}
    /\ store \in {"open", "closed"}
    /\ exit \in {0, 1}

TypeInv == RunTypes /\ conn \in [Client -> Conn] /\ \A c \in Client : Served(c)

(* One connection changes. *)
Alone(c) == \A x \in Client : x # c => conn'[x] = conn[x]

LEMMA Unrequested == \A c \in Client : \A req \in Requests[c] : req # NoRequest
<1> SUFFICES ASSUME NEW c \in Client, NEW req \in Requests[c], req = NoRequest PROVE FALSE
  OBVIOUS
<1>1. req.op \in Operation
  BY ServerAssumption
<1>2. req.op = "none"
  BY DEF NoRequest
<1> QED BY <1>1, <1>2 DEF Operation

LEMMA Accepts ==
    ASSUME TypeInv, NEW c \in Client, NEW req \in Requests[c], Accept(c, req)
    PROVE  /\ conn' \in [Client -> Conn] /\ Alone(c)
           /\ conn'[c].req = req /\ conn'[c].state = "serving" /\ conn'[c].to = RouteOf(req)
<1> DEFINE q == [Quiet(req, "serving") EXCEPT !.to = RouteOf(req)]
<1>1. conn' = [conn EXCEPT ![c] = q] /\ conn \in [Client -> Conn]
  BY DEF Accept, TypeInv, RouteOf
<1>2. q = [req |-> req, state |-> "serving", to |-> RouteOf(req), answer |-> Plain(0)]
  BY DEF Quiet
<1>3. req \in Everything /\ RouteOf(req) \in Targets /\ Plain(0) \in Answers
  BY DEF Everything, Targets, Answers
<1> HIDE DEF q
<1>4. q \in Conn /\ q.req = req /\ q.state = "serving" /\ q.to = RouteOf(req)
  BY <1>2, <1>3 DEF Conn
<1> QED BY <1>1, <1>4 DEF Alone

LEMMA Responds ==
    ASSUME TypeInv, NEW c \in Client, Respond(c)
    PROVE  /\ conn' \in [Client -> Conn] /\ Alone(c)
           /\ conn'[c].req = conn[c].req /\ conn'[c].to = conn[c].to
           /\ conn'[c].state \in {"answered", "failed"}
           /\ conn'[c].state = "answered" => conn'[c].answer = Result(conn[c].to.handler, conn[c].req)
           /\ conn'[c].state = "failed" => store = "closed"
<1>1. PICK s \in {"answered", "failed"}, a \in {Plain(500), Result(conn[c].to.handler, conn[c].req)} :
          /\ conn' = [conn EXCEPT ![c].state = s, ![c].answer = a]
          /\ s = "answered" => a = Result(conn[c].to.handler, conn[c].req)
          /\ s = "failed" => store = "closed"
  BY DEF Respond
<1>2. conn[c] \in Conn /\ conn \in [Client -> Conn]
  BY DEF TypeInv
<1>3. conn[c].req \in Everything
  BY <1>2 DEF TypeInv, Served, Respond, Active, Conn
<1>4. a \in Answers
  BY <1>2, <1>3 DEF Answers, Conn
<1> DEFINE q == [conn[c] EXCEPT !.state = s, !.answer = a]
<1>5. conn' = [conn EXCEPT ![c] = q]
  BY <1>1, <1>2
<1>6. q \in Conn /\ q.req = conn[c].req /\ q.to = conn[c].to /\ q.state = s /\ q.answer = a
  BY <1>2, <1>4 DEF Conn
<1> HIDE DEF q
<1>7. conn' \in [Client -> Conn] /\ Alone(c) /\ conn'[c] = q
  BY <1>2, <1>5, <1>6 DEF Alone
<1> QED BY <1>1, <1>6, <1>7

(* What the end of the process does to a connection. *)
LEMMA CutOff ==
    ASSUME TypeInv, Exit, NEW c \in Client
    PROVE  /\ conn' \in [Client -> Conn]
           /\ conn'[c].req = conn[c].req /\ conn'[c].to = conn[c].to /\ conn'[c].answer = conn[c].answer
           /\ conn'[c].state = IF Active(c) THEN "cut" ELSE conn[c].state
<1>1. \A x \in Client : conn[x] \in Conn
  BY DEF TypeInv
<1>2. ASSUME NEW r \in Conn
      PROVE  /\ [r EXCEPT !.state = "cut"] \in Conn
             /\ [r EXCEPT !.state = "cut"].req = r.req /\ [r EXCEPT !.state = "cut"].to = r.to
             /\ [r EXCEPT !.state = "cut"].answer = r.answer
             /\ [r EXCEPT !.state = "cut"].state = "cut"
  BY DEF Conn
<1>3. conn' = [x \in Client |-> IF Active(x) THEN [conn[x] EXCEPT !.state = "cut"] ELSE conn[x]]
  BY DEF Exit
<1> QED BY <1>1, <1>2, <1>3

LEMMA TypeStep == TypeInv /\ [Next]_vars => TypeInv'
<1> SUFFICES ASSUME TypeInv, [Next]_vars PROVE TypeInv'
  OBVIOUS
<1>1. ASSUME UNCHANGED conn, RunTypes'
      PROVE  TypeInv'
  BY <1>1 DEF TypeInv, Served
<1>2. CASE \/ Shutdown \/ ServeError \/ Drained \/ DrainTimeout \/ ServeResult \/ CloseStore
           \/ DeadlinePasses \/ Signal \/ ListenFails
  <2>1. RunTypes' /\ UNCHANGED conn
    BY <1>2 DEF TypeInv, RunTypes, Shutdown, ServeError, Drained, DrainTimeout, ServeResult, CloseStore,
                DeadlinePasses, Signal, ListenFails
  <2> QED BY <1>1, <2>1
<1>3. CASE Exit
  <2>1. RunTypes'
    BY <1>3 DEF TypeInv, RunTypes, Exit
  <2>2. \A c \in Client : Served(c)'
    BY <1>3, CutOff DEF TypeInv, Served, Active
  <2>3. conn' \in [Client -> Conn]
    <3>1. CASE Client = {}
      BY <1>3, <3>1 DEF Exit
    <3> QED BY <1>3, <3>1, CutOff
  <2> QED BY <2>1, <2>2, <2>3 DEF TypeInv
<1>4. ASSUME NEW c \in Client, NEW req \in Requests[c], Accept(c, req)
      PROVE  TypeInv'
  <2>1. RunTypes'
    BY <1>4 DEF Accept, runVars, TypeInv, RunTypes
  <2>2. Served(c)'
    BY <1>4, Accepts, Unrequested DEF Served
  <2>3. \A x \in Client : x # c => Served(x)'
    BY <1>4, Accepts DEF TypeInv, Served, Alone
  <2> QED BY <1>4, <2>1, <2>2, <2>3, Accepts DEF TypeInv
<1>5. ASSUME NEW c \in Client, Respond(c)
      PROVE  TypeInv'
  <2>1. RunTypes'
    BY <1>5 DEF Respond, runVars, TypeInv, RunTypes
  <2>2. Served(c)'
    <3>1. Served(c) /\ conn[c].state = "serving"
      BY <1>5 DEF TypeInv, Respond, Active
    <3>2. conn[c].req # NoRequest
      BY <3>1 DEF Served
    <3> QED BY <1>5, <3>1, <3>2, Responds DEF Served
  <2>3. \A x \in Client : x # c => Served(x)'
    BY <1>5, Responds DEF TypeInv, Served, Alone
  <2> QED BY <1>5, <2>1, <2>2, <2>3, Responds DEF TypeInv
<1>6. CASE UNCHANGED vars
  BY <1>1, <1>6 DEF vars, runVars, TypeInv, RunTypes
<1> QED BY <1>2, <1>3, <1>4, <1>5, <1>6 DEF Next, RunNext

LEMMA TypeInit == Init => TypeInv
<1> SUFFICES ASSUME Init PROVE TypeInv
  OBVIOUS
<1>1. Quiet(NoRequest, "idle") \in Conn
  BY DEF Quiet, Conn, Targets, Answers
<1>2. \A c \in Client : conn[c].req = NoRequest /\ conn[c].state = "idle"
  BY DEF Init, Quiet
<1> QED BY <1>1, <1>2 DEF Init, TypeInv, RunTypes, Served

LEMMA TypesHold == Spec => []TypeInv
BY TypeInit, TypeStep, PTL DEF Spec

(* Every variable of the process keeps its type. *)
THEOREM ServerTypes == Spec => []TypeOK
<1>1. TypeInv => TypeOK
  BY DEF TypeInv, RunTypes, TypeOK, Served, Conn
<1> QED BY <1>1, TypesHold, PTL

-----------------------------------------------------------------------------
(* The exit status *)

Unserved(c) == conn[c].state \in {"failed", "cut"}

(* Once run() goes on, nobody is let in; it drains before it succeeds, and the   *)
(* store is closed after that.                                                   *)
RunInv ==
    /\ phase # "serving" => listener # "open"
    /\ phase = "draining" => deadline # "none"
    /\ phase \in {"serving", "draining", "drained", "returning"} => store = "open"
    /\ phase \in {"serving", "draining", "drained"} => \A c \in Client : ~Unserved(c)
    /\ phase = "returning" => \A c \in Client : ~Unserved(c)
    /\ phase = "drained" => \A c \in Client : ~Active(c)
    /\ phase \in {"returning", "exiting", "exited"} /\ exit = 0 =>
          \A c \in Client : ~Active(c) /\ ~Unserved(c)

LEMMA RunStep == TypeInv /\ RunInv /\ [Next]_vars => RunInv'
<1> SUFFICES ASSUME TypeInv, RunInv, [Next]_vars PROVE RunInv'
  OBVIOUS
<1> USE DEF Active, Unserved
<1>0. RunTypes
  BY DEF TypeInv
<1>1. CASE Shutdown \/ ServeError \/ Drained \/ DrainTimeout
  BY <1>1 DEF RunInv, Shutdown, ServeError, Drained, DrainTimeout
<1>2. CASE ServeResult \/ CloseStore
  BY <1>2 DEF RunInv, ServeResult, CloseStore
<1>3. CASE Exit
  BY <1>3, CutOff DEF RunInv, Exit
<1>4. CASE DeadlinePasses \/ Signal \/ ListenFails \/ UNCHANGED vars
  BY <1>4 DEF RunInv, DeadlinePasses, Signal, ListenFails, vars, runVars
<1>5. ASSUME NEW c \in Client, NEW req \in Requests[c], Accept(c, req)
      PROVE  RunInv'
  <2>1. phase = "serving" /\ UNCHANGED runVars
    BY <1>5 DEF Accept, RunInv
  <2> QED BY <1>5, <2>1, Accepts DEF RunInv, Alone, runVars
<1>6. ASSUME NEW c \in Client, Respond(c)
      PROVE  RunInv'
  <2>1. UNCHANGED runVars /\ Active(c) /\ phase # "exited"
    BY <1>6 DEF Respond, Running
  <2>2. phase \in {"serving", "draining", "drained", "returning"} => conn'[c].state = "answered"
    BY <1>6, Responds DEF RunInv
  <2> QED BY <1>0, <1>6, <2>1, <2>2, Responds DEF RunInv, RunTypes, Alone, runVars
<1> QED BY <1>1, <1>2, <1>3, <1>4, <1>5, <1>6 DEF Next, RunNext

LEMMA RunInvHolds == Spec => []RunInv
<1>1. Init => RunInv
  BY DEF Init, RunInv, Quiet, Active, Unserved
<1> QED BY <1>1, RunStep, TypesHold, PTL DEF Spec

(* The process exits with 0 only if it has answered every request it took.       *)
THEOREM ExitTellsAll == Spec => []CleanExit
<1>1. TypeInv /\ RunInv => CleanExit
  BY DEF TypeInv, RunTypes, RunInv, CleanExit, Unserved
<1> QED BY <1>1, TypesHold, RunInvHolds, PTL

(* Once there is a signal, run() can always go on or waits for the deadline:     *)
(* what is left to SignalStops is that goroutines run and time passes.           *)
THEOREM ShutdownNeverHangs == Spec => []NeverHangs
<1>1. TypeInv /\ RunInv => NeverHangs
  BY DEF TypeInv, RunTypes, RunInv, NeverHangs, MainReady, Running
<1> QED BY <1>1, TypesHold, RunInvHolds, PTL

(* Every step of run() leaves fewer to take, at most six, and no step of a       *)
(* client, of the listener, of the clock or of a signal adds one.                *)
THEOREM RunWindsDown == Spec => WindsDown
<1>1. ASSUME TypeInv, Next
      PROVE  Left' <= Left /\ (RunNext => Left' < Left)
  <2> USE DEF Left
  <2>0. RunTypes
    BY <1>1 DEF TypeInv
  <2>1. CASE Shutdown
    BY <2>1 DEF Shutdown
  <2>2. CASE ServeError \/ Drained \/ DrainTimeout \/ ServeResult
    BY <2>2 DEF ServeError, Drained, DrainTimeout, ServeResult
  <2>3. CASE CloseStore \/ Exit
    BY <2>3 DEF CloseStore, Exit
  <2>4. CASE ~RunNext
    <3>1. CASE DeadlinePasses
      BY <2>0, <2>4, <3>1 DEF DeadlinePasses, RunTypes
    <3>2. CASE UNCHANGED <<phase, deadline>>
      BY <2>0, <2>4, <3>2 DEF RunTypes
    <3> QED
      BY <1>1, <2>4, <3>1, <3>2 DEF Next, Signal, ListenFails, Respond, Accept, runVars
  <2> QED BY <2>1, <2>2, <2>3, <2>4 DEF RunNext
<1>2. TypeInv /\ [Next]_vars => [Left' <= Left /\ (RunNext => Left' < Left)]_vars
  BY <1>1
<1> QED BY <1>2, TypesHold, PTL DEF Spec, WindsDown

-----------------------------------------------------------------------------
(* Routing and ranges *)

Segments == STRING \cup Separator \cup {"uploads", "namespaces", NoSegment}

LEMMA Widened ==
    ASSUME NEW A, NEW B, A \subseteq B, NEW s \in Seq(A)
    PROVE  s \in Seq(B)
OBVIOUS

LEMMA RequestRouted ==
    ASSUME NEW c \in Client, NEW req \in Requests[c]
    PROVE  Shadowed(req.op, req.name) \/ RouteOf(req) = Meant(req.op, req.name, req.arg)
<1>1. /\ req.op \in Operation /\ req.name \in Seq(STRING) /\ req.name # <<>>
      /\ \A i \in DOMAIN req.name : req.name[i] # NoSegment
  BY ServerAssumption
<1>2. req.arg \in STRING /\ req.arg # NoSegment
  BY ServerAssumption
<1>3. req.name \in Seq(Segments) /\ req.arg \in Segments
  <2>1. STRING \subseteq Segments
    BY Zenon DEF Segments
  <2>2. req.arg \in Segments
    BY <1>2, <2>1, Zenon
  <2> HIDE DEF Segments
  <2> QED BY <1>1, <2>1, <2>2, Widened
<1>4. Separator \cup {"uploads", "namespaces", NoSegment} \subseteq Segments
  BY Zenon DEF Segments
<1> QED BY <1>1, <1>2, <1>3, <1>4, RouteMeant DEF RouteOf

(* Every request reaches the handler meant, whatever its repository is called,   *)
(* except the ones Shadowed names.                                               *)
THEOREM RequestsReachHandlers == Spec => []RoutedRight
<1>1. TypeInv => RoutedRight
  BY RequestRouted DEF TypeInv, Served, RoutedRight
<1> QED BY <1>1, TypesHold, PTL

(* What a header h says of a blob of size bytes, and of a session of size bytes   *)
(* to which length bytes are sent.                                               *)
HeaderOK(h) ==
    /\ h.kind \in {"none", "malformed", "range"}
    /\ h.kind = "range" => h.first \in Nat /\ h.last \in Nat

LEMMA Clamped ==
    ASSUME NEW n \in Nat
    PROVE  /\ ParseInt(n) \in Nat /\ ParseInt(n) <= MaxInt /\ ParseInt(n) <= n
           /\ n < MaxInt => ParseInt(n) = n
           /\ n >= MaxInt => ParseInt(n) = MaxInt
BY RangesAssumption DEF ParseInt

LEMMA BlobRange ==
    ASSUME NEW h, HeaderOK(h), NEW size \in Nat, size <= MaxInt
    PROVE  LET valid == h.kind = "range" /\ h.first <= h.last
               said == RangeAnswer(h, size)
           IN  /\ valid /\ h.last < size => said = Answer(206, h.first, h.last)
               /\ valid /\ h.last >= size => said.status = 416
               /\ ~valid => said.status # 206
<1>0. MaxInt \in Nat
  BY RangesAssumption
<1>1. \A x, y, z : Answer(x, y, z).status = x
  BY DEF Answer
<1>2. CASE h.kind # "range"
  BY <1>1, <1>2 DEF RangeAnswer, Parsed
<1>3. CASE h.kind = "range"
  <2>1. h.first \in Nat /\ h.last \in Nat
    BY <1>3 DEF HeaderOK
  <2>2. CASE h.first <= h.last /\ h.last < size
    <3>1. ParseInt(h.first) = h.first /\ ParseInt(h.last) = h.last
      BY <1>0, <2>1, <2>2, Clamped
    <3> QED BY <1>3, <2>1, <2>2, <3>1 DEF RangeAnswer, Parsed
  <2>3. CASE h.first <= h.last /\ h.last >= size
    <3>1. ParseInt(h.first) <= ParseInt(h.last) /\ ParseInt(h.last) >= size
      BY <1>0, <2>1, <2>3 DEF ParseInt
    <3> QED BY <1>1, <1>3, <2>1, <2>3, <3>1 DEF RangeAnswer, Parsed
  <2>4. CASE h.first > h.last
    <3>1. ParseInt(h.first) <= ParseInt(h.last) => ParseInt(h.last) >= size
      BY <1>0, <2>1, <2>4 DEF ParseInt
    <3> QED BY <1>1, <1>3, <2>1, <2>4, <3>1 DEF RangeAnswer, Parsed
  <2> QED BY <1>3, <2>1, <2>2, <2>3, <2>4
<1> QED BY <1>2, <1>3

LEMMA ChunkRange ==
    ASSUME NEW h, HeaderOK(h), NEW size \in Nat, size < MaxInt, NEW length \in Nat
    PROVE  LET said == PatchAnswer(h, size, length)
           IN  /\ (said.status = 202) <=> IF h.kind = "none" THEN size = 0
                                          ELSE h.kind = "range" /\ h.first <= h.last /\ h.first = size
               /\ said.status = 202 => said.last + 1 = size + length
<1>0. MaxInt \in Nat
  BY RangesAssumption
<1>1. \A x, y, z : Answer(x, y, z).status = x /\ Answer(x, y, z).last = z
  BY DEF Answer
<1>2. CASE h.kind = "none"
  BY <1>1, <1>2 DEF PatchAnswer
<1>3. CASE h.kind = "malformed"
  BY <1>1, <1>3 DEF PatchAnswer, Parsed
<1>4. CASE h.kind = "range"
  <2>1. h.first \in Nat /\ h.last \in Nat
    BY <1>4 DEF HeaderOK
  <2>2. /\ ParseInt(h.first) = size <=> h.first = size
        /\ h.first = size => (ParseInt(h.first) <= ParseInt(h.last) <=> h.first <= h.last)
    BY <1>0, <2>1 DEF ParseInt
  <2> QED BY <1>0, <1>1, <1>4, <2>1, <2>2 DEF PatchAnswer, Parsed
<1> QED BY <1>2, <1>3, <1>4 DEF HeaderOK

(* What RangesRight says of one answered request. *)
Ranged(req, said) ==
    LET h == req.header
        valid == h.kind = "range" /\ h.first <= h.last
    IN  /\ req.op = "GetBlob" =>
             /\ valid /\ h.last < req.size => said = Answer(206, h.first, h.last)
             /\ valid /\ h.last >= req.size => said.status = 416
             /\ ~valid => said.status # 206
        /\ req.op = "PatchBlobUpload" =>
             /\ (said.status = 202) <=> IF h.kind = "none" THEN req.size = 0
                                        ELSE valid /\ h.first = req.size
             /\ said.status = 202 => said.last + 1 = req.size + req.length
        /\ req.op = "GetBlobUpload" /\ req.size > 0 => said.last + 1 = req.size

LEMMA Answered ==
    ASSUME NEW c \in Client, NEW req \in Requests[c], NEW said, said = Result(RouteOf(req).handler, req)
    PROVE  Ranged(req, said)
<1>1. HeaderOK(req.header) /\ req.size \in Nat /\ req.length \in Nat
  BY ServerAssumption DEF HeaderOK
<1>2. req.op \in {"GetBlob", "PatchBlobUpload", "GetBlobUpload"} => RouteOf(req).handler = req.op
  BY RequestRouted DEF Shadowed, Meant, Reached
<1>3. CASE req.op = "GetBlob"
  <2>1. said = RangeAnswer(req.header, req.size) /\ req.size <= MaxInt
    BY <1>2, <1>3, ServerAssumption DEF Result
  <2> QED BY <1>1, <1>3, <2>1, BlobRange DEF Ranged
<1>4. CASE req.op = "PatchBlobUpload"
  <2>1. said = PatchAnswer(req.header, req.size, req.length) /\ req.size < MaxInt
    BY <1>2, <1>4, ServerAssumption DEF Result
  <2> QED BY <1>1, <1>4, <2>1, ChunkRange DEF Ranged
<1>5. CASE req.op = "GetBlobUpload"
  <2>1. said = StatusAnswer(req.size)
    BY <1>2, <1>5 DEF Result
  <2> QED BY <1>1, <1>5, <2>1 DEF Ranged, StatusAnswer, Answer
<1>6. CASE req.op \notin {"GetBlob", "PatchBlobUpload", "GetBlobUpload"}
  BY <1>6 DEF Ranged
<1> QED BY <1>3, <1>4, <1>5, <1>6

(* Positions beyond the largest integer of the program change no answer.         *)
THEOREM RangesAnsweredRight == Spec => []RangesRight
<1>1. ASSUME TypeInv, NEW c \in Client, conn[c].state = "answered"
      PROVE  Ranged(conn[c].req, conn[c].answer)
  BY <1>1, Answered DEF TypeInv, Served
<1>2. TypeInv => RangesRight
  BY <1>1 DEF RangesRight, Ranged
<1> QED BY <1>2, TypesHold, PTL
=============================================================================
