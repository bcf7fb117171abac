--------------------------- MODULE DeletionProofs ---------------------------
(***************************************************************************)
(* The vacuum process does what BlobDeletion promises: a call deals with   *)
(* each of its paths once, while the process runs, and is answered by what *)
(* became of them all.                                                     *)
(***************************************************************************)
EXTENDS VacuumProofs

Active == {"find", "rlock", "send", "wait", "answered"}

(* What the program counter of a caller says about its call. *)
Shaped(q) ==
    /\ q.pc = "idle" <=> q.op = "none"
    /\ q.pc = "done" <=> q.reply # "none"
    /\ q.pc = "find" => q.op = "Sweep" /\ q.left = {}
    /\ q.pc \in {"rlock", "send"} => q.op = "Sweep" \/ ~q.removed
    /\ q.pc = "answered" => q.left = {}

(* The caller waits for the answer of pool p, which is the current one: the      *)
(* process has not been stopped since the caller took the read lock.            *)
Waits(c, p) == call[c].pc = "wait" /\ call[c].pool = p /\ jobs = p

(* A command is in the channel, or with a worker, but not twice: its caller      *)
(* waits for it, and nobody else answers.                                       *)
Queued ==
    \A p \in Pool : \A i \in 1 .. Len(queue[p]) :
        /\ Waits(queue[p][i], p)
        /\ \A j \in 1 .. Len(queue[p]) : queue[p][i] = queue[p][j] => i = j
Carried ==
    \A p \in Pool, w \in Worker : worker[p][w].state = "busy" =>
        LET c == worker[p][w].cmd
        IN  /\ c \in Caller /\ Waits(c, p)
            /\ \A i \in 1 .. Len(queue[p]) : queue[p][i] # c
            /\ \A v \in Worker : worker[p][v].state = "busy" /\ worker[p][v].cmd = c => v = w

CommandInv == Queued /\ Carried /\ \A c \in Caller : Shaped(call[c])

-----------------------------------------------------------------------------
(* The calls *)

LEMMA DoneShaped ==
    ASSUME NEW q \in CallState, q.op # "none"
    PROVE  /\ Shaped(Done(q)) /\ Done(q).op = q.op /\ Done(q).left = q.left
           /\ Done(q).removed = q.removed /\ Done(q).failed = q.failed
           /\ Done(q).reply = Reply(q) /\ Done(q).pc = "done"
<1>1. Reply(q) # "none"
  BY DEF Reply
<1>2. /\ Done(q).op = q.op /\ Done(q).left = q.left
      /\ Done(q).removed = q.removed /\ Done(q).failed = q.failed
      /\ Done(q).reply = Reply(q) /\ Done(q).pc = "done"
  BY DEF Done, CallState
<1> QED BY <1>1, <1>2 DEF Shaped

LEMMA ReturnShaped ==
    ASSUME NEW q \in CallState, q.op # "none", q.reply = "none", q.left = {}
    PROVE  /\ Shaped(Return(q)) /\ Return(q).op = q.op /\ Return(q).left = {}
           /\ Return(q).removed = q.removed /\ Return(q).failed = q.failed
           /\ Return(q).reply = IF q.op = "Sweep" THEN "none" ELSE Reply(q)
           /\ Return(q).pc \in {"find", "done"}
<1>1. CASE q.op = "Sweep"
  <2> DEFINE r == [q EXCEPT !.pc = "find", !.pool = 0, !.left = {}]
  <2>1. /\ r.op = q.op /\ r.left = {} /\ r.removed = q.removed /\ r.failed = q.failed
        /\ r.reply = q.reply /\ r.pc = "find"
    BY DEF CallState
  <2>2. Return(q) = r
    BY <1>1 DEF Return
  <2> HIDE DEF r
  <2> QED BY <1>1, <2>1, <2>2 DEF Shaped
<1>2. CASE q.op # "Sweep"
  BY <1>2, DoneShaped DEF Return
<1> QED BY <1>1, <1>2

LEMMA GiveUpShaped ==
    ASSUME NEW q \in CallState, q.op # "none", q.reply = "none"
    PROVE  LET r == [q EXCEPT !.left = {}, !.failed = TRUE]
           IN  /\ r \in CallState /\ r.op = q.op /\ r.removed = q.removed /\ r.reply = "none"
               /\ Shaped(GiveUp(q)) /\ GiveUp(q).op = q.op /\ GiveUp(q).left = {}
               /\ GiveUp(q).removed = q.removed /\ GiveUp(q).failed = TRUE
               /\ GiveUp(q).reply = IF q.op = "Sweep" THEN "none" ELSE Reply(r)
               /\ GiveUp(q).pc \in {"find", "done"}
<1> DEFINE r == [q EXCEPT !.left = {}, !.failed = TRUE]
<1>1. /\ r \in CallState /\ r.op = q.op /\ r.removed = q.removed /\ r.reply = "none"
      /\ r.left = {} /\ r.failed = TRUE
  BY DEF CallState
<1>2. GiveUp(q) = Return(r)
  BY DEF GiveUp
<1> HIDE DEF r
<1>3. /\ Shaped(GiveUp(q)) /\ GiveUp(q).op = q.op /\ GiveUp(q).left = {}
      /\ GiveUp(q).removed = q.removed /\ GiveUp(q).failed = TRUE
      /\ GiveUp(q).reply = IF q.op = "Sweep" THEN "none" ELSE Reply(r)
      /\ GiveUp(q).pc \in {"find", "done"}
  BY <1>1, <1>2, ReturnShaped
<1> QED BY <1>1, <1>3 DEF r

(* A call that has just been made. *)
Fresh(q) ==
    /\ Shaped(q) /\ q.op \in {"Delete", "Batch", "Sweep"} /\ q.left \subseteq Path
    /\ q.removed = FALSE /\ q.reply = "none" /\ q.failed \in BOOLEAN
    /\ q.pc \in {"rlock", "find"}

LEMMA NewCallsShaped == ASSUME NEW q \in NewCalls PROVE Fresh(q)
<1>1. \/ \E p \in BlobPath : q = NewCall("Delete", "rlock", {p}, {}, FALSE, "none")
      \/ \E S \in SUBSET BlobPath, invalid \in BOOLEAN :
            q = NewCall("Batch", "rlock", S, {}, invalid, "none")
      \/ q = NewCall("Sweep", "find", {}, StagingDir, FALSE, "none")
  <2>1. CASE q \in {NewCall("Delete", "rlock", {p}, {}, FALSE, "none") : p \in BlobPath}
    BY <2>1
  <2>2. CASE q \in {NewCall("Batch", "rlock", S, {}, invalid, "none") :
                       S \in SUBSET BlobPath, invalid \in BOOLEAN}
    BY <2>2 DEF NewCall
  <2>3. CASE q \in {NewCall("Sweep", "find", {}, StagingDir, FALSE, "none")}
    BY <2>3
  <2> QED BY <2>1, <2>2, <2>3 DEF NewCalls, NewCall
<1>2. ASSUME NEW p \in BlobPath, q = NewCall("Delete", "rlock", {p}, {}, FALSE, "none")
      PROVE  Fresh(q)
  BY <1>2 DEF NewCall, Shaped, Fresh, Path
<1>3. ASSUME NEW S \in SUBSET BlobPath, NEW invalid \in BOOLEAN,
             q = NewCall("Batch", "rlock", S, {}, invalid, "none")
      PROVE  Fresh(q)
  BY <1>3 DEF NewCall, Shaped, Fresh, Path
<1>4. ASSUME q = NewCall("Sweep", "find", {}, StagingDir, FALSE, "none")
      PROVE  Fresh(q)
  BY <1>4 DEF NewCall, Shaped, Fresh
<1> QED BY <1>1, <1>2, <1>3, <1>4

-----------------------------------------------------------------------------
(* What becomes of a call in a step of its caller, as BlobDeletion sees it: it   *)
(* is made, a sweep finds paths, the paths are missing, they are given up, or    *)
(* the call is answered.                                                        *)

Pending(q) == q.op # "none" /\ q.reply = "none"

Same(o, q) ==
    /\ q.op = o.op /\ q.left = o.left /\ q.removed = o.removed /\ q.failed = o.failed
    /\ q.reply = o.reply
Made(o, q) ==
    /\ ~Pending(o)
    /\ q.op \in {"Delete", "Batch", "Sweep"} /\ q.removed = FALSE /\ q.reply \in {"none", "failed"}
Found(o, q) ==
    /\ Pending(o) /\ o.op = "Sweep"
    /\ q.op = o.op /\ q.removed = o.removed /\ q.reply = "none"
    /\ o.failed => q.failed
Missed(o, q) ==
    /\ Pending(o) /\ jobs # 0 /\ o.left \cap files = {}
    /\ q.op = o.op /\ q.left = {} /\ q.removed = o.removed /\ q.failed = o.failed
    /\ q.reply \in {"none", Reply(o)}
GivenUp(o, q) ==
    /\ Pending(o) /\ (o.op = "Sweep" \/ ~o.removed)
    /\ q.op = o.op /\ q.left = {} /\ q.removed = o.removed /\ q.failed = TRUE
    /\ q.reply \in {"none", "failed"}
Finished(o, q) ==
    /\ Pending(o) /\ o.left = {}
    /\ q.op = o.op /\ q.left = {} /\ q.removed = o.removed /\ q.failed = o.failed
    /\ q.reply = Reply(o)

Effect(o, q) ==
    Same(o, q) \/ Made(o, q) \/ Found(o, q) \/ Missed(o, q) \/ GivenUp(o, q) \/ Finished(o, q)

(* A step of a caller that sends nothing. *)
Acts(c) ==
    \E q \in CallState :
        /\ call' = [call EXCEPT ![c] = q]
        /\ Shaped(q) /\ Effect(call[c], q)
        /\ call[c].pc = "wait" => q.pc = "wait" /\ q.pool = call[c].pool
        /\ q.pc = "wait" => call[c].pc = "wait"

LEMMA Returns ==
    ASSUME NEW q \in CallState, Pending(q), q.left = {}
    PROVE  /\ Effect(q, Return(q)) /\ Shaped(Return(q)) /\ Return(q) \in CallState
           /\ Return(q).pc # "wait"
<1>1. Return(q) \in CallState /\ Return(q).pc # "wait"
  BY ReturnType
<1>2. CASE q.op = "Sweep"
  BY <1>1, <1>2, ReturnShaped DEF Effect, Same, Pending
<1>3. CASE q.op # "Sweep"
  BY <1>1, <1>3, ReturnShaped DEF Effect, Finished, Pending
<1> QED BY <1>2, <1>3

LEMMA GivesUp ==
    ASSUME NEW q \in CallState, Pending(q), q.op = "Sweep" \/ ~q.removed
    PROVE  /\ Effect(q, GiveUp(q)) /\ Shaped(GiveUp(q)) /\ GiveUp(q) \in CallState
           /\ GiveUp(q).pc # "wait"
<1> DEFINE r == [q EXCEPT !.left = {}, !.failed = TRUE]
<1>1. r.op = q.op /\ r.failed = TRUE /\ r.removed = q.removed
  BY DEF CallState
<1>2. q.op # "Sweep" => Reply(r) = "failed"
  BY <1>1 DEF Reply, Pending
<1>3. /\ Shaped(GiveUp(q)) /\ GiveUp(q).op = q.op /\ GiveUp(q).left = {}
      /\ GiveUp(q).removed = q.removed /\ GiveUp(q).failed = TRUE
      /\ GiveUp(q).reply = IF q.op = "Sweep" THEN "none" ELSE Reply(r)
  BY GiveUpShaped DEF Pending
<1> HIDE DEF r
<1>4. GiveUp(q).reply \in {"none", "failed"}
  BY <1>2, <1>3
<1>5. GivenUp(q, GiveUp(q))
  BY <1>3, <1>4 DEF GivenUp
<1> QED BY <1>3, <1>5, GiveUpType DEF Effect

LEMMA ArriveActs ==
    ASSUME TypeInv, CommandInv, NEW c \in Caller, Arrive(c)
    PROVE  Acts(c)
<1>1. PICK q \in NewCalls :
         Become(c, q) \/ Become(c, [q EXCEPT !.pc = "done", !.reply = "failed"])
  BY DEF Arrive
<1>2. Fresh(q) /\ q \in CallState
  BY NewCallsShaped, NewCallsType
<1>3. ~Pending(call[c]) /\ call[c].pc # "wait"
  BY DEF Arrive, CommandInv, Shaped, Pending
<1>4. CASE Become(c, q)
  BY <1>2, <1>3, <1>4 DEF Become, Acts, Effect, Made, Fresh
<1>5. CASE Become(c, [q EXCEPT !.pc = "done", !.reply = "failed"])
  <2> DEFINE r == [q EXCEPT !.pc = "done", !.reply = "failed"]
  <2>1. /\ r \in CallState /\ r.pc = "done" /\ r.op = q.op /\ r.removed = q.removed
        /\ r.reply = "failed"
    BY <1>2 DEF CallState
  <2>2. call' = [call EXCEPT ![c] = r]
    BY <1>5 DEF Become
  <2> HIDE DEF r
  <2>3. Shaped(r) /\ Made(call[c], r)
    BY <1>2, <1>3, <2>1 DEF Fresh, Shaped, Made
  <2> QED BY <1>3, <2>1, <2>2, <2>3 DEF Acts, Effect
<1> QED BY <1>1, <1>4, <1>5

LEMMA CancelActs ==
    ASSUME TypeInv, CommandInv, NEW c \in Caller, Cancel(c)
    PROVE  Acts(c)
<1> DEFINE q == [call[c] EXCEPT !.ctx = FALSE]
<1>1. call[c] \in CallState /\ Shaped(call[c])
  BY DEF TypeInv, TypeOK, CommandInv
<1>2. /\ q \in CallState /\ q.pc = call[c].pc /\ q.pool = call[c].pool
      /\ q.op = call[c].op /\ q.left = call[c].left /\ q.removed = call[c].removed
      /\ q.failed = call[c].failed /\ q.reply = call[c].reply
  BY <1>1 DEF CallState
<1>3. call' = [call EXCEPT ![c] = q]
  BY DEF Cancel, Become
<1> HIDE DEF q
<1> QED BY <1>1, <1>2, <1>3 DEF Acts, Shaped, Effect, Same

LEMMA RLockActs ==
    ASSUME TypeInv, CommandInv, NEW c \in Caller, RLock(c)
    PROVE  Acts(c)
<1>1. /\ call[c] \in CallState /\ Shaped(call[c]) /\ call[c].pc = "rlock"
      /\ jobs \in Pool \cup {0}
  BY DEF TypeInv, TypeOK, CommandInv, RLock
<1>2. Pending(call[c]) /\ (call[c].op = "Sweep" \/ ~call[c].removed)
  BY <1>1 DEF Shaped, Pending
<1>3. CASE Become(c, GiveUp(call[c]))
  BY <1>1, <1>2, <1>3, GivesUp DEF Acts, Become
<1>4. CASE call[c].left = {} /\ Become(c, Return(call[c]))
  BY <1>1, <1>2, <1>4, Returns DEF Acts, Become
<1>5. CASE Become(c, [call[c] EXCEPT !.pc = "send", !.pool = jobs])
  <2> DEFINE q == [call[c] EXCEPT !.pc = "send", !.pool = jobs]
  <2>1. /\ q \in CallState /\ q.pc = "send"
        /\ q.op = call[c].op /\ q.left = call[c].left /\ q.removed = call[c].removed
        /\ q.failed = call[c].failed /\ q.reply = call[c].reply
    BY <1>1 DEF CallState
  <2>2. call' = [call EXCEPT ![c] = q]
    BY <1>5 DEF Become
  <2> HIDE DEF q
  <2> QED BY <1>1, <2>1, <2>2 DEF Acts, Shaped, Effect, Same
<1> QED BY <1>3, <1>4, <1>5 DEF RLock

LEMMA FindActs ==
    ASSUME TypeInv, CommandInv, NEW c \in Caller, FindStale(c)
    PROVE  Acts(c)
<1>1. call[c] \in CallState /\ Shaped(call[c]) /\ call[c].pc = "find"
  BY DEF TypeInv, TypeOK, CommandInv, FindStale
<1>2. Pending(call[c]) /\ call[c].op = "Sweep" /\ call[c].left = {}
  BY <1>1 DEF Shaped, Pending
<1>3. \A dir : Stale(dir) \subseteq Path
  BY DEF Stale, TypeInv, TypeOK, Path
<1>4. PICK dir \in call[c].dirs, S \in SUBSET Path, failed \in BOOLEAN :
         LET visited == [call[c] EXCEPT !.dirs = @ \ {dir}]
             found == IF S = {} THEN visited
                      ELSE [visited EXCEPT !.pc = "rlock", !.left = S]
         IN  Become(c, found) \/ Become(c, [found EXCEPT !.failed = @ \/ failed])
  BY <1>3 DEF FindStale
<1> DEFINE visited == [call[c] EXCEPT !.dirs = @ \ {dir}]
           found == IF S = {} THEN visited ELSE [visited EXCEPT !.pc = "rlock", !.left = S]
           late == [found EXCEPT !.failed = @ \/ failed]
           Fits(q) == /\ q \in CallState /\ q.pc \in {"find", "rlock"} /\ q.op = call[c].op
                      /\ q.removed = call[c].removed /\ q.reply = "none"
                      /\ call[c].failed => q.failed
                      /\ q.pc = "find" => q.left = {}
<1>5. /\ visited \in CallState /\ visited.pc = "find" /\ visited.op = call[c].op
      /\ visited.removed = call[c].removed /\ visited.reply = "none" /\ visited.left = {}
      /\ visited.failed = call[c].failed
  BY <1>1, <1>2 DEF CallState, Pending
<1>6. Fits(found) /\ found.failed = call[c].failed
  <2> HIDE DEF visited
  <2>1. CASE S = {}
    BY <1>5, <2>1
  <2>2. CASE S # {}
    <3> DEFINE r == [visited EXCEPT !.pc = "rlock", !.left = S]
    <3>1. /\ r \in CallState /\ r.pc = "rlock" /\ r.op = visited.op /\ r.removed = visited.removed
          /\ r.reply = visited.reply /\ r.failed = visited.failed
      BY <1>5 DEF CallState
    <3>2. found = r
      BY <2>2
    <3> HIDE DEF r, found
    <3> QED BY <1>5, <3>1, <3>2
  <2> QED BY <2>1, <2>2
<1>7. Fits(late)
  <2> DEFINE b == found.failed \/ failed
  <2>1. b \in BOOLEAN /\ late = [found EXCEPT !.failed = b] /\ (found.failed => b)
    OBVIOUS
  <2> HIDE DEF b, found, late
  <2>2. /\ late \in CallState /\ late.pc = found.pc /\ late.op = found.op
        /\ late.removed = found.removed /\ late.reply = found.reply /\ late.left = found.left
        /\ late.failed = b
    BY <1>6, <2>1 DEF CallState
  <2> QED BY <1>6, <2>1, <2>2
<1>8. \E q : Fits(q) /\ call' = [call EXCEPT ![c] = q]
  <2>1. Become(c, found) \/ Become(c, late)
    BY <1>4
  <2> HIDE DEF visited, found, late
  <2> QED BY <1>6, <1>7, <2>1 DEF Become
<1> HIDE DEF visited, found, late
<1>9. ASSUME NEW q, Fits(q) PROVE Shaped(q) /\ Found(call[c], q)
  BY <1>2, <1>9 DEF Shaped, Found
<1> QED BY <1>1, <1>8, <1>9 DEF Acts, Effect

LEMMA CallActs ==
    ASSUME TypeInv, CommandInv, NEW c \in Caller, CallStep(c)
    PROVE  Acts(c)
<1>0. call[c] \in CallState /\ Shaped(call[c])
  BY DEF TypeInv, TypeOK, CommandInv
<1>1. CASE FindStale(c)
  BY <1>1, FindActs
<1>2. CASE SweepDone(c)
  <2>1. Pending(call[c]) /\ call[c].left = {} /\ call[c].pc = "find"
    BY <1>0, <1>2 DEF SweepDone, Shaped, Pending
  <2>2. /\ Finished(call[c], Done(call[c])) /\ Shaped(Done(call[c]))
        /\ Done(call[c]) \in CallState /\ Done(call[c]).pc # "wait"
    BY <1>0, <2>1, DoneShaped, DoneType DEF Pending, Finished
  <2> QED BY <1>2, <2>1, <2>2 DEF SweepDone, Become, Acts, Effect
<1>3. CASE OpenRootFails(c)
  <2>1. Pending(call[c]) /\ (call[c].op = "Sweep" \/ ~call[c].removed) /\ call[c].pc = "send"
    BY <1>0, <1>3 DEF OpenRootFails, Shaped, Pending
  <2>2. CASE call[c].left \cap files = {} /\ Become(c, Return([call[c] EXCEPT !.left = {}]))
    <3> DEFINE r == [call[c] EXCEPT !.left = {}]
    <3>1. /\ r \in CallState /\ r.op = call[c].op /\ r.removed = call[c].removed
          /\ r.failed = call[c].failed /\ r.reply = call[c].reply /\ r.left = {}
      BY <1>0 DEF CallState
    <3>2. call' = [call EXCEPT ![c] = Return(r)]
      BY <2>2 DEF Become
    <3>3. Reply(r) = Reply(call[c])
      BY <3>1 DEF Reply
    <3>4. jobs # 0
      BY <2>1, VacuumAssumption DEF TypeInv, SendOnOpen, TypeOK, Pool
    <3> HIDE DEF r
    <3>5. /\ Return(r) \in CallState /\ Shaped(Return(r)) /\ Return(r).pc # "wait"
          /\ Return(r).op = call[c].op /\ Return(r).left = {}
          /\ Return(r).removed = call[c].removed /\ Return(r).failed = call[c].failed
          /\ Return(r).reply \in {"none", Reply(call[c])}
      BY <2>1, <3>1, <3>3, ReturnType, ReturnShaped DEF Pending
    <3>6. Missed(call[c], Return(r))
      BY <2>1, <2>2, <3>4, <3>5 DEF Missed
    <3> QED BY <2>1, <3>2, <3>5, <3>6 DEF Acts, Effect
  <2>3. CASE Become(c, GiveUp(call[c]))
    BY <1>0, <2>1, <2>3, GivesUp DEF Acts, Become
  <2> QED BY <1>3, <2>2, <2>3 DEF OpenRootFails
<1>4. CASE SendCancelled(c)
  <2>1. Pending(call[c]) /\ (call[c].op = "Sweep" \/ ~call[c].removed) /\ call[c].pc = "send"
    BY <1>0, <1>4 DEF SendCancelled, Shaped, Pending
  <2> QED BY <1>0, <1>4, <2>1, GivesUp DEF SendCancelled, Become, Acts
<1>5. CASE Receive(c)
  <2>1. Pending(call[c]) /\ call[c].left = {} /\ call[c].pc = "answered"
    BY <1>0, <1>5 DEF Receive, Shaped, Pending
  <2> QED BY <1>0, <1>5, <2>1, Returns DEF Receive, Become, Acts
<1> QED BY <1>1, <1>2, <1>3, <1>4, <1>5 DEF CallStep

-----------------------------------------------------------------------------
(* Commands *)

LEMMA ActsCommands ==
    ASSUME TypeInv, CommandInv, NEW c \in Caller, Acts(c), UNCHANGED <<jobs, queue, worker>>
    PROVE  CommandInv'
<1>1. PICK q \in CallState :
          /\ call' = [call EXCEPT ![c] = q]
          /\ Shaped(q) /\ (call[c].pc = "wait" => q.pc = "wait" /\ q.pool = call[c].pool)
  BY DEF Acts
<1>2. call'[c] = q /\ \A x \in Caller : x # c => call'[x] = call[x]
  BY <1>1 DEF TypeInv, TypeOK
<1>3. \A x \in Caller, p \in Pool : Waits(x, p) => Waits(x, p)'
  BY <1>1, <1>2 DEF Waits
<1>4. \A p \in Pool : queue[p] \in Seq(Caller)
  BY DEF TypeInv, TypeOK
<1>5. Queued' /\ Carried'
  BY <1>3, <1>4 DEF CommandInv, Queued, Carried
<1>6. \A x \in Caller : Shaped(call[x])'
  BY <1>1, <1>2 DEF CommandInv, Shaped
<1> QED BY <1>5, <1>6 DEF CommandInv

LEMMA SendCommands ==
    ASSUME TypeInv, CommandInv, NEW c \in Caller, Send(c)
    PROVE  /\ CommandInv'
           /\ \E q \in CallState : call' = [call EXCEPT ![c] = q] /\ Same(call[c], q)
<1> DEFINE q == [call[c] EXCEPT !.pc = "wait"]
           p == call[c].pool
           Later(x, r) == call'[x].pc = "wait" /\ call'[x].pool = r /\ jobs' = r
<1>1. /\ call[c] \in CallState /\ Shaped(call[c]) /\ call[c].pc = "send"
      /\ p \in Pool /\ jobs = p /\ UNCHANGED <<jobs, worker>>
  BY DEF TypeInv, TypeOK, SendOnOpen, CommandInv, Send
<1>2. /\ q \in CallState /\ q.pc = "wait" /\ q.pool = p
      /\ q.op = call[c].op /\ q.left = call[c].left /\ q.removed = call[c].removed
      /\ q.failed = call[c].failed /\ q.reply = call[c].reply
  BY <1>1 DEF CallState
<1>3. call' = [call EXCEPT ![c] = q]
  BY DEF Send, Become
<1> HIDE DEF q
<1>4. call'[c] = q /\ \A x \in Caller : x # c => call'[x] = call[x]
  BY <1>2, <1>3 DEF TypeInv, TypeOK
<1>5. Later(c, p) /\ \A x \in Caller, r \in Pool : Waits(x, r) => x # c /\ Later(x, r)
  BY <1>1, <1>2, <1>4 DEF Waits
<1>6. \A r \in Pool : queue[r] \in Seq(Caller)
  BY DEF TypeInv, TypeOK
<1>7. /\ \A r \in Pool : r # p => queue'[r] = queue[r]
      /\ queue'[p] = Append(queue[p], c)
  BY <1>1 DEF Send, TypeInv, TypeOK
<1>8. /\ Len(queue'[p]) = Len(queue[p]) + 1 /\ queue'[p][Len(queue[p]) + 1] = c
      /\ \A i \in 1 .. Len(queue[p]) : queue'[p][i] = queue[p][i]
      /\ Len(queue[p]) \in Nat
  BY <1>1, <1>6, <1>7
<1>9. \A r \in Pool : \A i \in 1 .. Len(queue[r]) : Waits(queue[r][i], r) /\ queue[r][i] \in Caller
  BY <1>6 DEF CommandInv, Queued
<1>10. Queued'
  <2>1. ASSUME NEW r \in Pool, r # p, NEW i \in 1 .. Len(queue'[r])
        PROVE  /\ Later(queue'[r][i], r)
               /\ \A j \in 1 .. Len(queue'[r]) : queue'[r][i] = queue'[r][j] => i = j
    <3>1. queue'[r] = queue[r]
      BY <1>7, <2>1
    <3>2. queue[r][i] \in Caller /\ Waits(queue[r][i], r)
      BY <1>9, <2>1, <3>1
    <3>3. Later(queue[r][i], r)
      BY <1>5, <3>2
    <3> QED BY <2>1, <3>1, <3>3 DEF CommandInv, Queued
  <2>2. ASSUME NEW i \in 1 .. Len(queue[p]) + 1
        PROVE  \/ /\ i \in 1 .. Len(queue[p]) /\ queue'[p][i] = queue[p][i] /\ queue'[p][i] # c
                  /\ Waits(queue[p][i], p)
               \/ i = Len(queue[p]) + 1 /\ queue'[p][i] = c
    <3>1. i \in 1 .. Len(queue[p]) \/ i = Len(queue[p]) + 1
      BY <1>8
    <3>2. CASE i \in 1 .. Len(queue[p])
      BY <1>1, <1>5, <1>8, <1>9, <3>2
    <3> QED BY <1>8, <3>1, <3>2
  <2>3. ASSUME NEW i \in 1 .. Len(queue'[p])
        PROVE  /\ Later(queue'[p][i], p)
               /\ \A j \in 1 .. Len(queue'[p]) : queue'[p][i] = queue'[p][j] => i = j
    <3>1. i \in 1 .. Len(queue[p]) + 1
      BY <1>8
    <3>2. \A j \in 1 .. Len(queue[p]) : i \in 1 .. Len(queue[p]) /\ queue[p][i] = queue[p][j] => i = j
      BY <1>1 DEF CommandInv, Queued
    <3>3. Later(queue'[p][i], p)
      <4>1. CASE i = Len(queue[p]) + 1 /\ queue'[p][i] = c
        BY <1>5, <4>1
      <4>2. CASE i \in 1 .. Len(queue[p]) /\ queue'[p][i] = queue[p][i]
        BY <1>1, <1>5, <1>9, <4>2
      <4> QED BY <2>2, <3>1, <4>1, <4>2
    <3>4. ASSUME NEW j \in 1 .. Len(queue'[p]), queue'[p][i] = queue'[p][j]
          PROVE  i = j
      <4>1. j \in 1 .. Len(queue[p]) + 1
        BY <1>8
      <4>2. CASE i = Len(queue[p]) + 1 /\ queue'[p][i] = c
        BY <2>2, <3>4, <4>1, <4>2
      <4>3. CASE /\ i \in 1 .. Len(queue[p]) /\ queue'[p][i] = queue[p][i]
                 /\ queue'[p][i] # c
        <5>1. j \in 1 .. Len(queue[p]) /\ queue'[p][j] = queue[p][j]
          BY <2>2, <3>4, <4>1, <4>3
        <5> QED BY <3>2, <3>4, <4>3, <5>1
      <4> QED BY <2>2, <3>1, <4>2, <4>3
    <3> QED BY <3>3, <3>4
  <2> QED BY <1>1, <2>1, <2>3 DEF Queued, Waits
<1>11. Carried'
  <2>1. ASSUME NEW r \in Pool, NEW w \in Worker, worker[r][w].state = "busy"
        PROVE  /\ worker[r][w].cmd \in Caller /\ worker[r][w].cmd # c
               /\ Waits(worker[r][w].cmd, r) /\ Later(worker[r][w].cmd, r)
               /\ \A i \in 1 .. Len(queue'[r]) : queue'[r][i] # worker[r][w].cmd
    <3>1. /\ worker[r][w].cmd \in Caller /\ Waits(worker[r][w].cmd, r)
          /\ \A i \in 1 .. Len(queue[r]) : queue[r][i] # worker[r][w].cmd
      BY <2>1 DEF CommandInv, Carried
    <3>2. worker[r][w].cmd # c /\ Later(worker[r][w].cmd, r)
      BY <1>5, <3>1
    <3>3. CASE r # p
      BY <1>7, <3>1, <3>2, <3>3
    <3>4. CASE r = p
      <4>1. \A i \in 1 .. Len(queue'[p]) : i \in 1 .. Len(queue[p]) \/ i = Len(queue[p]) + 1
        BY <1>8
      <4> QED BY <1>8, <3>1, <3>2, <3>4, <4>1
    <3> QED BY <3>1, <3>2, <3>3, <3>4
  <2> QED BY <1>1, <2>1 DEF CommandInv, Carried, Waits
<1>12. \A x \in Caller : Shaped(call[x])'
  BY <1>1, <1>2, <1>4 DEF CommandInv, Shaped
<1>13. Same(call[c], q)
  BY <1>2 DEF Same
<1> QED BY <1>2, <1>3, <1>10, <1>11, <1>12, <1>13 DEF CommandInv

(* A worker takes the head of the queue. *)
LEMMA TakeCommands ==
    ASSUME TypeInv, CommandInv, NEW p \in Pool, NEW w \in Worker, Take(p, w)
    PROVE  CommandInv'
<1> DEFINE c == Head(queue[p])
<1>1. UNCHANGED <<jobs, call>>
  BY DEF Take
<1>2. queue[p] \in Seq(Caller) /\ queue[p] # <<>>
  BY DEF Take, TypeInv, TypeOK
<1>3. /\ Len(queue[p]) \in Nat /\ Len(queue[p]) >= 1
      /\ Len(Tail(queue[p])) = Len(queue[p]) - 1
      /\ \A i \in 1 .. Len(Tail(queue[p])) : Tail(queue[p])[i] = queue[p][i + 1]
      /\ c = queue[p][1] /\ c \in Caller
  BY <1>2
<1>4. /\ queue'[p] = Tail(queue[p])
      /\ \A r \in Pool : r # p => queue'[r] = queue[r]
  BY DEF Take, TypeInv, TypeOK
<1>5. /\ worker'[p][w] = [state |-> "busy", cmd |-> c]
      /\ \A r \in Pool, v \in Worker : r # p \/ v # w => worker'[r][v] = worker[r][v]
  BY DEF Take, Set, TypeInv, TypeOK
<1>6. Waits(c, p) /\ \A j \in 1 .. Len(queue[p]) : queue[p][j] = c => j = 1
  BY <1>3 DEF CommandInv, Queued
<1> HIDE DEF c
<1>7. \A i \in 1 .. Len(queue'[p]) :
         i + 1 \in 1 .. Len(queue[p]) /\ i + 1 # 1 /\ queue'[p][i] = queue[p][i + 1]
  BY <1>3, <1>4
<1>8. Queued'
  <2>1. ASSUME NEW r \in Pool, r # p, NEW i \in 1 .. Len(queue'[r])
        PROVE  /\ Waits(queue'[r][i], r)
               /\ \A j \in 1 .. Len(queue'[r]) : queue'[r][i] = queue'[r][j] => i = j
    BY <1>4, <2>1 DEF CommandInv, Queued
  <2>2. ASSUME NEW i \in 1 .. Len(queue'[p])
        PROVE  /\ Waits(queue'[p][i], p)
               /\ \A j \in 1 .. Len(queue'[p]) : queue'[p][i] = queue'[p][j] => i = j
    <3>1. Waits(queue'[p][i], p)
      BY <1>7, <2>2 DEF CommandInv, Queued
    <3>2. ASSUME NEW j \in 1 .. Len(queue'[p]), queue'[p][i] = queue'[p][j]
          PROVE  i = j
      <4>1. i + 1 = j + 1
        BY <1>7, <2>2, <3>2 DEF CommandInv, Queued
      <4> QED BY <4>1, <1>3, <1>4
    <3> QED BY <3>1, <3>2
  <2> QED BY <1>1, <2>1, <2>2 DEF Queued, Waits
<1>9. Carried'
  <2>1. ASSUME NEW r \in Pool, NEW v \in Worker, worker[r][v].state = "busy",
               r # p \/ v # w
        PROVE  /\ worker[r][v].cmd \in Caller /\ Waits(worker[r][v].cmd, r)
               /\ \A i \in 1 .. Len(queue'[r]) : queue'[r][i] # worker[r][v].cmd
               /\ \A u \in Worker :
                     worker'[r][u].state = "busy" /\ worker'[r][u].cmd = worker[r][v].cmd => u = v
    <3>1. /\ worker[r][v].cmd \in Caller /\ Waits(worker[r][v].cmd, r)
          /\ \A i \in 1 .. Len(queue[r]) : queue[r][i] # worker[r][v].cmd
          /\ \A u \in Worker :
                worker[r][u].state = "busy" /\ worker[r][u].cmd = worker[r][v].cmd => u = v
      BY <2>1 DEF CommandInv, Carried
    <3>2. \A i \in 1 .. Len(queue'[r]) : queue'[r][i] # worker[r][v].cmd
      <4>1. CASE r = p
        BY <1>7, <3>1, <4>1
      <4>2. CASE r # p
        BY <1>4, <3>1, <4>2
      <4> QED BY <4>1, <4>2
    <3>3. ASSUME NEW u \in Worker, worker'[r][u].state = "busy",
                 worker'[r][u].cmd = worker[r][v].cmd
          PROVE  u = v
      <4>1. CASE r = p /\ u = w
        <5>1. worker[r][v].cmd = c
          BY <1>5, <3>3, <4>1
        <5>2. 1 \in 1 .. Len(queue[r]) /\ queue[r][1] = c
          BY <1>3, <4>1
        <5> QED BY <3>1, <5>1, <5>2
      <4>2. CASE r # p \/ u # w
        BY <1>5, <3>1, <3>3, <4>2
      <4> QED BY <4>1, <4>2
    <3> QED BY <3>1, <3>2, <3>3
  <2>2. \A i \in 1 .. Len(queue'[p]) : queue'[p][i] # c
    BY <1>6, <1>7
  <2>3. ASSUME NEW u \in Worker, worker'[p][u].state = "busy", worker'[p][u].cmd = c
        PROVE  u = w
    <3>1. CASE u # w
      <4>1. worker[p][u].state = "busy" /\ worker[p][u].cmd = queue[p][1]
        BY <1>3, <1>5, <2>3, <3>1
      <4> QED BY <1>3, <4>1 DEF CommandInv, Carried
    <3> QED BY <3>1
  <2>4. worker'[p][w].cmd = c
    BY <1>5
  <2> QED BY <1>1, <1>3, <1>5, <1>6, <2>1, <2>2, <2>3, <2>4 DEF Carried, Waits
<1>10. \A x \in Caller : Shaped(call[x])'
  BY <1>1 DEF CommandInv, Shaped
<1> QED BY <1>8, <1>9, <1>10 DEF CommandInv

(* A caller that waits has not got its answer. *)
LEMMA WaitsPending ==
    ASSUME CommandInv, NEW p \in Pool, NEW w \in Worker, NEW c \in Caller, Busy(p, w, c)
    PROVE  Pending(call[c]) /\ Waits(c, p) /\ Shaped(call[c])
BY DEF CommandInv, Carried, Busy, Waits, Shaped, Pending

LEMMA AnswerCommands ==
    ASSUME TypeInv, CommandInv, NEW p \in Pool, NEW w \in Worker, NEW c \in Caller,
           SendResult(p, w, c)
    PROVE  /\ CommandInv'
           /\ \E q \in CallState : call' = [call EXCEPT ![c] = q] /\ Same(call[c], q)
<1> DEFINE q == [call[c] EXCEPT !.pc = "answered"]
<1>1. call[c] \in CallState /\ call[c].left = {} /\ Busy(p, w, c) /\ UNCHANGED <<jobs, queue>>
  BY DEF TypeInv, TypeOK, SendResult
<1>2. /\ q \in CallState /\ q.pc = "answered"
      /\ q.op = call[c].op /\ q.left = call[c].left /\ q.removed = call[c].removed
      /\ q.failed = call[c].failed /\ q.reply = call[c].reply
  BY <1>1 DEF CallState
<1>3. call' = [call EXCEPT ![c] = q]
  BY DEF SendResult, Become
<1> HIDE DEF q
<1>4. call'[c] = q /\ \A x \in Caller : x # c => call'[x] = call[x]
  BY <1>2, <1>3 DEF TypeInv, TypeOK
<1>5. /\ worker'[p][w].state = "idle"
      /\ \A r \in Pool, v \in Worker : r # p \/ v # w => worker'[r][v] = worker[r][v]
  BY DEF SendResult, Set, IdleWorker, TypeInv, TypeOK
<1>6. /\ Pending(call[c]) /\ Waits(c, p) /\ Shaped(call[c])
      /\ worker[p][w].state = "busy" /\ worker[p][w].cmd = c
  BY <1>1, WaitsPending DEF Busy
<1>7. /\ \A i \in 1 .. Len(queue[p]) : queue[p][i] # c
      /\ \A v \in Worker : worker[p][v].state = "busy" /\ worker[p][v].cmd = c => v = w
  BY <1>6 DEF CommandInv, Carried
<1>8. \A x \in Caller, r \in Pool : x # c /\ Waits(x, r) => Waits(x, r)'
  BY <1>1, <1>4 DEF Waits
<1>9. \A r \in Pool : Waits(c, r) => r = p
  BY <1>6 DEF Waits
<1>10. \A r \in Pool : queue[r] \in Seq(Caller)
  BY DEF TypeInv, TypeOK
<1>11. Queued'
  <2>1. ASSUME NEW r \in Pool, NEW i \in 1 .. Len(queue[r])
        PROVE  Waits(queue[r][i], r)'
    <3>1. queue[r][i] \in Caller /\ Waits(queue[r][i], r)
      BY <1>10, <2>1 DEF CommandInv, Queued
    <3>2. queue[r][i] # c
      BY <1>7, <1>9, <2>1, <3>1
    <3> QED BY <1>1, <1>8, <3>1, <3>2 DEF Waits
  <2> QED BY <1>1, <2>1 DEF CommandInv, Queued, Waits
<1>12. Carried'
  <2>1. ASSUME NEW r \in Pool, NEW v \in Worker, worker'[r][v].state = "busy"
        PROVE  /\ worker'[r][v] = worker[r][v] /\ worker[r][v].cmd # c
               /\ worker[r][v].cmd \in Caller /\ Waits(worker[r][v].cmd, r)
               /\ \A i \in 1 .. Len(queue[r]) : queue[r][i] # worker[r][v].cmd
               /\ \A u \in Worker :
                     worker[r][u].state = "busy" /\ worker[r][u].cmd = worker[r][v].cmd => u = v
    <3>1. r # p \/ v # w
      BY <1>5, <2>1
    <3>2. worker'[r][v] = worker[r][v]
      BY <1>5, <3>1
    <3>3. /\ worker[r][v].cmd \in Caller /\ Waits(worker[r][v].cmd, r)
          /\ \A i \in 1 .. Len(queue[r]) : queue[r][i] # worker[r][v].cmd
          /\ \A u \in Worker :
                worker[r][u].state = "busy" /\ worker[r][u].cmd = worker[r][v].cmd => u = v
      BY <2>1, <3>2 DEF CommandInv, Carried
    <3> QED BY <1>7, <1>9, <2>1, <3>1, <3>2, <3>3
  <2> DEFINE Later(x, r) == call'[x].pc = "wait" /\ call'[x].pool = r /\ jobs' = r
  <2>2. \A r \in Pool, v \in Worker : worker'[r][v].state = "busy" =>
           Later(worker'[r][v].cmd, r)
    BY <1>8, <2>1 DEF Waits
  <2> QED BY <1>1, <2>1, <2>2 DEF Carried, Waits
<1>13. Shaped(q)
  BY <1>1, <1>2, <1>6 DEF Shaped, Pending, Waits
<1>14. \A x \in Caller : Shaped(call[x])'
  BY <1>4, <1>13 DEF CommandInv, Shaped
<1> QED BY <1>2, <1>3, <1>11, <1>12, <1>14 DEF CommandInv, Same

(* What a worker makes of one path of its command. *)
Dealt(o, q, path) ==
    /\ path \in o.left
    /\ q.op = o.op /\ q.left = o.left \ {path} /\ q.reply = o.reply
    /\ \/ path \in files /\ files' = files \ {path} /\ q.removed = TRUE /\ q.failed = o.failed
       \/ path \notin files /\ files' = files /\ q.removed = o.removed /\ q.failed = o.failed
       \/ files' = files /\ q.removed = o.removed /\ q.failed = TRUE

LEMMA RemoveCommands ==
    ASSUME TypeInv, CommandInv, NEW p \in Pool, NEW w \in Worker, NEW c \in Caller,
           NEW path \in Path, RemovePath(p, w, c, path)
    PROVE  /\ CommandInv'
           /\ \E q \in CallState : call' = [call EXCEPT ![c] = q] /\ Dealt(call[c], q, path)
<1>1. /\ call[c] \in CallState /\ path \in call[c].left /\ Busy(p, w, c)
      /\ UNCHANGED <<jobs, queue, worker>>
  BY DEF TypeInv, TypeOK, RemovePath, poolVars
<1>2. PICK q \in CallState :
         /\ call' = [call EXCEPT ![c] = q] /\ Dealt(call[c], q, path)
         /\ q.pc = call[c].pc /\ q.pool = call[c].pool
  <2> DEFINE dealt == [call[c] EXCEPT !.left = @ \ {path}]
             took == [dealt EXCEPT !.removed = TRUE]
             failed == [dealt EXCEPT !.failed = TRUE]
             Kept(q) == /\ q \in CallState /\ q.pc = call[c].pc /\ q.pool = call[c].pool
                        /\ q.op = call[c].op /\ q.left = call[c].left \ {path}
                        /\ q.reply = call[c].reply
  <2>1. Kept(dealt) /\ dealt.removed = call[c].removed /\ dealt.failed = call[c].failed
    BY <1>1 DEF CallState
  <2>2. Kept(took) /\ took.removed = TRUE /\ took.failed = call[c].failed
    <3> HIDE DEF dealt
    <3> QED BY <2>1 DEF CallState
  <2>3. Kept(failed) /\ failed.removed = call[c].removed /\ failed.failed = TRUE
    <3> HIDE DEF dealt
    <3> QED BY <2>1 DEF CallState
  <2>4. \/ call' = [call EXCEPT ![c] = took] /\ path \in files /\ files' = files \ {path}
        \/ call' = [call EXCEPT ![c] = dealt] /\ path \notin files /\ files' = files
        \/ call' = [call EXCEPT ![c] = failed] /\ files' = files
    BY <1>1 DEF RemovePath, Become, CallState, fileVars
  <2> HIDE DEF dealt, took, failed
  <2>5. \E q : /\ Kept(q) /\ call' = [call EXCEPT ![c] = q] /\ Dealt(call[c], q, path)
    BY <1>1, <2>1, <2>2, <2>3, <2>4 DEF Dealt
  <2> QED BY <2>5
<1>3. call'[c] = q /\ \A x \in Caller : x # c => call'[x] = call[x]
  BY <1>2 DEF TypeInv, TypeOK
<1>4. Pending(call[c]) /\ Waits(c, p) /\ Shaped(call[c])
  BY <1>1, WaitsPending
<1>5. \A x \in Caller, r \in Pool : Waits(x, r) => Waits(x, r)'
  BY <1>1, <1>2, <1>3 DEF Waits
<1>6. \A r \in Pool : queue[r] \in Seq(Caller)
  BY DEF TypeInv, TypeOK
<1>7. Queued' /\ Carried'
  BY <1>1, <1>5, <1>6 DEF CommandInv, Queued, Carried
<1>8. Shaped(q)
  BY <1>1, <1>2, <1>4 DEF Shaped, Pending, Waits, Dealt
<1>9. \A x \in Caller : Shaped(call[x])'
  BY <1>3, <1>8 DEF CommandInv, Shaped
<1> QED BY <1>2, <1>7, <1>9 DEF CommandInv

(* Nothing else touches a call or a command; when a pool is made or stopped       *)
(* nobody holds the read lock, so there is no command.                          *)
LEMMA ExitCommands ==
    ASSUME TypeInv, CommandInv, NEW p \in Pool, NEW w \in Worker, Exit(p, w)
    PROVE  CommandInv'
<1>1. UNCHANGED <<jobs, call, queue>>
  BY DEF Exit
<1>2. \A r \in Pool, v \in Worker : worker'[r][v].state = "busy" => worker'[r][v] = worker[r][v]
  BY DEF Exit, Set, TypeInv, TypeOK
<1> QED BY <1>1, <1>2 DEF CommandInv, Queued, Carried, Waits, Shaped

LEMMA NoCommands ==
    ASSUME TypeInv, CommandInv, NoReader
    PROVE  /\ \A p \in Pool : queue[p] = <<>>
           /\ \A p \in Pool, w \in Worker : worker[p][w].state # "busy"
<1>1. \A c \in Caller, p \in Pool : ~Waits(c, p)
  BY DEF NoReader, Holds, Waits
<1>2. ASSUME NEW p \in Pool PROVE queue[p] = <<>>
  <2>1. queue[p] \in Seq(Caller)
    BY DEF TypeInv, TypeOK
  <2>2. CASE queue[p] # <<>>
    <3>1. 1 \in 1 .. Len(queue[p]) /\ queue[p][1] \in Caller
      BY <2>1, <2>2
    <3> QED BY <1>1, <3>1 DEF CommandInv, Queued
  <2> QED BY <2>2
<1>3. ASSUME NEW p \in Pool, NEW w \in Worker PROVE worker[p][w].state # "busy"
  BY <1>1 DEF CommandInv, Carried
<1> QED BY <1>2, <1>3

LEMMA ControlCommands ==
    ASSUME TypeInv, CommandInv, NEW k \in Controller,
           StartCalled(k) \/ StopCalled(k) \/ Lock(k) \/ ControlStep(k)
    PROVE  CommandInv' /\ UNCHANGED <<files, call>>
<1>1. UNCHANGED <<files, call, queue>>
  BY DEF StartCalled, StopCalled, Lock, ControlStep, StartNil, StartPool, Assign, StopFirst,
         StopAgain, StopPool, Drained, poolVars, fileVars
<1>2. CASE StartPool(k)
  <2>1. \A p \in Pool, w \in Worker : worker'[p][w].state = "busy" => worker[p][w].state = "busy"
    BY <1>2 DEF StartPool, IdleWorker, TypeInv, TypeOK
  <2>2. NoReader
    BY <1>2 DEF StartPool
  <2>3. Queued' /\ Carried'
    BY <1>1, <2>1, <2>2, NoCommands DEF Queued, Carried
  <2> QED BY <1>1, <2>3 DEF CommandInv, Shaped
<1>3. CASE StopPool(k)
  <2>1. NoReader /\ UNCHANGED worker
    BY <1>3 DEF StopPool
  <2>2. Queued' /\ Carried'
    BY <1>1, <2>1, NoCommands DEF Queued, Carried
  <2> QED BY <1>1, <2>2 DEF CommandInv, Shaped
<1>4. CASE UNCHANGED <<jobs, worker>>
  BY <1>1, <1>4 DEF CommandInv, Queued, Carried, Waits, Shaped
<1>5. ASSUME ~StartPool(k), ~StopPool(k) PROVE UNCHANGED <<jobs, worker>>
  BY <1>5 DEF StartCalled, StopCalled, Lock, ControlStep, StartNil, Assign, StopFirst,
              StopAgain, Drained, poolVars
<1> QED BY <1>1, <1>2, <1>3, <1>4, <1>5

LEMMA CommandInvInit == Init => CommandInv
<1>1. ASSUME Init PROVE /\ \A p \in Pool : Len(queue[p]) = 0
                        /\ \A p \in Pool, w \in Worker : worker[p][w].state = "none"
  BY <1>1 DEF Init
<1>2. ASSUME Init PROVE Queued /\ Carried
  BY <1>1, <1>2 DEF Queued, Carried
<1>3. ASSUME Init, NEW c \in Caller PROVE Shaped(call[c])
  <2>1. call[c] = NewCall("none", "idle", {}, {}, FALSE, "none")
    BY <1>3 DEF Init
  <2> QED BY <2>1 DEF NewCall, Shaped
<1> QED BY <1>2, <1>3 DEF CommandInv

LEMMA CommandInvNext == TypeInv /\ CommandInv /\ [Next]_vars => CommandInv'
<1> SUFFICES ASSUME TypeInv, CommandInv, [Next]_vars PROVE CommandInv'
  OBVIOUS
<1>1. CASE (\E p \in Path : Write(p)) \/ (\E p \in StagingPath : Age(p)) \/ UNCHANGED vars
  <2>1. UNCHANGED <<call, jobs, queue, worker>>
    BY <1>1 DEF Write, Age, vars, poolVars
  <2> QED BY <2>1 DEF CommandInv, Queued, Carried, Waits, Shaped
<1>2. ASSUME NEW c \in Caller, Arrive(c) \/ Cancel(c) \/ RLock(c) \/ CallStep(c)
      PROVE  CommandInv'
  <2>1. Acts(c)
    BY <1>2, ArriveActs, CancelActs, RLockActs, CallActs
  <2>2. UNCHANGED <<jobs, queue, worker>>
    BY <1>2 DEF Arrive, Cancel, RLock, CallStep, FindStale, SweepDone, OpenRootFails,
                SendCancelled, Receive, poolVars
  <2> QED BY <2>1, <2>2, ActsCommands
<1>3. ASSUME NEW c \in Caller, Send(c) PROVE CommandInv'
  BY <1>3, SendCommands
<1>4. ASSUME NEW p \in Pool, NEW w \in Worker, Serve(p, w) PROVE CommandInv'
  BY <1>4, TakeCommands, AnswerCommands, RemoveCommands, ExitCommands DEF Serve
<1>5. ASSUME NEW k \in Controller, StartCalled(k) \/ StopCalled(k) \/ Lock(k) \/ ControlStep(k)
      PROVE  CommandInv'
  BY <1>5, ControlCommands
<1> QED BY <1>1, <1>2, <1>3, <1>4, <1>5 DEF Next

LEMMA CommandInvariant == Spec => []CommandInv
BY CommandInvInit, CommandInvNext, VacuumTypeInvariant, PTL DEF Spec

-----------------------------------------------------------------------------
(* Nobody waits for ever *)

(* Each caller that waits has its command in a channel or with a worker. *)
InPool(c, p) ==
    \/ \E i \in 1 .. Len(queue[p]) : queue[p][i] = c
    \/ \E w \in Worker : Busy(p, w, c)
Served == \A c \in Caller : call[c].pc = "wait" => \E p \in Pool : InPool(c, p)

(* A pool that was made has its workers, a pool whose end is awaited is not the   *)
(* current one, and a stop that others wait for is on its way.                  *)
Manned == \A p \in Pool, w \in Worker : worker[p][w].state = "none" <=> p > started
Draining == \A k \in Controller : ctl[k].pc = "drain" => jobs # ctl[k].pool
Underway ==
    \A p \in Pool : once[p] = "running" =>
        \E k \in Controller : ctl[k].pool = p /\ ctl[k].pc \in {"stop", "stopIn", "drain"}

ServiceInv == Served /\ Manned /\ Draining /\ Underway

LEMMA ServiceInvInit == Init => ServiceInv
<1> SUFFICES ASSUME Init PROVE ServiceInv
  OBVIOUS
<1>1. Served
  BY DEF Init, NewCall, Served
<1>2. Manned
  BY VacuumAssumption DEF Init, Manned, Pool
<1>3. Draining /\ Underway
  BY DEF Init, Draining, Underway
<1> QED BY <1>1, <1>2, <1>3 DEF ServiceInv

LEMMA SendServed ==
    ASSUME TypeInv, CommandInv, Served, NEW c \in Caller, Send(c)
    PROVE  Served'
<1>0. PICK p \in Pool : p = call[c].pool
  BY DEF TypeInv, TypeOK, Send
<1>1. queue[p] \in Seq(Caller) /\ worker' = worker
  BY DEF TypeInv, TypeOK, Send
<1>2. /\ queue'[p] = Append(queue[p], c)
      /\ \A r \in Pool : r # p => queue'[r] = queue[r]
  BY <1>0 DEF Send, TypeInv, TypeOK
<1>3. \A x \in Caller : x # c => call'[x] = call[x]
  BY DEF Send, Become, TypeInv, TypeOK
<1>4. /\ Len(queue'[p]) = Len(queue[p]) + 1 /\ queue'[p][Len(queue[p]) + 1] = c
      /\ \A i \in 1 .. Len(queue[p]) : i \in 1 .. Len(queue'[p]) /\ queue'[p][i] = queue[p][i]
      /\ Len(queue[p]) + 1 \in 1 .. Len(queue'[p])
  BY <1>1, <1>2
<1>5. InPool(c, p)'
  BY <1>4 DEF InPool
<1>6. ASSUME NEW x \in Caller, NEW r \in Pool, InPool(x, r) PROVE InPool(x, r)'
  <2>1. CASE \E i \in 1 .. Len(queue[r]) : queue[r][i] = x
    BY <1>2, <1>4, <2>1 DEF InPool
  <2>2. CASE \E w \in Worker : Busy(r, w, x)
    BY <1>1, <2>2 DEF InPool, Busy
  <2> QED BY <1>6, <2>1, <2>2 DEF InPool
<1> QED BY <1>1, <1>3, <1>5, <1>6 DEF Served

LEMMA TakeServed ==
    ASSUME TypeInv, Served, NEW p \in Pool, NEW w \in Worker, Take(p, w)
    PROVE  Served'
<1>1. /\ queue[p] \in Seq(Caller) /\ queue[p] # <<>> /\ call' = call
      /\ worker[p][w] = IdleWorker
  BY DEF Take, TypeInv, TypeOK
<1>2. /\ queue'[p] = Tail(queue[p])
      /\ \A r \in Pool : r # p => queue'[r] = queue[r]
  BY DEF Take, TypeInv, TypeOK
<1>3. /\ worker'[p][w] = [state |-> "busy", cmd |-> queue[p][1]]
      /\ \A r \in Pool, v \in Worker : r # p \/ v # w => worker'[r][v] = worker[r][v]
  BY <1>1 DEF Take, Set, TypeInv, TypeOK
<1>4. ASSUME NEW x \in Caller, NEW r \in Pool, InPool(x, r) PROVE InPool(x, r)'
  <2>1. CASE r = p /\ \E i \in 1 .. Len(queue[p]) : queue[p][i] = x
    <3>1. PICK i \in 1 .. Len(queue[p]) : queue[p][i] = x
      BY <2>1
    <3>2. CASE i = 1
      BY <1>3, <2>1, <3>1, <3>2 DEF InPool, Busy
    <3>3. CASE i # 1
      <4>1. i - 1 \in 1 .. Len(queue'[p]) /\ queue'[p][i - 1] = queue[p][i]
        BY <1>1, <1>2, <3>3
      <4> QED BY <2>1, <3>1, <4>1 DEF InPool
    <3> QED BY <3>2, <3>3
  <2>2. CASE r # p /\ \E i \in 1 .. Len(queue[r]) : queue[r][i] = x
    BY <1>2, <2>2 DEF InPool
  <2>3. CASE \E v \in Worker : Busy(r, v, x)
    <3>1. PICK v \in Worker : Busy(r, v, x)
      BY <2>3
    <3>2. r # p \/ v # w
      BY <1>1, <3>1 DEF Busy, IdleWorker
    <3> QED BY <1>3, <3>1, <3>2 DEF InPool, Busy
  <2> QED BY <1>4, <2>1, <2>2, <2>3 DEF InPool
<1> QED BY <1>1, <1>4 DEF Served

LEMMA AnswerServed ==
    ASSUME TypeInv, Served, NEW p \in Pool, NEW w \in Worker, NEW c \in Caller,
           SendResult(p, w, c)
    PROVE  Served'
<1>1. /\ call[c] \in CallState /\ Busy(p, w, c) /\ queue' = queue
      /\ call' = [call EXCEPT ![c] = [call[c] EXCEPT !.pc = "answered"]]
  BY DEF TypeInv, TypeOK, SendResult, Become
<1>2. call'[c].pc = "answered" /\ \A x \in Caller : x # c => call'[x] = call[x]
  BY <1>1 DEF TypeInv, TypeOK, CallState
<1>3. \A r \in Pool, v \in Worker : r # p \/ v # w => worker'[r][v] = worker[r][v]
  BY DEF SendResult, Set, TypeInv, TypeOK
<1>4. ASSUME NEW x \in Caller, x # c, NEW r \in Pool, InPool(x, r) PROVE InPool(x, r)'
  <2>1. CASE \E i \in 1 .. Len(queue[r]) : queue[r][i] = x
    BY <1>1, <2>1 DEF InPool
  <2>2. CASE \E v \in Worker : Busy(r, v, x)
    <3>1. PICK v \in Worker : Busy(r, v, x)
      BY <2>2
    <3>2. r # p \/ v # w
      BY <1>1, <1>4, <3>1 DEF Busy
    <3> QED BY <1>3, <3>1, <3>2 DEF InPool, Busy
  <2> QED BY <1>4, <2>1, <2>2 DEF InPool
<1> QED BY <1>2, <1>4 DEF Served

LEMMA ExitServed ==
    ASSUME TypeInv, Served, NEW p \in Pool, NEW w \in Worker, Exit(p, w)
    PROVE  Served'
<1>1. UNCHANGED <<call, queue>> /\ worker[p][w] = IdleWorker
  BY DEF Exit
<1>2. \A r \in Pool, v \in Worker : r # p \/ v # w => worker'[r][v] = worker[r][v]
  BY DEF Exit, Set, TypeInv, TypeOK
<1>3. ASSUME NEW x \in Caller, NEW r \in Pool, InPool(x, r) PROVE InPool(x, r)'
  <2>1. CASE \E i \in 1 .. Len(queue[r]) : queue[r][i] = x
    BY <1>1, <2>1 DEF InPool
  <2>2. CASE \E v \in Worker : Busy(r, v, x)
    <3>1. PICK v \in Worker : Busy(r, v, x)
      BY <2>2
    <3>2. r # p \/ v # w
      BY <1>1, <3>1 DEF Busy, IdleWorker
    <3> QED BY <1>2, <3>1, <3>2 DEF InPool, Busy
  <2> QED BY <1>3, <2>1, <2>2 DEF InPool
<1> QED BY <1>1, <1>3 DEF Served

LEMMA RemoveServed ==
    ASSUME TypeInv, CommandInv, Served, NEW p \in Pool, NEW w \in Worker, NEW c \in Caller,
           NEW path \in Path, RemovePath(p, w, c, path)
    PROVE  Served'
<1>1. Busy(p, w, c) /\ UNCHANGED <<queue, worker>>
  BY DEF RemovePath, poolVars
<1>2. \A x \in Caller : x # c => call'[x] = call[x]
  BY DEF RemovePath, Become, TypeInv, TypeOK
<1>3. InPool(c, p)
  BY <1>1 DEF InPool
<1> QED BY <1>1, <1>2, <1>3 DEF Served, InPool, Busy

LEMMA ServedNext ==
    ASSUME TypeInv, CommandInv, Served, [Next]_vars
    PROVE  Served'
<1>1. CASE (\E p \in Path : Write(p)) \/ (\E p \in StagingPath : Age(p)) \/ UNCHANGED vars
  <2>1. UNCHANGED <<call, queue, worker>>
    BY <1>1 DEF Write, Age, vars, poolVars
  <2> QED BY <2>1 DEF Served, InPool, Busy
<1>2. ASSUME NEW c \in Caller, Arrive(c) \/ Cancel(c) \/ RLock(c) \/ CallStep(c)
      PROVE  Served'
  <2>1. Acts(c)
    BY <1>2, ArriveActs, CancelActs, RLockActs, CallActs
  <2>2. UNCHANGED <<queue, worker>>
    BY <1>2 DEF Arrive, Cancel, RLock, CallStep, FindStale, SweepDone, OpenRootFails,
                SendCancelled, Receive, poolVars
  <2>3. \A x \in Caller : call'[x].pc = "wait" => call[x].pc = "wait"
    BY <2>1 DEF Acts, TypeInv, TypeOK
  <2> QED BY <2>2, <2>3 DEF Served, InPool, Busy
<1>3. ASSUME NEW c \in Caller, Send(c) PROVE Served'
  BY <1>3, SendServed
<1>4. ASSUME NEW p \in Pool, NEW w \in Worker, Serve(p, w) PROVE Served'
  BY <1>4, TakeServed, AnswerServed, RemoveServed, ExitServed DEF Serve
<1>5. ASSUME NEW k \in Controller, StartCalled(k) \/ StopCalled(k) \/ Lock(k) \/ ControlStep(k)
      PROVE  Served'
  <2>1. UNCHANGED <<call, queue>>
    BY <1>5 DEF StartCalled, StopCalled, Lock, ControlStep, StartNil, StartPool, Assign,
                StopFirst, StopAgain, StopPool, Drained, poolVars
  <2>2. CASE StartPool(k)
    <3>1. \A c \in Caller : call[c].pc # "wait"
      BY <2>2 DEF StartPool, NoReader, Holds
    <3> QED BY <2>1, <3>1 DEF Served
  <2>3. CASE UNCHANGED worker
    BY <2>1, <2>3 DEF Served, InPool, Busy
  <2> QED BY <1>5, <2>2, <2>3 DEF StartCalled, StopCalled, Lock, ControlStep, StartNil, Assign,
                                  StopFirst, StopAgain, StopPool, Drained, poolVars
<1> QED BY <1>1, <1>2, <1>3, <1>4, <1>5 DEF Next

LEMMA MannedNext ==
    ASSUME TypeInv, Manned, [Next]_vars
    PROVE  Manned'
<1>1. CASE UNCHANGED <<worker, started>>
  BY <1>1 DEF Manned
<1>2. ASSUME NEW p \in Pool, NEW w \in Worker, Take(p, w) \/ Exit(p, w)
      PROVE  Manned'
  <2>1. started' = started /\ worker[p][w].state # "none" /\ worker'[p][w].state # "none"
    BY <1>2 DEF Take, Exit, Set, IdleWorker, TypeInv, TypeOK
  <2>2. \A r \in Pool, v \in Worker : r # p \/ v # w => worker'[r][v] = worker[r][v]
    BY <1>2 DEF Take, Exit, Set, TypeInv, TypeOK
  <2> QED BY <2>1, <2>2 DEF Manned
<1>3. ASSUME NEW p \in Pool, NEW w \in Worker, NEW c \in Caller, SendResult(p, w, c)
      PROVE  Manned'
  <2>1. started' = started /\ worker[p][w].state # "none" /\ worker'[p][w].state # "none"
    BY <1>3 DEF SendResult, Busy, Set, IdleWorker, TypeInv, TypeOK
  <2>2. \A r \in Pool, v \in Worker : r # p \/ v # w => worker'[r][v] = worker[r][v]
    BY <1>3 DEF SendResult, Set, TypeInv, TypeOK
  <2> QED BY <2>1, <2>2 DEF Manned
<1>4. ASSUME NEW k \in Controller, StartPool(k) PROVE Manned'
  <2>1. started \in Nat /\ started' = started + 1
    BY <1>4, VacuumAssumption DEF StartPool, TypeInv, TypeOK
  <2>2. worker' = [worker EXCEPT ![started + 1] = [w \in Worker |-> IdleWorker]]
    BY <1>4, <2>1 DEF StartPool
  <2>3. ASSUME NEW p \in Pool, NEW w \in Worker
        PROVE  worker'[p][w].state = "none" <=> p > started'
    <3>1. CASE p = started + 1
      BY <2>1, <2>2, <3>1 DEF IdleWorker, TypeInv, TypeOK
    <3>2. CASE p # started + 1
      <4>1. worker'[p] = worker[p]
        BY <2>2, <3>2 DEF TypeInv, TypeOK
      <4>2. p \in Nat
        BY VacuumAssumption DEF Pool
      <4> QED BY <2>1, <3>2, <4>1, <4>2 DEF Manned
    <3> QED BY <3>1, <3>2
  <2> QED BY <2>3 DEF Manned
<1>5. ASSUME NEW c \in Caller, Arrive(c) \/ Cancel(c) \/ RLock(c) \/ Send(c) \/ CallStep(c)
      PROVE  UNCHANGED <<worker, started>>
  BY <1>5 DEF Arrive, Cancel, RLock, Send, CallStep, FindStale, SweepDone, OpenRootFails,
              SendCancelled, Receive, poolVars
<1>6. ASSUME NEW p \in Pool, NEW w \in Worker, Serve(p, w) PROVE Manned'
  <2>1. ASSUME NEW c \in Caller, NEW path \in Path, RemovePath(p, w, c, path)
        PROVE  UNCHANGED <<worker, started>>
    BY <2>1 DEF RemovePath, poolVars
  <2> QED BY <1>1, <1>2, <1>3, <1>6, <2>1 DEF Serve
<1>7. ASSUME NEW k \in Controller, StartCalled(k) \/ StopCalled(k) \/ Lock(k) \/ ControlStep(k)
      PROVE  Manned'
  <2>1. StartPool(k) \/ UNCHANGED <<worker, started>>
    BY <1>7 DEF StartCalled, StopCalled, Lock, ControlStep, StartNil, Assign, StopFirst,
                StopAgain, StopPool, Drained, poolVars
  <2> QED BY <1>1, <1>4, <2>1
<1>8. CASE (\E p \in Path : Write(p)) \/ (\E p \in StagingPath : Age(p)) \/ UNCHANGED vars
  BY <1>1, <1>8 DEF Write, Age, vars, poolVars
<1> QED BY <1>1, <1>5, <1>6, <1>7, <1>8 DEF Next

(* What a step of a controller makes of the stops. *)
LEMMA ControlService ==
    ASSUME TypeInv, PoolInv, Draining, Underway, NEW k \in Controller,
           StartCalled(k) \/ StopCalled(k) \/ Lock(k) \/ ControlStep(k)
    PROVE  Draining' /\ Underway'
<1>1. /\ ctl[k] \in ControlState /\ jobs \in Nat /\ started \in Nat
      /\ stopVacuum \in Pool \cup {0}
  BY VacuumAssumption DEF TypeInv, TypeOK, Pool
<1>2. \A j \in Controller \ {k} : ctl'[j] = ctl[j]
  BY ControlEffect DEF TypeInv
<1>3. CASE StartPool(k)
  <2>1. /\ jobs' = started + 1 /\ UNCHANGED once /\ ctl[k].pc = "startIn" /\ ctl'[k].pc = "assign"
    BY <1>3 DEF StartPool, stopVars, Control, TypeInv, TypeOK
  <2>2. \A j \in Controller : ctl[j].pc = "drain" => ctl[j].pool <= started
    BY DEF PoolInv, Numbered, Stopping
  <2>3. \A j \in Controller : ctl[j].pool \in Nat
    BY VacuumAssumption DEF TypeInv, TypeOK, ControlState, Pool
  <2>4. Draining'
    BY <1>1, <1>2, <2>1, <2>2, <2>3 DEF Draining
  <2>5. Underway'
    BY <1>2, <2>1 DEF Underway
  <2> QED BY <2>4, <2>5
<1>4. CASE StopPool(k)
  <2>1. /\ jobs' = IF jobs = ctl[k].pool THEN 0 ELSE jobs
        /\ UNCHANGED once /\ ctl[k].pc = "stopIn"
        /\ ctl'[k] = [pc |-> "drain", pool |-> ctl[k].pool]
    BY <1>4 DEF StopPool, stopVars, Control, TypeInv, TypeOK
  <2>2. \A j \in Controller : ctl[j].pc \in Stopping => ctl[j].pool # 0
    BY DEF PoolInv, Numbered
  <2>3. Draining'
    BY <1>2, <2>1, <2>2 DEF Draining, Stopping
  <2>4. Underway'
    BY <1>2, <2>1 DEF Underway
  <2> QED BY <2>3, <2>4
<1>5. CASE Drained(k)
  <2>1. /\ jobs' = jobs /\ ctl[k].pc = "drain" /\ ctl'[k].pc = "idle"
        /\ once' = [once EXCEPT ![ctl[k].pool] = "done"]
    BY <1>5 DEF Drained, poolVars, Control, TypeInv, TypeOK
  <2>2. Draining'
    BY <1>2, <2>1 DEF Draining
  <2>3. \A p \in Pool : once'[p] = "running" => once[p] = "running" /\ p # ctl[k].pool
    BY <2>1 DEF TypeInv, TypeOK
  <2>4. Underway'
    BY <1>2, <2>3 DEF Underway
  <2> QED BY <2>2, <2>4
<1>6. CASE StopFirst(k)
  <2>1. /\ jobs' = jobs /\ ctl[k].pc = "once"
        /\ ctl'[k] = [pc |-> "stop", pool |-> ctl[k].pool]
        /\ once' = [once EXCEPT ![ctl[k].pool] = "running"]
    BY <1>6 DEF StopFirst, poolVars, Control, TypeInv, TypeOK
  <2>2. Draining'
    BY <1>2, <2>1 DEF Draining
  <2>3. \A p \in Pool : once'[p] = "running" => once[p] = "running" \/ p = ctl[k].pool
    BY <2>1 DEF TypeInv, TypeOK
  <2>4. Underway'
    BY <1>2, <2>1, <2>3 DEF Underway
  <2> QED BY <2>2, <2>4
<1>7. CASE StartCalled(k) \/ StopCalled(k) \/ Lock(k) \/ StartNil(k) \/ Assign(k) \/ StopAgain(k)
  <2>1. UNCHANGED <<jobs, once>>
    BY <1>7 DEF StartCalled, StopCalled, Lock, StartNil, Assign, StopAgain, poolVars, stopVars
  <2>2. /\ ctl'[k].pc # "drain" /\ ctl[k].pc # "drain"
        /\ ctl[k].pc \in {"stop", "stopIn"} => ctl'[k] = [pc |-> "stopIn", pool |-> ctl[k].pool]
    <3>1. CASE Lock(k)
      BY <3>1 DEF Lock, Control, TypeInv, TypeOK
    <3>2. CASE StartCalled(k) \/ StopCalled(k)
      BY <3>2 DEF StartCalled, StopCalled, Control, TypeInv, TypeOK
    <3>3. CASE StartNil(k) \/ Assign(k) \/ StopAgain(k)
      BY <3>3 DEF StartNil, Assign, StopAgain, Control, TypeInv, TypeOK
    <3> QED BY <1>7, <3>1, <3>2, <3>3
  <2>3. Draining'
    BY <1>2, <2>1, <2>2 DEF Draining
  <2>4. Underway'
    BY <1>2, <2>1, <2>2 DEF Underway
  <2> QED BY <2>3, <2>4
<1> QED BY <1>3, <1>4, <1>5, <1>6, <1>7 DEF ControlStep

LEMMA ServiceInvNext == TypeInv /\ PoolInv /\ CommandInv /\ ServiceInv /\ [Next]_vars => ServiceInv'
<1> SUFFICES ASSUME TypeInv, PoolInv, CommandInv, ServiceInv, [Next]_vars PROVE ServiceInv'
  OBVIOUS
<1>1. Served' /\ Manned'
  BY ServedNext, MannedNext DEF ServiceInv
<1>2. Draining' /\ Underway'
  <2>1. CASE UNCHANGED <<jobs, once, ctl>>
    BY <2>1 DEF ServiceInv, Draining, Underway
  <2>2. ASSUME NEW k \in Controller, StartCalled(k) \/ StopCalled(k) \/ Lock(k) \/ ControlStep(k)
        PROVE  Draining' /\ Underway'
    BY <2>2, ControlService DEF ServiceInv
  <2>3. ASSUME NEW c \in Caller, Arrive(c) \/ Cancel(c) \/ RLock(c) \/ Send(c) \/ CallStep(c)
        PROVE  UNCHANGED <<jobs, once, ctl>>
    BY <2>3 DEF Arrive, Cancel, RLock, Send, CallStep, FindStale, SweepDone, OpenRootFails,
                SendCancelled, Receive, poolVars, stopVars
  <2>4. ASSUME NEW p \in Pool, NEW w \in Worker, Serve(p, w)
        PROVE  UNCHANGED <<jobs, once, ctl>>
    BY <2>4 DEF Serve, Take, SendResult, RemovePath, Exit, poolVars, stopVars
  <2>5. CASE (\E p \in Path : Write(p)) \/ (\E p \in StagingPath : Age(p)) \/ UNCHANGED vars
    BY <2>1, <2>5 DEF Write, Age, vars, poolVars, stopVars
  <2> QED BY <2>1, <2>2, <2>3, <2>4, <2>5 DEF Next
<1> QED BY <1>1, <1>2 DEF ServiceInv

LEMMA ServiceInvariant == Spec => []ServiceInv
BY ServiceInvInit, ServiceInvNext, VacuumTypeInvariant, PoolInvariant, CommandInvariant, PTL DEF Spec

(* The workers of the current pool are all there. *)
LEMMA PoolAtWork ==
    ASSUME TypeInv, PoolInv, ServiceInv, jobs # 0
    PROVE  jobs \in Pool /\ \A w \in Worker : worker[jobs][w].state \in {"idle", "busy"}
<1>1. jobs \in Pool /\ jobs <= started /\ jobs \in Nat /\ started \in Nat
  BY VacuumAssumption DEF TypeInv, TypeOK, Pool, PoolInv, Numbered
<1>2. \A w \in Worker : worker[jobs][w] \in WorkerState
  BY <1>1 DEF TypeInv, TypeOK
<1>3. \A w \in Worker : worker[jobs][w].state # "none" /\ worker[jobs][w].state # "exited"
  BY <1>1 DEF ServiceInv, Manned, PoolInv, Exited
<1> QED BY <1>1, <1>2, <1>3 DEF WorkerState

LEMMA WaitingServed ==
    ASSUME TypeInv, PoolInv, CommandInv, ServiceInv
    PROVE  NoCommandLost
<1> SUFFICES ASSUME NEW c \in Caller, call[c].pc = "wait"
             PROVE  /\ call[c].pool = jobs
                    /\ \A w \in Worker : worker[jobs][w].state \in {"idle", "busy"}
                    /\ InPool(c, jobs)
  BY DEF NoCommandLost, InPool
<1>1. PICK p \in Pool : InPool(c, p)
  BY DEF ServiceInv, Served
<1>2. Waits(c, p)
  <2>1. queue[p] \in Seq(Caller)
    BY DEF TypeInv, TypeOK
  <2>2. CASE \E i \in 1 .. Len(queue[p]) : queue[p][i] = c
    BY <2>1, <2>2 DEF CommandInv, Queued
  <2>3. CASE \E w \in Worker : Busy(p, w, c)
    BY <2>3, WaitsPending
  <2> QED BY <1>1, <2>2, <2>3 DEF InPool
<1>3. jobs # 0
  BY <1>2 DEF Waits, Pool
<1> QED BY <1>1, <1>2, <1>3, PoolAtWork DEF Waits

(* If nobody is ready, callers under the lock have all got their answers, so the *)
(* lock is free, so are those who wait for it, and so are the stops.            *)
LEMMA SomebodyReady ==
    ASSUME TypeInv, PoolInv, CommandInv, ServiceInv
    PROVE  NoDeadlock
<1> SUFFICES ASSUME \A c \in Caller : ~CallReady(c),
                    \A p \in Pool, w \in Worker : ~WorkerReady(p, w),
                    \A k \in Controller : ~ControlReady(k)
             PROVE  ~InProgress
  BY DEF NoDeadlock
<1>1. PICK v : v \in Worker
  BY VacuumAssumption
<1>2. Cardinality(Worker) \in Nat /\ Cardinality(Worker) # 0
  BY VacuumAssumption, FS_CardinalityType, FS_EmptySet
<1>3. jobs # 0 =>
         /\ jobs \in Pool /\ queue[jobs] = <<>>
         /\ \A w \in Worker : worker[jobs][w].state # "busy"
  BY <1>1, PoolAtWork DEF WorkerReady
<1>4. \A c \in Caller : call[c].pc # "wait"
  <2> SUFFICES ASSUME NEW c \in Caller, call[c].pc = "wait" PROVE FALSE
    OBVIOUS
  <2>1. /\ call[c].pool = jobs /\ call[c].pool \in Pool
        /\ \/ \E i \in 1 .. Len(queue[jobs]) : queue[jobs][i] = c
           \/ \E w \in Worker : Busy(jobs, w, c)
    BY WaitingServed DEF NoCommandLost, TypeInv, TypeOK
  <2>2. jobs # 0
    BY <2>1 DEF Pool
  <2>3. Len(queue[jobs]) = 0 /\ \A w \in Worker : ~Busy(jobs, w, c)
    BY <1>3, <2>2 DEF Busy
  <2> QED BY <2>1, <2>3
<1>5. \A c \in Caller : call[c].pc # "send"
  <2> SUFFICES ASSUME NEW c \in Caller, call[c].pc = "send" PROVE FALSE
    OBVIOUS
  <2>1. call[c].pool = jobs /\ jobs # 0
    BY DEF TypeInv, SendOnOpen, TypeOK, Pool
  <2>2. Len(queue[call[c].pool]) = 0
    BY <1>3, <2>1
  <2> QED BY <1>2, <2>2 DEF CallReady
<1>6. NoReader
  BY <1>4, <1>5 DEF NoReader, Holds, CallReady
<1>7. ~WriterWaits
  BY <1>6 DEF WriterWaits, ControlReady
<1>8. \A c \in Caller : call[c].pc \in {"idle", "done"}
  <2>1. \A c \in Caller : call[c] \in CallState
    BY DEF TypeInv, TypeOK
  <2> QED BY <1>4, <1>5, <1>7, <2>1 DEF CallReady, CallState
<1>9. \A k \in Controller : ctl[k].pc # "drain"
  <2> SUFFICES ASSUME NEW k \in Controller, ctl[k].pc = "drain" PROVE FALSE
    OBVIOUS
  <2> DEFINE p == ctl[k].pool
  <2>1. p \in Pool /\ p <= started /\ jobs # p /\ started \in Nat /\ p \in Nat
    BY VacuumAssumption
       DEF TypeInv, TypeOK, ControlState, PoolInv, Numbered, Stopping, ServiceInv, Draining, Pool
  <2>2. PICK w \in Worker : worker[p][w].state # "exited"
    BY DEF ControlReady
  <2>3. worker[p][w] \in WorkerState /\ worker[p][w].state # "none"
    BY <2>1 DEF TypeInv, TypeOK, ServiceInv, Manned
  <2>4. worker[p][w].state \in {"idle", "busy"}
    BY <2>2, <2>3 DEF WorkerState
  <2>5. WorkerReady(p, w)
    BY <2>1, <2>4 DEF WorkerReady, Closed
  <2> QED BY <2>1, <2>5
<1>10. \A k \in Controller : ctl[k].pc \in {"idle", "once"}
  <2>1. \A k \in Controller : ctl[k] \in ControlState
    BY DEF TypeInv, TypeOK
  <2> QED BY <1>6, <1>7, <1>9, <2>1 DEF ControlReady, ControlState
<1>11. \A k \in Controller : ctl[k].pc # "once"
  <2> SUFFICES ASSUME NEW k \in Controller, ctl[k].pc = "once" PROVE FALSE
    OBVIOUS
  <2>1. ctl[k].pool \in Pool /\ once[ctl[k].pool] = "running"
    BY DEF TypeInv, TypeOK, ControlState, PoolInv, Numbered, Stopping, ControlReady
  <2> QED BY <1>10, <2>1 DEF ServiceInv, Underway
<1> QED BY <1>8, <1>10, <1>11 DEF InProgress

(* A caller that waits for an answer has its command in the channel of the pool   *)
(* that runs, or with one of its workers, through any number of restarts.       *)
THEOREM NoCommandIsLost == Spec => []NoCommandLost
BY WaitingServed, VacuumTypeInvariant, PoolInvariant, CommandInvariant, ServiceInvariant, PTL

(* Callers, workers and stops never all wait for each other: the vacuum process  *)
(* has no deadlock, with any number of each and any number of restarts.          *)
THEOREM NeverDeadlocked == Spec => []NoDeadlock
BY SomebodyReady, VacuumTypeInvariant, PoolInvariant, CommandInvariant, ServiceInvariant, PTL

-----------------------------------------------------------------------------
(* The refinement *)

(* The step of a caller is one of BlobDeletion, or none. *)
LEMMA EffectImplements ==
    ASSUME TypeInv, NEW c \in Caller, NEW q \in CallState, call' = [call EXCEPT ![c] = q],
           Effect(call[c], q), UNCHANGED <<files, jobs>>
    PROVE  [Deletion!DeletionNext]_(Deletion!DeletionVars)
<1> DEFINE o == call[c]
<1>1. o \in CallState /\ o.op \in {"none", "Delete", "Batch", "Sweep"}
  BY DEF TypeInv, TypeOK, CallState
<1>2. call'[c] = q /\ \A x \in Caller : x # c => call'[x] = call[x]
  BY DEF TypeInv, TypeOK
<1>3. Calls' = [Calls EXCEPT ![c] = View(q)] /\ Calls[c] = View(o)
  BY <1>2 DEF Calls, View
<1>4. Running' = Running /\ files' = files
  BY DEF Running
<1>5. Deletion!Open(c) <=> Pending(o)
  BY <1>1, <1>3 DEF Deletion!Open, Pending, KindOf, View
<1>6. CASE Same(o, q)
  <2>1. View(q) = View(o)
    BY <1>6 DEF Same, View
  <2>2. Calls' = Calls
    BY <1>3, <2>1 DEF Calls
  <2> QED BY <1>4, <2>2 DEF Deletion!DeletionVars
<1>7. CASE Made(o, q)
  <2>1. View(q) = Deletion!Call(KindOf(q.op), q.left, FALSE, q.failed, q.reply)
    BY <1>7 DEF Made, View, Deletion!Call
  <2>2. /\ KindOf(q.op) \in Deletion!Kind \ {"none"} /\ q.left \in SUBSET Path
        /\ q.failed \in BOOLEAN /\ q.reply \in {"none", "failed"}
    BY <1>7 DEF Made, KindOf, Deletion!Kind, CallState
  <2>3. Deletion!Become(c, Deletion!Call(KindOf(q.op), q.left, FALSE, q.failed, q.reply))
    BY <1>3, <2>1 DEF Deletion!Become
  <2>4. ~Deletion!Open(c)
    BY <1>5, <1>7 DEF Made
  <2>5. Deletion!Make(c)
    BY <1>4, <2>2, <2>3, <2>4 DEF Deletion!Make
  <2> QED BY <2>5 DEF Deletion!DeletionNext
<1>8. CASE Found(o, q)
  <2>1. View(q) = [View(o) EXCEPT !.left = q.left, !.failed = o.failed \/ q.failed]
    <3> DEFINE v == View(o)
               w == [v EXCEPT !.left = q.left, !.failed = o.failed \/ q.failed]
    <3>1. v = [kind |-> KindOf(o.op), left |-> o.left, removed |-> o.removed,
               failed |-> o.failed, verdict |-> o.reply]
      BY DEF View
    <3>2. w = [v EXCEPT !.left = q.left, !.failed = o.failed \/ q.failed]
      OBVIOUS
    <3>3. /\ q.op = o.op /\ q.removed = o.removed /\ q.reply = o.reply
          /\ q.failed = (o.failed \/ q.failed)
      BY <1>1, <1>8 DEF Found, Pending, CallState
    <3> HIDE DEF v, w
    <3>4. View(q) = w
      BY <3>1, <3>2, <3>3 DEF View
    <3> QED BY <3>4 DEF v, w
  <2>2. Calls[c].failed = o.failed
    BY <1>3 DEF View
  <2>3. Deletion!Become(c, [Calls[c] EXCEPT !.left = q.left, !.failed = @ \/ q.failed])
    BY <1>3, <2>1, <2>2 DEF Deletion!Become
  <2>4. Calls[c].kind = "sweep" /\ Deletion!Open(c)
    BY <1>3, <1>5, <1>8 DEF Found, View, KindOf
  <2>5. q.left \in SUBSET Path /\ q.failed \in BOOLEAN
    BY DEF CallState
  <2>6. Deletion!Find(c)
    BY <1>4, <2>3, <2>4, <2>5 DEF Deletion!Find
  <2> QED BY <2>6 DEF Deletion!DeletionNext
<1>9. ASSUME Pending(o)
      PROVE  Deletion!Verdict(KindOf(o.op), o.removed, o.failed) = Reply(o)
  BY <1>1, <1>9 DEF Pending, KindOf, Deletion!Verdict, Reply
<1>10. CASE Missed(o, q)
  <2>1. View(q) = [View(o) EXCEPT !.left = {}, !.verdict = q.reply]
    <3> DEFINE v == View(o)
               w == [v EXCEPT !.left = {}, !.verdict = q.reply]
    <3>1. v = [kind |-> KindOf(o.op), left |-> o.left, removed |-> o.removed,
               failed |-> o.failed, verdict |-> o.reply]
      BY DEF View
    <3>2. w = [v EXCEPT !.left = {}, !.verdict = q.reply]
      OBVIOUS
    <3>3. /\ q.op = o.op /\ q.left = {} /\ q.removed = o.removed /\ q.failed = o.failed
      BY <1>10 DEF Missed
    <3> HIDE DEF v, w
    <3>4. View(q) = w
      BY <3>1, <3>2, <3>3 DEF View
    <3> QED BY <3>4 DEF v, w
  <2>2. Deletion!Become(c, [Calls[c] EXCEPT !.left = {}, !.verdict = q.reply])
    BY <1>3, <2>1 DEF Deletion!Become
  <2>3. q.reply \in {"none", Deletion!Verdict(Calls[c].kind, Calls[c].removed, Calls[c].failed)}
    BY <1>3, <1>9, <1>10 DEF Missed, View
  <2>4. Deletion!Open(c) /\ Running /\ Calls[c].left \cap files = {}
    BY <1>3, <1>5, <1>10 DEF Missed, View, Running
  <2>5. Deletion!MissAll(c)
    BY <1>4, <2>2, <2>3, <2>4 DEF Deletion!MissAll
  <2> QED BY <2>5 DEF Deletion!DeletionNext
<1>11. CASE GivenUp(o, q)
  <2>1. View(q) = [View(o) EXCEPT !.left = {}, !.failed = TRUE, !.verdict = q.reply]
    <3> DEFINE v == View(o)
               w == [v EXCEPT !.left = {}, !.failed = TRUE, !.verdict = q.reply]
    <3>1. v = [kind |-> KindOf(o.op), left |-> o.left, removed |-> o.removed,
               failed |-> o.failed, verdict |-> o.reply]
      BY DEF View
    <3>2. w = [v EXCEPT !.left = {}, !.failed = TRUE, !.verdict = q.reply]
      OBVIOUS
    <3>3. /\ q.op = o.op /\ q.left = {} /\ q.removed = o.removed /\ q.failed = TRUE
      BY <1>11 DEF GivenUp
    <3> HIDE DEF v, w
    <3>4. View(q) = w
      BY <3>1, <3>2, <3>3 DEF View
    <3> QED BY <3>4 DEF v, w
  <2>2. Deletion!Become(c, [Calls[c] EXCEPT !.left = {}, !.failed = TRUE, !.verdict = q.reply])
    BY <1>3, <2>1 DEF Deletion!Become
  <2>3. /\ q.reply \in {"none", "failed"} /\ Deletion!Open(c)
        /\ Calls[c].kind = "sweep" \/ ~Calls[c].removed
    BY <1>3, <1>5, <1>11 DEF GivenUp, View, KindOf
  <2>4. Deletion!GiveUp(c)
    BY <1>4, <2>2, <2>3 DEF Deletion!GiveUp
  <2> QED BY <2>4 DEF Deletion!DeletionNext
<1>12. CASE Finished(o, q)
  <2>1. View(q) = [View(o) EXCEPT !.verdict = Reply(o)]
    BY <1>12 DEF Finished, View
  <2>2. Reply(o) = Deletion!Verdict(Calls[c].kind, Calls[c].removed, Calls[c].failed)
    BY <1>3, <1>9, <1>12 DEF Finished, View
  <2>3. Deletion!Become(c, [Calls[c] EXCEPT !.verdict = Reply(o)])
    BY <1>3, <2>1 DEF Deletion!Become
  <2>4. Deletion!Open(c) /\ Calls[c].left = {}
    BY <1>3, <1>5, <1>12 DEF Finished, View
  <2>5. Deletion!Finish(c)
    BY <1>4, <2>2, <2>3, <2>4 DEF Deletion!Finish
  <2> QED BY <2>5 DEF Deletion!DeletionNext
<1> QED BY <1>6, <1>7, <1>8, <1>10, <1>11, <1>12 DEF Effect

(* A worker deals with a path while its pool is the current one. *)
LEMMA DealtImplements ==
    ASSUME TypeInv, CommandInv, NEW p \in Pool, NEW w \in Worker, NEW c \in Caller,
           NEW path \in Path, RemovePath(p, w, c, path)
    PROVE  Deletion!Deal(c, path)
<1> DEFINE o == call[c]
<1>1. PICK q \in CallState : call' = [call EXCEPT ![c] = q] /\ Dealt(o, q, path)
  BY RemoveCommands
<1>2. call'[c] = q /\ \A x \in Caller : x # c => call'[x] = call[x]
  BY <1>1 DEF TypeInv, TypeOK
<1>3. Calls' = [Calls EXCEPT ![c] = View(q)] /\ Calls[c] = View(o)
  BY <1>1, <1>2 DEF Calls, View
<1>4. o.op \in {"none", "Delete", "Batch", "Sweep"} /\ Pending(o) /\ Waits(c, p)
  BY WaitsPending DEF RemovePath, TypeInv, TypeOK, CallState
<1>5. Running' = Running /\ Running
  BY <1>4 DEF RemovePath, poolVars, Running, Waits, Pool
<1>6. Deletion!Open(c) /\ path \in Calls[c].left
  BY <1>1, <1>3, <1>4 DEF Deletion!Open, Pending, KindOf, View, Dealt
<1>7. CASE path \in files /\ files' = files \ {path} /\ q.removed = TRUE /\ q.failed = o.failed
  <2>1. View(q) = [View(o) EXCEPT !.left = o.left \ {path}, !.removed = TRUE]
    <3> DEFINE v == View(o)
               u == [v EXCEPT !.left = o.left \ {path}, !.removed = TRUE]
    <3>1. v = [kind |-> KindOf(o.op), left |-> o.left, removed |-> o.removed,
               failed |-> o.failed, verdict |-> o.reply]
      BY DEF View
    <3>2. u = [v EXCEPT !.left = o.left \ {path}, !.removed = TRUE]
      OBVIOUS
    <3> HIDE DEF v, u
    <3>3. View(q) = u
      BY <1>1, <1>7, <3>1, <3>2 DEF Dealt, View
    <3> QED BY <3>3 DEF v, u
  <2>2. Calls[c].left = o.left
    BY <1>3 DEF View
  <2>3. Deletion!Become(c, [Calls[c] EXCEPT !.left = @ \ {path}, !.removed = TRUE])
    BY <1>3, <2>1, <2>2 DEF Deletion!Become
  <2> QED BY <1>5, <1>6, <1>7, <2>3 DEF Deletion!Deal
<1>8. CASE path \notin files /\ files' = files /\ q.removed = o.removed /\ q.failed = o.failed
  <2>1. View(q) = [View(o) EXCEPT !.left = o.left \ {path}]
    <3> DEFINE v == View(o)
               u == [v EXCEPT !.left = o.left \ {path}]
    <3>1. v = [kind |-> KindOf(o.op), left |-> o.left, removed |-> o.removed,
               failed |-> o.failed, verdict |-> o.reply]
      BY DEF View
    <3>2. u = [v EXCEPT !.left = o.left \ {path}]
      OBVIOUS
    <3> HIDE DEF v, u
    <3>3. View(q) = u
      BY <1>1, <1>8, <3>1, <3>2 DEF Dealt, View
    <3> QED BY <3>3 DEF v, u
  <2>2. Calls[c].left = o.left
    BY <1>3 DEF View
  <2>3. Deletion!Become(c, [Calls[c] EXCEPT !.left = @ \ {path}])
    BY <1>3, <2>1, <2>2 DEF Deletion!Become
  <2> QED BY <1>5, <1>6, <1>8, <2>3 DEF Deletion!Deal
<1>9. CASE files' = files /\ q.removed = o.removed /\ q.failed = TRUE
  <2>1. View(q) = [View(o) EXCEPT !.left = o.left \ {path}, !.failed = TRUE]
    <3> DEFINE v == View(o)
               u == [v EXCEPT !.left = o.left \ {path}, !.failed = TRUE]
    <3>1. v = [kind |-> KindOf(o.op), left |-> o.left, removed |-> o.removed,
               failed |-> o.failed, verdict |-> o.reply]
      BY DEF View
    <3>2. u = [v EXCEPT !.left = o.left \ {path}, !.failed = TRUE]
      OBVIOUS
    <3> HIDE DEF v, u
    <3>3. View(q) = u
      BY <1>1, <1>9, <3>1, <3>2 DEF Dealt, View
    <3> QED BY <3>3 DEF v, u
  <2>2. Calls[c].left = o.left
    BY <1>3 DEF View
  <2>3. Deletion!Become(c, [Calls[c] EXCEPT !.left = @ \ {path}, !.failed = TRUE])
    BY <1>3, <2>1, <2>2 DEF Deletion!Become
  <2> QED BY <1>5, <1>6, <1>9, <2>3 DEF Deletion!Deal
<1> QED BY <1>1, <1>7, <1>8, <1>9 DEF Dealt

LEMMA InitImplements == Init => Deletion!DeletionInit
<1> SUFFICES ASSUME Init PROVE Deletion!DeletionInit
  OBVIOUS
<1>1. ASSUME NEW c \in Caller PROVE View(call[c]) = Deletion!Call("none", {}, FALSE, FALSE, "none")
  BY DEF Init, NewCall, View, KindOf, Deletion!Call
<1>2. Calls = [c \in Caller |-> Deletion!Call("none", {}, FALSE, FALSE, "none")]
  BY <1>1 DEF Calls
<1>3. files = {} /\ Running = FALSE
  BY DEF Init, Running
<1> QED BY <1>2, <1>3 DEF Deletion!DeletionInit

LEMMA NextImplements ==
    ASSUME TypeInv, CommandInv, [Next]_vars
    PROVE  [Deletion!DeletionNext]_(Deletion!DeletionVars)
<1>1. CASE \E p \in Path : Write(p)
  <2>1. PICK p \in Path : Write(p)
    BY <1>1
  <2>2. files' = files \cup {p} /\ Running' = Running /\ Calls' = Calls
    BY <2>1 DEF Write, poolVars, Running, Calls
  <2>3. Deletion!Appear(p)
    BY <2>2 DEF Deletion!Appear
  <2> QED BY <2>3 DEF Deletion!DeletionNext
<1>2. CASE UNCHANGED <<files, jobs, call>>
  BY <1>2 DEF Deletion!DeletionVars, Running, Calls
<1>3. CASE (\E p \in StagingPath : Age(p)) \/ UNCHANGED vars
  BY <1>2, <1>3 DEF Age, vars, fileVars, poolVars
<1>4. ASSUME NEW c \in Caller, Arrive(c) \/ Cancel(c) \/ RLock(c) \/ Send(c) \/ CallStep(c)
      PROVE  [Deletion!DeletionNext]_(Deletion!DeletionVars)
  <2>1. UNCHANGED <<files, jobs>>
    BY <1>4 DEF Arrive, Cancel, RLock, Send, CallStep, FindStale, SweepDone, OpenRootFails,
                SendCancelled, Receive, fileVars, poolVars
  <2>2. \E q \in CallState : call' = [call EXCEPT ![c] = q] /\ Effect(call[c], q)
    <3>1. CASE Send(c)
      BY <3>1, SendCommands DEF Effect
    <3>2. CASE Arrive(c) \/ Cancel(c) \/ RLock(c) \/ CallStep(c)
      BY <3>2, ArriveActs, CancelActs, RLockActs, CallActs DEF Acts
    <3> QED BY <1>4, <3>1, <3>2
  <2> QED BY <2>1, <2>2, EffectImplements
<1>5. ASSUME NEW p \in Pool, NEW w \in Worker, Serve(p, w)
      PROVE  [Deletion!DeletionNext]_(Deletion!DeletionVars)
  <2>1. CASE Take(p, w) \/ Exit(p, w)
    BY <1>2, <2>1 DEF Take, Exit, fileVars
  <2>2. ASSUME NEW c \in Caller, SendResult(p, w, c)
        PROVE  [Deletion!DeletionNext]_(Deletion!DeletionVars)
    <3>1. UNCHANGED <<files, jobs>>
      BY <2>2 DEF SendResult, fileVars
    <3> QED BY <2>2, <3>1, AnswerCommands, EffectImplements DEF Effect
  <2>3. ASSUME NEW c \in Caller, NEW path \in Path, RemovePath(p, w, c, path)
        PROVE  [Deletion!DeletionNext]_(Deletion!DeletionVars)
    BY <2>3, DealtImplements DEF Deletion!DeletionNext
  <2> QED BY <1>5, <2>1, <2>2, <2>3 DEF Serve
<1>6. ASSUME NEW k \in Controller, StartCalled(k) \/ StopCalled(k) \/ Lock(k) \/ ControlStep(k)
      PROVE  [Deletion!DeletionNext]_(Deletion!DeletionVars)
  <2>1. files' = files /\ Calls' = Calls
    BY <1>6, ControlCommands DEF Calls
  <2>2. CASE Running' = Running
    BY <2>1, <2>2 DEF Deletion!DeletionVars
  <2>3. CASE Running' = ~Running
    BY <2>1, <2>3 DEF Deletion!DeletionNext, Deletion!Switch
  <2> QED BY <2>2, <2>3 DEF Running
<1> QED BY <1>1, <1>3, <1>4, <1>5, <1>6 DEF Next

(* Whatever workers, locks, channels, cancellations, disk failures, starts and    *)
(* stops do to a deletion, each of its paths is dealt with at most once, while   *)
(* the vacuum process runs, and the answer its caller gets says what became of   *)
(* them (vacuum.go:91-124, :185-258).                                           *)
THEOREM VacuumImplementsDeletion == Spec => ImplementsDeletion
BY InitImplements, NextImplements, VacuumTypeInvariant, CommandInvariant, PTL
   DEF Spec, ImplementsDeletion, Deletion!DeletionSpec
=============================================================================
