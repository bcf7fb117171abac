--------------------------- MODULE VacuumManager ---------------------------
(***************************************************************************)
(* The vacuum process of the file system blob store                        *)
(* (internal/blobstore/fs/vacuum.go, deleter.go): a pool of workers behind *)
(* a channel, started and stopped while other goroutines delete blobs and  *)
(* sweep staging directories.                                              *)
(*                                                                         *)
(* sync.RWMutex, channels, sync.Once and sync.WaitGroup are modelled by    *)
(* what Go guarantees of them: a writer that waits keeps new readers out,  *)
(* and closing a channel lets its receivers drain it.                      *)
(***************************************************************************)
EXTENDS Naturals, Sequences, FiniteSets

CONSTANTS
    Caller,        \* goroutines that delete or sweep
    NoCaller,
    Controller,    \* goroutines that start and stop the process
    Worker,        \* the workers of one pool; the channel holds as many commands
    BlobPath,      \* blobs of one namespace
    StagingDir,    \* staging directories, each the set of its entries
    MaxPools,      \* bound: pools made in one behaviour
    Faults

ASSUME VacuumAssumption ==
    /\ NoCaller \notin Caller
    /\ IsFiniteSet(Controller)
    /\ IsFiniteSet(Worker) /\ Worker # {}
    /\ MaxPools \in Nat
    /\ Faults \subseteq {"disk", "cancel"}

StagingPath == UNION StagingDir
Path == BlobPath \cup StagingPath
Pool == 1 .. MaxPools

VARIABLES
    files,       \* paths at which there is a file
    old,         \* staging files last written more than the grace period ago
    jobs,        \* m.jobs: the current pool, 0 for nil
    started,     \* number of pools made
    queue,       \* commands in the channel of a pool: who sent them
    worker,      \* [state, cmd] of each worker of each pool
    stopVacuum,  \* s.stopVacuum: the pool it stops, 0 for the initial function
    once,        \* the sync.Once of a pool's stop function
    call,        \* each caller
    ctl          \* each controller

fileVars == <<files, old>>
poolVars == <<jobs, started, queue, worker>>
stopVars == <<stopVacuum, once>>
vars == <<fileVars, poolVars, stopVars, call, ctl>>

WorkerState == [state : {"none", "idle", "busy", "exited"}, cmd : Caller \cup {NoCaller}]
IdleWorker == [state |-> "idle", cmd |-> NoCaller]

CallState ==
    [op : {"none", "Delete", "Batch", "Sweep"},
     pc : {"idle", "find", "rlock", "send", "wait", "answered", "done"},
     ctx : BOOLEAN,              \* the context is not cancelled
     left : SUBSET Path,         \* paths of the batch not dealt with
     dirs : SUBSET StagingDir,   \* directories a sweep has still to visit
     pool : Pool \cup {0},       \* the local variable jobs of removeBatch
     removed : BOOLEAN,          \* a path of the call was removed
     failed : BOOLEAN,           \* the call has an error to return
     reply : {"none", "ok", "unknown", "partial", "failed"}]

ControlState ==
    [pc : {"idle", "start", "startIn", "assign", "once", "stop", "stopIn", "drain"},
     pool : Pool \cup {0}]

(* Every variable has its type; the channel that removeBatch sends on is not nil. *)
TypeOK ==
    /\ files \subseteq Path
    /\ old \subseteq StagingPath
    /\ jobs \in Pool \cup {0}
    /\ started \in 0 .. MaxPools
    /\ queue \in [Pool -> Seq(Caller)]
    /\ worker \in [Pool -> [Worker -> WorkerState]]
    /\ stopVacuum \in Pool \cup {0}
    /\ once \in [Pool -> {"fresh", "running", "done"}]
    /\ call \in [Caller -> CallState]
    /\ \A c \in Caller : call[c].pc \in {"send", "wait"} => call[c].pool \in Pool
    /\ ctl \in [Controller -> ControlState]

NewCall(op, pc, left, dirs, failed, reply) ==
    [op |-> op, pc |-> pc, ctx |-> TRUE, left |-> left, dirs |-> dirs, pool |-> 0,
     removed |-> FALSE, failed |-> failed, reply |-> reply]

Init ==
    /\ files = {} /\ old = {}
    /\ jobs = 0 /\ started = 0
    /\ queue = [p \in Pool |-> <<>>]
    /\ worker = [p \in Pool |-> [w \in Worker |-> [state |-> "none", cmd |-> NoCaller]]]
    /\ stopVacuum = 0 /\ once = [p \in Pool |-> "fresh"]
    /\ call = [c \in Caller |-> NewCall("none", "idle", {}, {}, FALSE, "none")]
    /\ ctl = [k \in Controller |-> [pc |-> "idle", pool |-> 0]]

Closed(p) == p <= started /\ jobs # p

-----------------------------------------------------------------------------
(* The read-write mutex m.mu *)

(* Mutant: removeBatch copies m.jobs and unlocks at once. *)
HoldsWhileLoading(c) == FALSE

(* removeBatch holds the read lock from the load of m.jobs to its return. *)
Holds(c) == call[c].pc \in {"send", "wait", "answered"}

WriterWaits == \E k \in Controller : ctl[k].pc \in {"startIn", "stopIn"}

NoReader == \A c \in Caller : ~Holds(c)

-----------------------------------------------------------------------------
(* Files come into being, are written to, and grow old. *)

Write(p) ==
    /\ files' = files \cup {p}
    /\ old' = old \ {p}
    /\ UNCHANGED <<poolVars, stopVars, call, ctl>>

Age(p) ==
    /\ p \in files \ old
    /\ old' = old \cup {p}
    /\ UNCHANGED <<files, poolVars, stopVars, call, ctl>>

-----------------------------------------------------------------------------
(* Deletions and sweeps *)

Become(c, q) == call' = [call EXCEPT ![c] = q]

Reply(q) ==
    CASE q.op = "Delete" /\ ~q.failed -> IF q.removed THEN "ok" ELSE "unknown"
      [] q.op = "Batch" /\ q.failed   -> IF q.removed THEN "partial" ELSE "failed"
      [] q.op = "Batch" /\ ~q.failed  -> "ok"
      [] q.op = "Sweep" /\ ~q.failed  -> "ok"
      [] OTHER -> "failed"

Done(q) == [q EXCEPT !.pc = "done", !.pool = 0, !.ctx = TRUE, !.reply = Reply(q)]

(* removeBatch returns: to the next directory of a sweep, or to the caller. *)
Return(q) ==
    IF q.op = "Sweep" THEN [q EXCEPT !.pc = "find", !.pool = 0, !.left = {}] ELSE Done(q)

GiveUp(q) == Return([q EXCEPT !.left = {}, !.failed = TRUE])

(* DeleteBlob, BatchDeleteBlobs with or without an invalid digest, or           *)
(* VacuumStagingBlobs is called; with a cancelled context it fails at once.     *)
NewCalls ==
    {NewCall("Delete", "rlock", {p}, {}, FALSE, "none") : p \in BlobPath}
    \cup {NewCall("Batch", "rlock", S, {}, invalid, "none") :
              S \in SUBSET BlobPath, invalid \in BOOLEAN}
    \cup {NewCall("Sweep", "find", {}, StagingDir, FALSE, "none")}

Arrive(c) ==
    /\ call[c].pc \in {"idle", "done"}
    /\ \E q \in NewCalls :
          Become(c, q) \/ Become(c, [q EXCEPT !.pc = "done", !.reply = "failed"])
    /\ UNCHANGED <<fileVars, poolVars, stopVars, ctl>>

Cancel(c) ==
    /\ "cancel" \in Faults
    /\ call[c].pc \notin {"idle", "done"} /\ call[c].ctx
    /\ Become(c, [call[c] EXCEPT !.ctx = FALSE])
    /\ UNCHANGED <<fileVars, poolVars, stopVars, ctl>>

(* Mutant: the comparison with the grace period the wrong way round. *)
StaleFresh(dir) == (dir \cap files) \ old

Stale(dir) == dir \cap old

(* The walk of one staging directory; cut short by a cancelled context or by an *)
(* unreadable entry, it keeps what it has found.                                *)
FindStale(c) ==
    /\ call[c].pc = "find"
    /\ \E dir \in call[c].dirs :
          LET visited == [call[c] EXCEPT !.dirs = @ \ {dir}]
              found(S) == IF S = {} THEN visited
                          ELSE [visited EXCEPT !.pc = "rlock", !.left = S]
          IN  \/ Become(c, found(Stale(dir)))
              \/ /\ ~call[c].ctx \/ "disk" \in Faults
                 /\ \E S \in SUBSET Stale(dir), failed \in BOOLEAN :
                       Become(c, [found(S) EXCEPT !.failed = @ \/ failed])
    /\ UNCHANGED <<fileVars, poolVars, stopVars, ctl>>

SweepDone(c) ==
    /\ call[c].pc = "find" /\ call[c].dirs = {}
    /\ Become(c, Done(call[c]))
    /\ UNCHANGED <<fileVars, poolVars, stopVars, ctl>>

(* Mutant: removeBatch does not ask whether the process runs. *)
RLockUnchecked(c) ==
    /\ call[c].pc = "rlock"
    /\ ~WriterWaits
    /\ \/ call[c].left = {} /\ Become(c, Return(call[c]))
       \/ call[c].left # {} /\ Become(c, [call[c] EXCEPT !.pc = "send", !.pool = jobs])
    /\ UNCHANGED <<fileVars, poolVars, stopVars, ctl>>

(* removeBatch takes the read lock and loads m.jobs; without a pool, or without *)
(* a path, it returns.                                                          *)
RLock(c) ==
    /\ call[c].pc = "rlock"
    /\ ~WriterWaits
    /\ \/ jobs = 0 /\ Become(c, GiveUp(call[c]))
       \/ jobs # 0 /\ call[c].left = {} /\ Become(c, Return(call[c]))
       \/ jobs # 0 /\ call[c].left # {}
             /\ Become(c, [call[c] EXCEPT !.pc = "send", !.pool = jobs])
    /\ UNCHANGED <<fileVars, poolVars, stopVars, ctl>>

(* os.OpenRoot fails: the directory is not there, so neither is any path in it; *)
(* or the disk fails.                                                           *)
OpenRootFails(c) ==
    /\ call[c].pc = "send"
    /\ \/ call[c].left \cap files = {} /\ Become(c, Return([call[c] EXCEPT !.left = {}]))
       \/ "disk" \in Faults /\ Become(c, GiveUp(call[c]))
    /\ UNCHANGED <<fileVars, poolVars, stopVars, ctl>>

Send(c) ==
    /\ call[c].pc = "send"
    /\ Len(queue[call[c].pool]) < Cardinality(Worker)
    /\ queue' = [queue EXCEPT ![call[c].pool] = Append(@, c)]
    /\ Become(c, [call[c] EXCEPT !.pc = "wait"])
    /\ UNCHANGED <<fileVars, jobs, started, worker, stopVars, ctl>>

(* The other branch of the select. *)
SendCancelled(c) ==
    /\ call[c].pc = "send" /\ ~call[c].ctx
    /\ Become(c, GiveUp(call[c]))
    /\ UNCHANGED <<fileVars, poolVars, stopVars, ctl>>

(* removeBatch has its result. *)
Receive(c) ==
    /\ call[c].pc = "answered"
    /\ Become(c, Return(call[c]))
    /\ UNCHANGED <<fileVars, poolVars, stopVars, ctl>>

-----------------------------------------------------------------------------
(* Worker w of pool p *)

Set(p, w, s) == worker' = [worker EXCEPT ![p][w] = s]

Take(p, w) ==
    /\ worker[p][w] = IdleWorker
    /\ queue[p] # <<>>
    /\ Set(p, w, [state |-> "busy", cmd |-> Head(queue[p])])
    /\ queue' = [queue EXCEPT ![p] = Tail(@)]
    /\ UNCHANGED <<fileVars, jobs, started, stopVars, call, ctl>>

Busy(p, w, c) == worker[p][w] = [state |-> "busy", cmd |-> c]

(* removeCommandPaths, one path at a time. *)
RemovePath(p, w, c, path) ==
    /\ Busy(p, w, c) /\ path \in call[c].left
    /\ \/ /\ path \in files
          /\ files' = files \ {path} /\ old' = old \ {path}
          /\ Become(c, [call[c] EXCEPT !.left = @ \ {path}, !.removed = TRUE])
       \/ /\ path \notin files
          /\ Become(c, [call[c] EXCEPT !.left = @ \ {path}])
          /\ UNCHANGED fileVars
       \/ /\ "disk" \in Faults
          /\ Become(c, [call[c] EXCEPT !.left = @ \ {path}, !.failed = TRUE])
          /\ UNCHANGED fileVars
    /\ UNCHANGED <<poolVars, stopVars, ctl>>

(* Mutant: a command one of whose paths could not be removed gets no answer. *)
AnswerOnSuccess(p, w, c) ==
    /\ Busy(p, w, c) /\ call[c].left = {}
    /\ Set(p, w, IdleWorker)
    /\ IF call[c].failed THEN UNCHANGED call ELSE Become(c, [call[c] EXCEPT !.pc = "answered"])
    /\ UNCHANGED <<fileVars, jobs, started, queue, stopVars, ctl>>

(* cmd.done <- result, which never blocks: the channel has room for one. *)
SendResult(p, w, c) ==
    /\ Busy(p, w, c) /\ call[c].left = {}
    /\ Set(p, w, IdleWorker)
    /\ Become(c, [call[c] EXCEPT !.pc = "answered"])
    /\ UNCHANGED <<fileVars, jobs, started, queue, stopVars, ctl>>

Exit(p, w) ==
    /\ worker[p][w] = IdleWorker
    /\ Closed(p) /\ queue[p] = <<>>
    /\ Set(p, w, [state |-> "exited", cmd |-> NoCaller])
    /\ UNCHANGED <<fileVars, jobs, started, queue, stopVars, call, ctl>>

-----------------------------------------------------------------------------
(* StartVacuumProcess and StopVacuumProcess, called by controller k *)

Control(k, pc, p) == ctl' = [ctl EXCEPT ![k] = [pc |-> pc, pool |-> p]]

(* Those that may still make a pool. *)
Starting == {k \in Controller : ctl[k].pc \in {"start", "startIn"}}

StartCalled(k) ==
    /\ ctl[k].pc = "idle"
    /\ started + Cardinality(Starting) < MaxPools
    /\ Control(k, "start", 0)
    /\ UNCHANGED <<fileVars, poolVars, stopVars, call>>

(* m.mu.Lock: one writer at a time, and from now on no new reader. *)
Lock(k) ==
    /\ ctl[k].pc \in {"start", "stop"}
    /\ ~WriterWaits
    /\ Control(k, IF ctl[k].pc = "start" THEN "startIn" ELSE "stopIn", ctl[k].pool)
    /\ UNCHANGED <<fileVars, poolVars, stopVars, call>>

(* Mutant: what Start returns is assigned even when it is nil. *)
StartNilAssigned(k) ==
    /\ ctl[k].pc = "startIn" /\ NoReader /\ jobs # 0
    /\ Control(k, "assign", 0)
    /\ UNCHANGED <<fileVars, poolVars, stopVars, call>>

(* VacuumManager.Start returns nil... *)
StartNil(k) ==
    /\ ctl[k].pc = "startIn" /\ NoReader /\ jobs # 0
    /\ Control(k, "idle", 0)
    /\ UNCHANGED <<fileVars, poolVars, stopVars, call>>

(* ...or makes a pool... *)
StartPool(k) ==
    /\ ctl[k].pc = "startIn" /\ NoReader /\ jobs = 0
    /\ started' = started + 1
    /\ jobs' = started'
    /\ worker' = [worker EXCEPT ![started'] = [w \in Worker |-> IdleWorker]]
    /\ Control(k, "assign", started')
    /\ UNCHANGED <<fileVars, queue, stopVars, call>>

(* ...whose stop function StartVacuumProcess puts in a field without a lock. *)
Assign(k) ==
    /\ ctl[k].pc = "assign"
    /\ stopVacuum' = ctl[k].pool
    /\ Control(k, "idle", 0)
    /\ UNCHANGED <<fileVars, poolVars, once, call>>

(* StopVacuumProcess calls what the field holds; the initial function does nothing. *)
StopCalled(k) ==
    /\ ctl[k].pc = "idle" /\ stopVacuum # 0
    /\ Control(k, "once", stopVacuum)
    /\ UNCHANGED <<fileVars, poolVars, stopVars, call>>

(* once.Do: the first call goes on, the others wait until it has returned. *)
StopFirst(k) ==
    /\ ctl[k].pc = "once" /\ once[ctl[k].pool] = "fresh"
    /\ once' = [once EXCEPT ![ctl[k].pool] = "running"]
    /\ Control(k, "stop", ctl[k].pool)
    /\ UNCHANGED <<fileVars, poolVars, stopVacuum, call>>

StopAgain(k) ==
    /\ ctl[k].pc = "once" /\ once[ctl[k].pool] = "done"
    /\ Control(k, "idle", 0)
    /\ UNCHANGED <<fileVars, poolVars, stopVars, call>>

(* Mutant: the channel is not closed. *)
StopUnclosed(k) ==
    /\ ctl[k].pc = "stopIn" /\ NoReader
    /\ Control(k, "drain", ctl[k].pool)
    /\ UNCHANGED <<fileVars, poolVars, stopVars, call>>

(* Under the lock: m.jobs becomes nil and the channel is closed. *)
StopPool(k) ==
    /\ ctl[k].pc = "stopIn" /\ NoReader
    /\ jobs' = IF jobs = ctl[k].pool THEN 0 ELSE jobs
    /\ Control(k, "drain", ctl[k].pool)
    /\ UNCHANGED <<fileVars, started, queue, worker, stopVars, call>>

(* Mutant: no wg.Wait. *)
DrainedUnchecked(k) ==
    /\ ctl[k].pc = "drain"
    /\ once' = [once EXCEPT ![ctl[k].pool] = "done"]
    /\ Control(k, "idle", 0)
    /\ UNCHANGED <<fileVars, poolVars, stopVacuum, call>>

(* wg.Wait *)
Drained(k) ==
    /\ ctl[k].pc = "drain"
    /\ \A w \in Worker : worker[ctl[k].pool][w].state = "exited"
    /\ once' = [once EXCEPT ![ctl[k].pool] = "done"]
    /\ Control(k, "idle", 0)
    /\ UNCHANGED <<fileVars, poolVars, stopVacuum, call>>

-----------------------------------------------------------------------------
Serve(p, w) ==
    \/ Take(p, w)
    \/ \E c \in Caller : SendResult(p, w, c) \/ \E path \in Path : RemovePath(p, w, c, path)
    \/ Exit(p, w)

CallStep(c) ==
    FindStale(c) \/ SweepDone(c) \/ OpenRootFails(c) \/ SendCancelled(c) \/ Receive(c)

ControlStep(k) ==
    StartNil(k) \/ StartPool(k) \/ Assign(k) \/ StopFirst(k) \/ StopAgain(k) \/ StopPool(k)
    \/ Drained(k)

Next ==
    \/ \E p \in Path : Write(p)
    \/ \E p \in StagingPath : Age(p)
    \/ \E c \in Caller : Arrive(c) \/ Cancel(c) \/ RLock(c) \/ Send(c) \/ CallStep(c)
    \/ \E p \in Pool, w \in Worker : Serve(p, w)
    \/ \E k \in Controller : StartCalled(k) \/ StopCalled(k) \/ Lock(k) \/ ControlStep(k)

Spec == Init /\ [][Next]_vars

(* Goroutines are scheduled; Go's mutex and channels starve nobody that waits.  *)
(* Nobody has to write a file, call anything or cancel a context.               *)
Fairness ==
    /\ \A c \in Caller : WF_vars(CallStep(c)) /\ SF_vars(RLock(c)) /\ SF_vars(Send(c))
    /\ \A p \in Pool, w \in Worker : WF_vars(Serve(p, w))
    /\ \A k \in Controller : WF_vars(ControlStep(k)) /\ SF_vars(Lock(k))

FairSpec == Spec /\ Fairness

-----------------------------------------------------------------------------
(* Properties *)

(* No command is ever sent on a closed channel, which would panic: the channel  *)
(* removeBatch loaded is still m.jobs when it sends, whoever stops and restarts *)
(* the process meanwhile (vacuum.go:91-124 against :76-80).                     *)
SendOnOpen == \A c \in Caller : call[c].pc = "send" => call[c].pool = jobs

(* A running pool can be stopped: the field StopVacuumProcess calls holds its   *)
(* stop function, or the StartVacuumProcess that made it is about to store it,  *)
(* however starts and stops overlap (deleter.go:14-23).                         *)
StopReachable ==
    jobs # 0 => \/ stopVacuum = jobs
                \/ \E k \in Controller : ctl[k] = [pc |-> "assign", pool |-> jobs]

(* When a stop function has returned, the workers of its pool have exited and   *)
(* no command is left in its channel (vacuum.go:76-83).                         *)
NoWorkerLeft ==
    \A p \in Pool : once[p] = "done" =>
        /\ queue[p] = <<>>
        /\ \A w \in Worker : worker[p][w].state = "exited"

(* A caller that waits for an answer gets one: its command is in the channel, or *)
(* with a worker that will answer it, of the pool that is running, none of whose *)
(* workers has gone (vacuum.go:76-83, :104-124).                                 *)
NoCommandLost ==
    \A c \in Caller : call[c].pc = "wait" =>
        /\ call[c].pool = jobs
        /\ \A w \in Worker : worker[jobs][w].state \in {"idle", "busy"}
        /\ \/ \E i \in 1 .. Len(queue[jobs]) : queue[jobs][i] = c
           \/ \E w \in Worker : Busy(jobs, w, c)

(* What each goroutine needs to take its next step. *)
CallReady(c) ==
    \/ call[c].pc \in {"find", "answered"}
    \/ call[c].pc = "rlock" /\ ~WriterWaits
    \/ call[c].pc = "send" /\ Len(queue[call[c].pool]) < Cardinality(Worker)

WorkerReady(p, w) ==
    \/ worker[p][w].state = "busy"
    \/ worker[p][w].state = "idle" /\ (queue[p] # <<>> \/ Closed(p))

ControlReady(k) ==
    \/ ctl[k].pc = "assign"
    \/ ctl[k].pc \in {"start", "stop"} /\ ~WriterWaits
    \/ ctl[k].pc \in {"startIn", "stopIn"} /\ NoReader
    \/ ctl[k].pc = "once" /\ once[ctl[k].pool] # "running"
    \/ ctl[k].pc = "drain" /\ \A w \in Worker : worker[ctl[k].pool][w].state = "exited"

InProgress ==
    \/ \E c \in Caller : call[c].pc \notin {"idle", "done"}
    \/ \E k \in Controller : ctl[k].pc # "idle"

(* Callers under the read lock, workers that must answer them, stops that wait    *)
(* for the write lock, for another stop or for workers never all wait for each   *)
(* other: while a call, a start or a stop is in progress somebody can go on,     *)
(* with no new call and no context cancelled (vacuum.go:53-124).                *)
NoDeadlock ==
    InProgress =>
        \/ \E c \in Caller : CallReady(c)
        \/ \E p \in Pool, w \in Worker : WorkerReady(p, w)
        \/ \E k \in Controller : ControlReady(k)

(* The vacuum process as BlobDeletion sees it. *)
KindOf(op) ==
    CASE op = "Delete" -> "one" [] op = "Batch" -> "many" [] op = "Sweep" -> "sweep"
      [] OTHER -> "none"

View(q) ==
    [kind |-> KindOf(q.op), left |-> q.left, removed |-> q.removed, failed |-> q.failed,
     verdict |-> q.reply]
Calls == [c \in Caller |-> View(call[c])]
Running == jobs # 0

Deletion == INSTANCE BlobDeletion WITH
    Client <- Caller, present <- files, running <- Running, calls <- Calls

(* Whatever the pool and its lock do, a call deals with each of its paths once, *)
(* while the process runs, and is answered by what became of them all.          *)
ImplementsDeletion == Deletion!DeletionSpec

(* Every DeleteBlob, BatchDeleteBlobs and VacuumStagingBlobs returns: no command *)
(* goes unanswered, and no call waits for ever for the lock or the channel.      *)
CallsReturn == \A c \in Caller : call[c].pc # "done" /\ call[c].pc # "idle" ~> call[c].pc = "done"

(* Every StartVacuumProcess and StopVacuumProcess returns, under any load of    *)
(* deletions (vacuum.go:53, :76, :83).                                          *)
StopReturns == \A k \in Controller : ctl[k].pc # "idle" ~> ctl[k].pc = "idle"

(* What blobstore/contract.go:84 promises of VacuumStagingBlobs: the staging    *)
(* data removed is older than the grace period, so nothing that was written to  *)
(* after the sweep looked at it (vacuum.go:155) is removed (vacuum.go:160).     *)
RemovesOnlyStale == [][\A p \in StagingPath : p \in files \ files' => p \in old]_vars
=============================================================================
