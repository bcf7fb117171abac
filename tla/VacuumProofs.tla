---------------------------- MODULE VacuumProofs ----------------------------
(***************************************************************************)
(* The safety of VacuumManager, for every number of callers, controllers,  *)
(* workers, paths and pools.                                               *)
(***************************************************************************)
EXTENDS VacuumManager, FiniteSetTheorems, TLAPS

(* The pools still to be made are within the bound of the model. *)
PoolsBounded == started + Cardinality(Starting) <= MaxPools

-----------------------------------------------------------------------------
(* The operators on calls *)

LEMMA DoneType ==
    ASSUME NEW q \in CallState
    PROVE  Done(q) \in CallState /\ Done(q).pc = "done"
BY DEF Done, Reply, CallState

LEMMA ReturnType ==
    ASSUME NEW q \in CallState
    PROVE  Return(q) \in CallState /\ Return(q).pc \in {"find", "done"}
BY DoneType DEF Return, CallState

LEMMA GiveUpType ==
    ASSUME NEW q \in CallState
    PROVE  GiveUp(q) \in CallState /\ GiveUp(q).pc \in {"find", "done"}
<1>1. [q EXCEPT !.left = {}, !.failed = TRUE] \in CallState
  BY DEF CallState
<1> QED BY <1>1, ReturnType DEF GiveUp

LEMMA NewCallsType ==
    ASSUME NEW q \in NewCalls
    PROVE  q \in CallState /\ q.pc \in {"rlock", "find"}
<1> USE DEF NewCall, CallState, Path
<1>1. CASE q \in {NewCall("Delete", "rlock", {p}, {}, FALSE, "none") : p \in BlobPath}
  <2>1. PICK p \in BlobPath : q = NewCall("Delete", "rlock", {p}, {}, FALSE, "none")
    BY <1>1
  <2>2. {p} \subseteq Path
    OBVIOUS
  <2> QED BY <2>1, <2>2
<1>2. CASE q \in {NewCall("Batch", "rlock", S, {}, invalid, "none") :
                     S \in SUBSET BlobPath, invalid \in BOOLEAN}
  <2>1. PICK S \in SUBSET BlobPath, invalid \in BOOLEAN :
           q = NewCall("Batch", "rlock", S, {}, invalid, "none")
    BY <1>2
  <2>2. S \subseteq Path
    OBVIOUS
  <2> QED BY <2>1, <2>2
<1>3. CASE q \in {NewCall("Sweep", "find", {}, StagingDir, FALSE, "none")}
  <2>1. q = NewCall("Sweep", "find", {}, StagingDir, FALSE, "none")
    BY <1>3
  <2>2. {} \in SUBSET Path /\ StagingDir \in SUBSET StagingDir
    OBVIOUS
  <2> HIDE DEF Path
  <2> QED BY <2>1, <2>2
<1> QED BY <1>1, <1>2, <1>3 DEF NewCalls

(* What the invariants need to know of a step of a caller: one call changes, and *)
(* it is about to send, or waits, only with the pool it loaded.                  *)
CallMoves(c) ==
    \E q \in CallState :
        /\ call' = [call EXCEPT ![c] = q]
        /\ q.pc = "send" => \/ q.pool = jobs /\ jobs # 0
                            \/ call[c].pc = "send" /\ q.pool = call[c].pool
        /\ q.pc = "wait" => call[c].pc \in {"send", "wait"} /\ q.pool = call[c].pool

LEMMA CallMovesType ==
    ASSUME TypeOK, SendOnOpen, NEW c \in Caller, CallMoves(c)
    PROVE  /\ call' \in [Caller -> CallState]
           /\ \A x \in Caller : call'[x].pc \in {"send", "wait"} => call'[x].pool \in Pool
           /\ \A x \in Caller : call'[x].pc = "send" => call'[x].pool = jobs
BY DEF CallMoves, TypeOK, SendOnOpen

(* Most steps of a call leave it neither sending nor waiting. *)
LEMMA Moves ==
    ASSUME NEW c \in Caller, NEW q \in CallState, Become(c, q), q.pc \notin {"send", "wait"}
    PROVE  CallMoves(c)
BY DEF Become, CallMoves

(* A step of a caller by itself. *)
LEMMA CallerMoves ==
    ASSUME TypeOK, NEW c \in Caller,
           Arrive(c) \/ Cancel(c) \/ RLock(c) \/ Send(c) \/ CallStep(c)
    PROVE  CallMoves(c)
<1>0. call[c] \in CallState
  BY DEF TypeOK
<1>1. CASE Arrive(c)
  <2>1. PICK q \in NewCalls :
           Become(c, q) \/ Become(c, [q EXCEPT !.pc = "done", !.reply = "failed"])
    BY <1>1 DEF Arrive
  <2>2. q \in CallState /\ q.pc \in {"rlock", "find"}
    BY NewCallsType
  <2>3. CASE Become(c, q)
    BY <2>2, <2>3, Moves
  <2>4. CASE Become(c, [q EXCEPT !.pc = "done", !.reply = "failed"])
    <3>1. /\ [q EXCEPT !.pc = "done", !.reply = "failed"] \in CallState
          /\ [q EXCEPT !.pc = "done", !.reply = "failed"].pc = "done"
      BY <2>2 DEF CallState
    <3> QED BY <2>4, <3>1, Moves
  <2> QED BY <2>1, <2>3, <2>4
<1>2. CASE Cancel(c)
  <2> DEFINE q == [call[c] EXCEPT !.ctx = FALSE]
  <2>1. q \in CallState /\ q.pc = call[c].pc /\ q.pool = call[c].pool
    BY <1>0 DEF CallState
  <2>2. call' = [call EXCEPT ![c] = q]
    BY <1>2 DEF Cancel, Become
  <2> HIDE DEF q
  <2> QED BY <2>1, <2>2 DEF CallMoves
<1>3. CASE RLock(c)
  <2>1. CASE jobs = 0 /\ Become(c, GiveUp(call[c]))
    BY <1>0, <2>1, GiveUpType, Moves
  <2>2. CASE Become(c, Return(call[c]))
    BY <1>0, <2>2, ReturnType, Moves
  <2>3. CASE jobs # 0 /\ Become(c, [call[c] EXCEPT !.pc = "send", !.pool = jobs])
    <3> DEFINE q == [call[c] EXCEPT !.pc = "send", !.pool = jobs]
    <3>1. q \in CallState /\ q.pc = "send" /\ q.pool = jobs
      BY <1>0 DEF CallState, TypeOK
    <3>2. call' = [call EXCEPT ![c] = q]
      BY <2>3 DEF Become
    <3> HIDE DEF q
    <3> QED BY <2>3, <3>1, <3>2 DEF CallMoves
  <2> QED BY <1>3, <2>1, <2>2, <2>3 DEF RLock
<1>4. CASE Send(c)
  <2> DEFINE q == [call[c] EXCEPT !.pc = "wait"]
  <2>1. q \in CallState /\ q.pc = "wait" /\ q.pool = call[c].pool
    BY <1>0 DEF CallState
  <2>2. call' = [call EXCEPT ![c] = q] /\ call[c].pc = "send"
    BY <1>4 DEF Send, Become
  <2> HIDE DEF q
  <2> QED BY <2>1, <2>2 DEF CallMoves
<1>5. CASE FindStale(c)
  <2>1. \A dir : Stale(dir) \subseteq Path
    BY DEF Stale, TypeOK, Path
  <2>2. PICK dir \in call[c].dirs, S \in SUBSET Path, failed \in BOOLEAN :
           LET visited == [call[c] EXCEPT !.dirs = @ \ {dir}]
               found == IF S = {} THEN visited
                        ELSE [visited EXCEPT !.pc = "rlock", !.left = S]
           IN  Become(c, found) \/ Become(c, [found EXCEPT !.failed = @ \/ failed])
    BY <1>5, <2>1 DEF FindStale
  <2> DEFINE visited == [call[c] EXCEPT !.dirs = @ \ {dir}]
             found == IF S = {} THEN visited ELSE [visited EXCEPT !.pc = "rlock", !.left = S]
             late == [found EXCEPT !.failed = @ \/ failed]
  <2>3. visited \in CallState /\ visited.pc = "find"
    BY <1>0, <1>5 DEF CallState, FindStale
  <2>4. found \in CallState /\ found.pc \in {"find", "rlock"}
    BY <2>3 DEF CallState
  <2>5. late \in CallState /\ late.pc \in {"find", "rlock"}
    <3> DEFINE b == found.failed \/ failed
    <3>1. b \in BOOLEAN
      OBVIOUS
    <3>2. late = [found EXCEPT !.failed = b]
      OBVIOUS
    <3> HIDE DEF b, found, late
    <3> QED BY <2>4, <3>1, <3>2 DEF CallState
  <2>6. Become(c, found) \/ Become(c, late)
    BY <2>2
  <2> HIDE DEF visited, found, late
  <2> QED BY <2>4, <2>5, <2>6, Moves
<1>6. CASE SweepDone(c)
  BY <1>0, <1>6, DoneType, Moves DEF SweepDone
<1>7. CASE OpenRootFails(c)
  <2>1. [call[c] EXCEPT !.left = {}] \in CallState
    BY <1>0 DEF CallState
  <2>2. CASE Become(c, Return([call[c] EXCEPT !.left = {}]))
    BY <2>1, <2>2, ReturnType, Moves
  <2>3. CASE Become(c, GiveUp(call[c]))
    BY <1>0, <2>3, GiveUpType, Moves
  <2> QED BY <1>7, <2>2, <2>3 DEF OpenRootFails
<1>8. CASE SendCancelled(c)
  BY <1>0, <1>8, GiveUpType, Moves DEF SendCancelled
<1>9. CASE Receive(c)
  BY <1>0, <1>9, ReturnType, Moves DEF Receive
<1> QED BY <1>1, <1>2, <1>3, <1>4, <1>5, <1>6, <1>7, <1>8, <1>9 DEF CallStep

(* A step of a worker on behalf of a caller. *)
LEMMA WorkerMoves ==
    ASSUME TypeOK, NEW p \in Pool, NEW w \in Worker, NEW c \in Caller,
           SendResult(p, w, c) \/ \E path \in Path : RemovePath(p, w, c, path)
    PROVE  CallMoves(c)
<1>0. call[c] \in CallState
  BY DEF TypeOK
<1>1. CASE SendResult(p, w, c)
  <2>1. /\ [call[c] EXCEPT !.pc = "answered"] \in CallState
        /\ [call[c] EXCEPT !.pc = "answered"].pc = "answered"
    BY <1>0 DEF CallState
  <2> QED BY <1>1, <2>1, Moves DEF SendResult
<1>2. CASE \E path \in Path : RemovePath(p, w, c, path)
  <2>1. PICK path \in Path : RemovePath(p, w, c, path)
    BY <1>2
  <2>2. PICK q \in CallState :
           /\ call' = [call EXCEPT ![c] = q]
           /\ q.pc = call[c].pc /\ q.pool = call[c].pool
    <3> DEFINE dealt == [call[c] EXCEPT !.left = @ \ {path}]
               took == [dealt EXCEPT !.removed = TRUE]
               failed == [dealt EXCEPT !.failed = TRUE]
    <3>1. dealt \in CallState /\ dealt.pc = call[c].pc /\ dealt.pool = call[c].pool
      BY <1>0 DEF CallState
    <3>2. took \in CallState /\ took.pc = call[c].pc /\ took.pool = call[c].pool
      BY <3>1 DEF CallState
    <3>3. failed \in CallState /\ failed.pc = call[c].pc /\ failed.pool = call[c].pool
      BY <3>1 DEF CallState
    <3>4. \/ call' = [call EXCEPT ![c] = dealt]
          \/ call' = [call EXCEPT ![c] = took]
          \/ call' = [call EXCEPT ![c] = failed]
      BY <1>0, <2>1 DEF RemovePath, Become, CallState
    <3> HIDE DEF dealt, took, failed
    <3> QED BY <3>1, <3>2, <3>3, <3>4
  <2> QED BY <2>2 DEF CallMoves
<1> QED BY <1>1, <1>2

-----------------------------------------------------------------------------
(* Types, and the channel a call is about to send on *)

LEMMA EnvironmentType ==
    ASSUME TypeOK, SendOnOpen, PoolsBounded,
           (\E p \in Path : Write(p)) \/ (\E p \in StagingPath : Age(p)) \/ UNCHANGED vars
    PROVE  TypeOK' /\ SendOnOpen' /\ PoolsBounded'
<1>1. UNCHANGED <<poolVars, stopVars, call, ctl>>
  BY DEF Write, Age, vars
<1>2. files' \subseteq Path /\ old' \subseteq StagingPath
  BY DEF Write, Age, vars, fileVars, TypeOK, Path
<1> QED
  BY <1>1, <1>2 DEF TypeOK, SendOnOpen, PoolsBounded, Starting, poolVars, stopVars

LEMMA CallerType ==
    ASSUME TypeOK, SendOnOpen, PoolsBounded, NEW c \in Caller,
           Arrive(c) \/ Cancel(c) \/ RLock(c) \/ Send(c) \/ CallStep(c)
    PROVE  TypeOK' /\ SendOnOpen' /\ PoolsBounded'
<1>1. /\ call' \in [Caller -> CallState]
      /\ \A x \in Caller : call'[x].pc \in {"send", "wait"} => call'[x].pool \in Pool
      /\ \A x \in Caller : call'[x].pc = "send" => call'[x].pool = jobs
  BY CallerMoves, CallMovesType
<1>2. UNCHANGED <<fileVars, jobs, started, worker, stopVars, ctl>>
  BY DEF Arrive, Cancel, RLock, Send, CallStep, FindStale, SweepDone, OpenRootFails,
         SendCancelled, Receive, poolVars
<1>3. queue' \in [Pool -> Seq(Caller)]
  <2>1. CASE Send(c)
    BY <2>1 DEF Send, TypeOK
  <2>2. CASE ~Send(c)
    BY <2>2 DEF Arrive, Cancel, RLock, CallStep, FindStale, SweepDone, OpenRootFails,
                SendCancelled, Receive, poolVars, TypeOK
  <2> QED BY <2>1, <2>2
<1> QED
  BY <1>1, <1>2, <1>3 DEF TypeOK, SendOnOpen, PoolsBounded, Starting, fileVars, stopVars

LEMMA ServeType ==
    ASSUME TypeOK, SendOnOpen, PoolsBounded, NEW p \in Pool, NEW w \in Worker, Serve(p, w)
    PROVE  TypeOK' /\ SendOnOpen' /\ PoolsBounded'
<1>1. UNCHANGED <<jobs, started, stopVars, ctl>>
  BY DEF Serve, Take, SendResult, RemovePath, Exit, poolVars
<1>2. /\ call' \in [Caller -> CallState]
      /\ \A x \in Caller : call'[x].pc \in {"send", "wait"} => call'[x].pool \in Pool
      /\ \A x \in Caller : call'[x].pc = "send" => call'[x].pool = jobs
  <2>1. CASE \E c \in Caller : SendResult(p, w, c) \/ \E path \in Path : RemovePath(p, w, c, path)
    BY <2>1, WorkerMoves, CallMovesType
  <2>2. CASE Take(p, w) \/ Exit(p, w)
    BY <2>2 DEF Take, Exit, TypeOK, SendOnOpen
  <2> QED BY <2>1, <2>2 DEF Serve
<1>3. files' \subseteq Path /\ old' \subseteq StagingPath
  BY DEF Serve, Take, SendResult, RemovePath, Exit, fileVars, TypeOK
<1>4. queue' \in [Pool -> Seq(Caller)]
  <2>1. CASE Take(p, w)
    <3>1. queue[p] \in Seq(Caller) /\ queue[p] # <<>>
      BY <2>1 DEF Take, TypeOK
    <3>2. Tail(queue[p]) \in Seq(Caller)
      BY <3>1
    <3> QED BY <2>1, <3>2 DEF Take, TypeOK
  <2>2. CASE UNCHANGED queue
    BY <2>2 DEF TypeOK
  <2> QED BY <2>1, <2>2 DEF Serve, SendResult, RemovePath, Exit, poolVars
<1>5. worker' \in [Pool -> [Worker -> WorkerState]]
  <2>1. CASE UNCHANGED worker
    BY <2>1 DEF TypeOK
  <2>2. CASE \E s \in WorkerState : Set(p, w, s)
    BY <2>2 DEF Set, TypeOK
  <2>3. Take(p, w) => \E s \in WorkerState : Set(p, w, s)
    BY DEF Take, TypeOK, WorkerState
  <2>4. \A c \in Caller : SendResult(p, w, c) => \E s \in WorkerState : Set(p, w, s)
    BY DEF SendResult, IdleWorker, WorkerState
  <2>5. Exit(p, w) => \E s \in WorkerState : Set(p, w, s)
    BY DEF Exit, WorkerState
  <2>6. \A c \in Caller, path \in Path : RemovePath(p, w, c, path) => UNCHANGED worker
    BY DEF RemovePath, poolVars
  <2> QED BY <2>1, <2>2, <2>3, <2>4, <2>5, <2>6 DEF Serve
<1> QED
  BY <1>1, <1>2, <1>3, <1>4, <1>5 DEF TypeOK, SendOnOpen, PoolsBounded, Starting, stopVars

-----------------------------------------------------------------------------
(* Controllers *)

LEMMA Controls ==
    ASSUME TypeOK, NEW k \in Controller, NEW s \in ControlState, Control(k, s.pc, s.pool)
    PROVE  /\ ctl' \in [Controller -> ControlState]
           /\ ctl'[k] = s
           /\ \A j \in Controller \ {k} : ctl'[j] = ctl[j]
           /\ s.pc \in {"start", "startIn"} => Starting' = Starting \cup {k}
           /\ s.pc \notin {"start", "startIn"} => Starting' = Starting \ {k}
BY DEF TypeOK, ControlState, Control, Starting

LEMMA StartingCount ==
    ASSUME NEW k \in Controller
    PROVE  /\ IsFiniteSet(Starting) /\ Cardinality(Starting) \in Nat
           /\ k \in Starting => /\ Cardinality(Starting \ {k}) = Cardinality(Starting) - 1
                                /\ Starting \cup {k} = Starting
           /\ k \notin Starting => /\ Cardinality(Starting \cup {k}) = Cardinality(Starting) + 1
                                   /\ Starting \ {k} = Starting
<1>1. IsFiniteSet(Starting)
  <2>1. Starting \subseteq Controller
    BY DEF Starting
  <2> QED BY <2>1, VacuumAssumption, FS_Subset
<1>2. Cardinality(Starting) \in Nat
  BY <1>1, FS_CardinalityType
<1>3. ASSUME k \in Starting
      PROVE  /\ Cardinality(Starting \ {k}) = Cardinality(Starting) - 1
             /\ Starting \cup {k} = Starting
  BY <1>1, <1>3, FS_RemoveElement
<1>4. ASSUME k \notin Starting
      PROVE  /\ Cardinality(Starting \cup {k}) = Cardinality(Starting) + 1
             /\ Starting \ {k} = Starting
  BY <1>1, <1>4, FS_AddElement
<1> QED BY <1>1, <1>2, <1>3, <1>4

(* What a step of a controller does to its own state and to the bound. *)
LEMMA ControlEffect ==
    ASSUME TypeOK, PoolsBounded, NEW k \in Controller,
           StartCalled(k) \/ StopCalled(k) \/ Lock(k) \/ ControlStep(k)
    PROVE  /\ ctl' \in [Controller -> ControlState]
           /\ \A j \in Controller \ {k} : ctl'[j] = ctl[j]
           /\ PoolsBounded'
           /\ started' \in 0 .. MaxPools
<1>0. ctl[k] \in ControlState /\ 0 \in Pool \cup {0} /\ started \in Nat /\ MaxPools \in Nat
  BY VacuumAssumption DEF TypeOK
<1>1. Cardinality(Starting) \in Nat /\ started + Cardinality(Starting) <= MaxPools
  BY StartingCount DEF PoolsBounded
<1>2. CASE StartCalled(k)
  <2> DEFINE s == [pc |-> "start", pool |-> 0]
  <2>1. s \in ControlState /\ Control(k, s.pc, s.pool) /\ k \notin Starting /\ started' = started
    BY <1>0, <1>2 DEF StartCalled, ControlState, Starting, poolVars
  <2>2. started + Cardinality(Starting) + 1 <= MaxPools
    BY <1>0, <1>1, <1>2 DEF StartCalled
  <2>3. Starting' = Starting \cup {k} /\ Cardinality(Starting') = Cardinality(Starting) + 1
    BY <2>1, Controls, StartingCount
  <2> HIDE DEF s
  <2> QED BY <1>0, <1>1, <2>1, <2>2, <2>3, Controls DEF PoolsBounded
<1>3. CASE Lock(k)
  <2> DEFINE s == [pc |-> IF ctl[k].pc = "start" THEN "startIn" ELSE "stopIn", pool |-> ctl[k].pool]
  <2>1. s \in ControlState /\ Control(k, s.pc, s.pool) /\ started' = started
    BY <1>0, <1>3 DEF Lock, ControlState, poolVars
  <2>2. s.pc \in {"start", "startIn"} <=> k \in Starting
    BY <1>3 DEF Lock, Starting
  <2> HIDE DEF s
  <2>3. Starting' = Starting
    BY <2>1, <2>2, Controls, StartingCount
  <2> QED BY <1>0, <1>1, <2>1, <2>3, Controls DEF PoolsBounded
<1>4. CASE StartPool(k)
  <2> DEFINE s == [pc |-> "assign", pool |-> started + 1]
  <2>1. Control(k, s.pc, s.pool) /\ k \in Starting /\ started' = started + 1
    BY <1>4 DEF StartPool, Starting
  <2>2. Cardinality(Starting \ {k}) = Cardinality(Starting) - 1
    BY <2>1, StartingCount
  <2>3. started + 1 <= MaxPools
    <3>1. Starting # {}
      BY <2>1
    <3>2. Cardinality(Starting \ {k}) \in Nat
      BY StartingCount, FS_Subset, FS_CardinalityType, Starting \ {k} \subseteq Starting
    <3> QED BY <1>0, <1>1, <2>2, <3>2
  <2>4. s \in ControlState
    BY <1>0, <2>3 DEF ControlState, Pool
  <2>5. Starting' = Starting \ {k}
    BY <2>1, <2>4, Controls
  <2> QED BY <1>0, <1>1, <2>1, <2>2, <2>3, <2>4, <2>5, Controls DEF PoolsBounded
<1>5. ASSUME \E s \in ControlState :
                 s.pc \notin {"start", "startIn"} /\ Control(k, s.pc, s.pool),
             started' = started
      PROVE  /\ ctl' \in [Controller -> ControlState]
             /\ \A j \in Controller \ {k} : ctl'[j] = ctl[j]
             /\ PoolsBounded'
             /\ started' \in 0 .. MaxPools
  <2>1. PICK s \in ControlState : s.pc \notin {"start", "startIn"} /\ Control(k, s.pc, s.pool)
    BY <1>5
  <2>2. Starting' = Starting \ {k}
    BY <2>1, Controls
  <2>3. Cardinality(Starting') \in Nat /\ Cardinality(Starting') <= Cardinality(Starting)
    <3>1. Cardinality(Starting \ {k}) \in Nat
      BY StartingCount, FS_Subset, FS_CardinalityType, Starting \ {k} \subseteq Starting
    <3>2. Cardinality(Starting \ {k}) <= Cardinality(Starting)
      <4>1. CASE k \in Starting
        BY <1>1, <4>1, StartingCount
      <4>2. CASE k \notin Starting
        <5>1. Starting \ {k} = Starting
          BY <4>2, StartingCount
        <5>2. Cardinality(Starting \ {k}) = Cardinality(Starting)
          BY <5>1, Zenon
        <5> QED BY <1>1, <5>2
      <4> QED BY <4>1, <4>2
    <3> QED BY <2>2, <3>1, <3>2
  <2> QED BY <1>0, <1>1, <1>5, <2>1, <2>3, Controls DEF PoolsBounded, TypeOK
<1>6. CASE StopCalled(k) \/ StartNil(k) \/ Assign(k) \/ StopFirst(k) \/ StopAgain(k)
           \/ StopPool(k) \/ Drained(k)
  <2>1. started' = started
    BY <1>6 DEF StopCalled, StartNil, Assign, StopFirst, StopAgain, StopPool, Drained, poolVars
  <2>2. \E q \in {"idle", "assign", "once", "stop", "drain"}, p \in Pool \cup {0} : Control(k, q, p)
    BY <1>0, <1>6
       DEF StopCalled, StartNil, Assign, StopFirst, StopAgain, StopPool, Drained, TypeOK,
           ControlState
  <2>3. PICK q \in {"idle", "assign", "once", "stop", "drain"}, p \in Pool \cup {0} : Control(k, q, p)
    BY <2>2
  <2>4. [pc |-> q, pool |-> p] \in ControlState
    BY DEF ControlState
  <2> QED BY <1>5, <2>1, <2>3, <2>4
<1> QED BY <1>2, <1>3, <1>4, <1>6 DEF ControlStep

LEMMA ControlType ==
    ASSUME TypeOK, SendOnOpen, PoolsBounded, NEW k \in Controller,
           StartCalled(k) \/ StopCalled(k) \/ Lock(k) \/ ControlStep(k)
    PROVE  TypeOK' /\ SendOnOpen' /\ PoolsBounded'
<1>0. ctl[k] \in ControlState
  BY DEF TypeOK
<1>1. ctl' \in [Controller -> ControlState] /\ PoolsBounded' /\ started' \in 0 .. MaxPools
  BY ControlEffect
<1>2. UNCHANGED <<fileVars, queue, call>>
  BY DEF StartCalled, StopCalled, Lock, ControlStep, StartNil, StartPool, Assign, StopFirst,
         StopAgain, StopPool, Drained, poolVars
<1>3. jobs' \in Pool \cup {0} /\ worker' \in [Pool -> [Worker -> WorkerState]]
  <2>1. CASE StartPool(k)
    <3>1. started' \in Pool
      BY <1>1, <2>1, VacuumAssumption DEF StartPool, Pool, TypeOK
    <3>2. IdleWorker \in WorkerState
      BY DEF IdleWorker, WorkerState
    <3> QED BY <2>1, <3>1, <3>2 DEF StartPool, TypeOK
  <2>2. CASE ~StartPool(k)
    BY <2>2
       DEF StartCalled, StopCalled, Lock, ControlStep, StartNil, Assign, StopFirst, StopAgain,
           StopPool, Drained, poolVars, TypeOK
  <2> QED BY <2>1, <2>2
<1>4. stopVacuum' \in Pool \cup {0} /\ once' \in [Pool -> {"fresh", "running", "done"}]
  BY <1>0
     DEF StartCalled, StopCalled, Lock, ControlStep, StartNil, StartPool, Assign, StopFirst,
         StopAgain, StopPool, Drained, stopVars, TypeOK, ControlState
<1>5. SendOnOpen'
  <2>1. CASE jobs' = jobs
    BY <1>2, <2>1 DEF SendOnOpen
  <2>2. CASE NoReader
    BY <1>2, <2>2 DEF NoReader, Holds, SendOnOpen
  <2>3. jobs' = jobs \/ NoReader
    BY DEF StartCalled, StopCalled, Lock, ControlStep, StartNil, StartPool, Assign, StopFirst,
           StopAgain, StopPool, Drained, poolVars
  <2> QED BY <2>1, <2>2, <2>3
<1> QED BY <1>1, <1>2, <1>3, <1>4, <1>5 DEF TypeOK, fileVars

-----------------------------------------------------------------------------
(* The first results *)

TypeInv == TypeOK /\ SendOnOpen /\ PoolsBounded

LEMMA TypeInvInit == Init => TypeInv
<1> SUFFICES ASSUME Init PROVE TypeInv
  OBVIOUS
<1>1. Starting = {}
  BY DEF Init, Starting
<1>2. PoolsBounded
  BY <1>1, FS_EmptySet, VacuumAssumption DEF Init, PoolsBounded
<1>3. \A c \in Caller : call[c] \in CallState /\ call[c].pc = "idle"
  BY DEF Init, NewCall, CallState
<1>4. call \in [Caller -> CallState]
  BY <1>3 DEF Init
<1>5. worker \in [Pool -> [Worker -> WorkerState]]
  BY DEF Init, WorkerState
<1>6. queue \in [Pool -> Seq(Caller)] /\ ctl \in [Controller -> ControlState]
  BY DEF Init, ControlState
<1>7. started \in 0 .. MaxPools /\ jobs \in Pool \cup {0} /\ stopVacuum \in Pool \cup {0}
  BY VacuumAssumption DEF Init
<1>8. once \in [Pool -> {"fresh", "running", "done"}]
  BY DEF Init
<1>9. files \subseteq Path /\ old \subseteq StagingPath
  BY DEF Init
<1>10. TypeOK
  BY <1>3, <1>4, <1>5, <1>6, <1>7, <1>8, <1>9 DEF TypeOK
<1>11. SendOnOpen
  BY <1>3 DEF SendOnOpen
<1> QED BY <1>2, <1>10, <1>11 DEF TypeInv

LEMMA TypeInvNext == TypeInv /\ [Next]_vars => TypeInv'
BY EnvironmentType, CallerType, ServeType, ControlType DEF Next, TypeInv

(* The inductive invariant behind the first results. *)
THEOREM VacuumTypeInvariant == Spec => []TypeInv
BY TypeInvInit, TypeInvNext, PTL DEF Spec

(* Every variable of the vacuum process keeps its type; in particular no command *)
(* is sent on a nil channel, which would block its caller for ever.              *)
THEOREM VacuumTypeCorrect == Spec => []TypeOK
BY VacuumTypeInvariant, PTL DEF TypeInv

(* No command is sent on a closed channel, however many callers, starts and      *)
(* stops overlap: the read lock is held from the load of m.jobs to the answer.   *)
THEOREM NeverSendOnClosed == Spec => []SendOnOpen
BY VacuumTypeInvariant, PTL DEF TypeInv

-----------------------------------------------------------------------------
(* Pools, and the functions that stop them *)

(* A worker exits only when its channel is closed and empty, for good. *)
Exited ==
    \A p \in Pool, w \in Worker : worker[p][w].state = "exited" =>
        p <= started /\ jobs # p /\ queue[p] = <<>>

Stopping == {"once", "stop", "stopIn", "drain"}

(* Only pools that were made are named. *)
Numbered ==
    /\ jobs <= started /\ stopVacuum <= started
    /\ \A k \in Controller : ctl[k].pc \in Stopping => ctl[k].pool # 0 /\ ctl[k].pool <= started

(* While a stop function is about to be stored nobody else has it: its pool     *)
(* runs, nobody is stopping it, and no other stop function is about to be stored. *)
Assigning ==
    \A k \in Controller : ctl[k].pc = "assign" =>
        /\ jobs # 0 /\ ctl[k].pool = jobs /\ stopVacuum # jobs
        /\ \A j \in Controller \ {k} :
              ctl[j].pc # "assign" /\ (ctl[j].pc \in Stopping => ctl[j].pool # jobs)

PoolInv == Exited /\ NoWorkerLeft /\ Numbered /\ Assigning /\ StopReachable

LEMMA PoolInvInit == Init => PoolInv
BY VacuumAssumption
   DEF Init, PoolInv, Exited, NoWorkerLeft, Numbered, Assigning, StopReachable, Stopping, Pool

LEMMA EnvironmentPools ==
    ASSUME PoolInv,
           (\E p \in Path : Write(p)) \/ (\E p \in StagingPath : Age(p)) \/ UNCHANGED vars
    PROVE  PoolInv'
<1>1. UNCHANGED <<jobs, started, queue, worker, stopVacuum, once, ctl>>
  BY DEF Write, Age, vars, poolVars, stopVars
<1> QED
  BY <1>1 DEF PoolInv, Exited, NoWorkerLeft, Numbered, Assigning, StopReachable

(* A caller adds a command at most to the channel of the pool that runs. *)
LEMMA CallerPools ==
    ASSUME TypeInv, PoolInv, NEW c \in Caller,
           Arrive(c) \/ Cancel(c) \/ RLock(c) \/ Send(c) \/ CallStep(c)
    PROVE  PoolInv'
<1>1. UNCHANGED <<jobs, started, worker, stopVacuum, once, ctl>>
  BY DEF Arrive, Cancel, RLock, Send, CallStep, FindStale, SweepDone, OpenRootFails,
         SendCancelled, Receive, poolVars, stopVars
<1>2. \A p \in Pool : p # jobs => queue'[p] = queue[p]
  <2>1. CASE Send(c)
    BY <2>1 DEF Send, TypeInv, SendOnOpen, TypeOK
  <2>2. CASE UNCHANGED queue
    BY <2>2
  <2> QED
    BY <2>1, <2>2
       DEF Arrive, Cancel, RLock, CallStep, FindStale, SweepDone, OpenRootFails,
           SendCancelled, Receive, poolVars
<1>3. Exited'
  BY <1>1, <1>2 DEF PoolInv, Exited
<1>4. NoWorkerLeft'
  <2>1. SUFFICES ASSUME NEW p \in Pool, once[p] = "done"
                 PROVE  queue'[p] = <<>> /\ \A w \in Worker : worker[p][w].state = "exited"
    BY <1>1 DEF NoWorkerLeft
  <2>2. PICK w \in Worker : worker[p][w].state = "exited"
    BY <2>1, VacuumAssumption DEF PoolInv, NoWorkerLeft
  <2> QED BY <1>2, <2>1, <2>2 DEF PoolInv, NoWorkerLeft, Exited
<1> QED BY <1>1, <1>3, <1>4 DEF PoolInv, Numbered, Assigning, StopReachable

(* What a worker changes of the pools. *)
LEMMA ServePools ==
    ASSUME TypeInv, PoolInv, NEW p \in Pool, NEW w \in Worker, Serve(p, w)
    PROVE  PoolInv'
<1>1. UNCHANGED <<jobs, started, stopVacuum, once, ctl>>
  BY DEF Serve, Take, SendResult, RemovePath, Exit, poolVars, stopVars
<1>2. \A q \in Pool : queue[q] = <<>> => queue'[q] = <<>>
  <2>1. CASE Take(p, w)
    BY <2>1 DEF Take, TypeInv, TypeOK
  <2>2. CASE UNCHANGED queue
    BY <2>2
  <2> QED BY <2>1, <2>2 DEF Serve, SendResult, RemovePath, Exit, poolVars
<1>3. /\ \A q \in Pool, v \in Worker : worker[q][v].state = "exited" => worker'[q][v].state = "exited"
      /\ \A q \in Pool, v \in Worker : worker'[q][v].state = "exited" =>
            \/ worker[q][v].state = "exited"
            \/ q = p /\ Closed(p) /\ queue[p] = <<>>
  <2>1. CASE Take(p, w)
    BY <2>1 DEF Take, Set, IdleWorker, TypeInv, TypeOK
  <2>2. CASE \E c \in Caller : SendResult(p, w, c)
    BY <2>2 DEF SendResult, Busy, Set, IdleWorker, TypeInv, TypeOK
  <2>3. CASE \E c \in Caller : \E path \in Path : RemovePath(p, w, c, path)
    BY <2>3 DEF RemovePath, poolVars
  <2>4. CASE Exit(p, w)
    BY <2>4 DEF Exit, Set, IdleWorker, TypeInv, TypeOK
  <2> QED BY <2>1, <2>2, <2>3, <2>4 DEF Serve
<1>4. Exited'
  BY <1>1, <1>2, <1>3 DEF PoolInv, Exited, Closed
<1>5. NoWorkerLeft'
  BY <1>1, <1>2, <1>3 DEF PoolInv, NoWorkerLeft
<1> QED BY <1>1, <1>4, <1>5 DEF PoolInv, Numbered, Assigning, StopReachable

(* A step of a controller that leaves the pools alone and stores nothing. *)
LEMMA QuietControl ==
    ASSUME PoolInv, NEW k \in Controller,
           ctl[k].pc # "assign", ctl'[k].pc # "assign",
           ctl'[k].pc \in Stopping => \/ ctl[k].pc \in Stopping /\ ctl'[k].pool = ctl[k].pool
                                      \/ ctl'[k].pool = stopVacuum /\ ctl'[k].pool # 0,
           \A j \in Controller \ {k} : ctl'[j] = ctl[j],
           jobs' = jobs, started' = started, stopVacuum' = stopVacuum
    PROVE  Numbered' /\ Assigning' /\ StopReachable'
<1>1. Numbered'
  BY DEF PoolInv, Numbered
<1>2. Assigning'
  BY DEF PoolInv, Assigning
<1>3. StopReachable'
  BY DEF PoolInv, StopReachable
<1> QED BY <1>1, <1>2, <1>3

LEMMA ControlPools ==
    ASSUME TypeInv, PoolInv, NEW k \in Controller,
           StartCalled(k) \/ StopCalled(k) \/ Lock(k) \/ ControlStep(k)
    PROVE  PoolInv'
<1> USE DEF TypeInv
<1>0. ctl[k] \in ControlState /\ jobs \in Nat /\ started \in Nat /\ stopVacuum \in Nat
  BY VacuumAssumption DEF TypeOK, Pool
<1>1. queue' = queue
  BY DEF StartCalled, StopCalled, Lock, ControlStep, StartNil, StartPool, Assign, StopFirst,
         StopAgain, StopPool, Drained, poolVars
<1>2. CASE StartPool(k)
  <2>1. /\ jobs = 0 /\ jobs' = started + 1 /\ started' = started + 1
        /\ UNCHANGED <<stopVacuum, once>>
    BY <1>2 DEF StartPool, stopVars
  <2>2. jobs' \in Pool
    <3>1. started' \in 0 .. MaxPools
      BY ControlEffect
    <3> QED BY <1>0, <2>1, <3>1, VacuumAssumption DEF Pool
  <2>3. /\ ctl'[k] = [pc |-> "assign", pool |-> jobs']
        /\ \A j \in Controller \ {k} : ctl'[j] = ctl[j]
    <3> DEFINE s == [pc |-> "assign", pool |-> jobs']
    <3>1. s \in ControlState /\ Control(k, s.pc, s.pool)
      BY <1>2, <2>2 DEF StartPool, ControlState
    <3> HIDE DEF s
    <3>2. ctl'[k] = s /\ \A j \in Controller \ {k} : ctl'[j] = ctl[j]
      BY <3>1, Controls
    <3> QED BY <3>2 DEF s
  <2>4. \A p \in Pool : p # jobs' => worker'[p] = worker[p]
    BY <1>2, <2>1 DEF StartPool, TypeOK
  <2>5. \A w \in Worker : worker'[jobs'][w].state = "idle"
    BY <1>2, <2>1, <2>2 DEF StartPool, TypeOK, IdleWorker
  <2>6. Exited'
    <3>1. SUFFICES ASSUME NEW p \in Pool, NEW w \in Worker, worker'[p][w].state = "exited"
                   PROVE  p <= started' /\ jobs' # p /\ queue'[p] = <<>>
      BY DEF Exited
    <3>2. p # jobs'
      BY <2>5, <3>1
    <3>3. worker[p][w].state = "exited"
      BY <2>4, <3>1, <3>2
    <3> QED BY <1>0, <1>1, <2>1, <3>2, <3>3 DEF PoolInv, Exited, Pool
  <2>7. NoWorkerLeft'
    <3>1. SUFFICES ASSUME NEW p \in Pool, once[p] = "done"
                   PROVE  queue'[p] = <<>> /\ \A w \in Worker : worker'[p][w].state = "exited"
      BY <2>1 DEF NoWorkerLeft
    <3>2. queue[p] = <<>> /\ \A w \in Worker : worker[p][w].state = "exited"
      BY <3>1 DEF PoolInv, NoWorkerLeft
    <3>3. p <= started
      BY <3>2, VacuumAssumption DEF PoolInv, Exited
    <3> QED BY <1>0, <1>1, <2>1, <2>4, <3>2, <3>3 DEF Pool
  <2>8. Numbered'
    BY <1>0, <2>1, <2>3 DEF PoolInv, Numbered, Stopping, TypeOK, ControlState, Pool
  <2>9. Assigning'
    BY <1>0, <2>1, <2>3 DEF PoolInv, Numbered, Assigning, Stopping, TypeOK, ControlState, Pool
  <2>10. StopReachable'
    BY <2>3 DEF StopReachable
  <2> QED BY <2>6, <2>7, <2>8, <2>9, <2>10 DEF PoolInv
<1>3. CASE StopPool(k)
  <2>1. /\ jobs' = IF jobs = ctl[k].pool THEN 0 ELSE jobs
        /\ ctl[k].pc = "stopIn"
        /\ UNCHANGED <<started, worker, stopVacuum, once>>
    BY <1>3 DEF StopPool, stopVars
  <2>2. /\ ctl'[k] = [pc |-> "drain", pool |-> ctl[k].pool]
        /\ \A j \in Controller \ {k} : ctl'[j] = ctl[j]
    <3> DEFINE s == [pc |-> "drain", pool |-> ctl[k].pool]
    <3>1. s \in ControlState /\ Control(k, s.pc, s.pool)
      BY <1>0, <1>3 DEF StopPool, ControlState
    <3> HIDE DEF s
    <3>2. ctl'[k] = s /\ \A j \in Controller \ {k} : ctl'[j] = ctl[j]
      BY <3>1, Controls
    <3> QED BY <3>2 DEF s
  <2>3. Exited' /\ NoWorkerLeft'
    BY <1>1, <2>1 DEF PoolInv, Exited, NoWorkerLeft, Pool
  <2>4. Numbered'
    BY <1>0, <2>1, <2>2 DEF PoolInv, Numbered, Stopping
  <2>5. Assigning'
    <3>1. SUFFICES ASSUME NEW j \in Controller, ctl'[j].pc = "assign"
                   PROVE  /\ jobs' # 0 /\ ctl'[j].pool = jobs' /\ stopVacuum' # jobs'
                          /\ \A i \in Controller \ {j} :
                                ctl'[i].pc # "assign" /\ (ctl'[i].pc \in Stopping => ctl'[i].pool # jobs')
      BY DEF Assigning
    <3>2. j # k /\ ctl[j].pc = "assign"
      BY <2>2, <3>1
    <3>3. jobs' = jobs
      BY <2>1, <3>2 DEF PoolInv, Assigning, Stopping
    <3> QED BY <2>1, <2>2, <3>2, <3>3 DEF PoolInv, Assigning, Stopping
  <2>6. StopReachable'
    BY <2>1, <2>2 DEF PoolInv, StopReachable
  <2> QED BY <2>3, <2>4, <2>5, <2>6 DEF PoolInv
<1>4. CASE Assign(k)
  <2>1. /\ ctl[k].pc = "assign" /\ stopVacuum' = ctl[k].pool
        /\ UNCHANGED <<jobs, started, worker, once>>
    BY <1>4 DEF Assign, poolVars
  <2>2. ctl'[k].pc = "idle" /\ \A j \in Controller \ {k} : ctl'[j] = ctl[j]
    <3>1. [pc |-> "idle", pool |-> 0] \in ControlState
      BY DEF ControlState
    <3> QED BY <1>4, <3>1, Controls DEF Assign
  <2>3. Exited' /\ NoWorkerLeft'
    BY <1>1, <2>1 DEF PoolInv, Exited, NoWorkerLeft
  <2>4. jobs # 0 /\ stopVacuum' = jobs /\ \A j \in Controller : ctl'[j].pc # "assign"
    BY <2>1, <2>2 DEF PoolInv, Assigning
  <2> QED
    BY <1>0, <2>1, <2>2, <2>3, <2>4
       DEF PoolInv, Numbered, Assigning, StopReachable, Stopping
<1>5. CASE Drained(k)
  <2>1. ctl[k].pool \in Pool
    BY <1>0, <1>5 DEF Drained, PoolInv, Numbered, Stopping, ControlState
  <2>2. queue[ctl[k].pool] = <<>>
    BY <1>5, <2>1, VacuumAssumption DEF Drained, PoolInv, Exited
  <2>3. Exited' /\ NoWorkerLeft'
    BY <1>1, <1>5, <2>1, <2>2 DEF Drained, poolVars, PoolInv, Exited, NoWorkerLeft, TypeOK
  <2>4. jobs' = jobs /\ started' = started /\ stopVacuum' = stopVacuum
    BY <1>5 DEF Drained, poolVars
  <2>5. PICK s \in ControlState :
           /\ Control(k, s.pc, s.pool) /\ ctl[k].pc # "assign" /\ s.pc # "assign"
           /\ s.pc \in Stopping => \/ ctl[k].pc \in Stopping /\ s.pool = ctl[k].pool
                                   \/ s.pool = stopVacuum /\ s.pool # 0
    <3>1. [pc |-> "idle", pool |-> 0] \in ControlState
      BY DEF ControlState
    <3> QED BY <1>5, <3>1 DEF Drained, Stopping
  <2>6. ctl'[k] = s /\ \A j \in Controller \ {k} : ctl'[j] = ctl[j]
    BY <2>5, Controls
  <2>7. Numbered' /\ Assigning' /\ StopReachable'
    BY <2>4, <2>5, <2>6, QuietControl
  <2> QED BY <2>3, <2>7 DEF PoolInv
<1>6. CASE StartCalled(k) \/ StopCalled(k) \/ Lock(k) \/ StartNil(k) \/ StopFirst(k) \/ StopAgain(k)
  <2>1. UNCHANGED <<jobs, started, worker, stopVacuum>>
    BY <1>6 DEF StartCalled, StopCalled, Lock, StartNil, StopFirst, StopAgain, poolVars, stopVars
  <2>2. \A p \in Pool : once'[p] = "done" => once[p] = "done"
    BY <1>6
       DEF StartCalled, StopCalled, Lock, StartNil, StopFirst, StopAgain, stopVars, TypeOK
  <2>3. Exited' /\ NoWorkerLeft'
    BY <1>1, <2>1, <2>2 DEF PoolInv, Exited, NoWorkerLeft
  <2>4. PICK s \in ControlState :
           /\ Control(k, s.pc, s.pool) /\ ctl[k].pc # "assign" /\ s.pc # "assign"
           /\ s.pc \in Stopping => \/ ctl[k].pc \in Stopping /\ s.pool = ctl[k].pool
                                   \/ s.pool = stopVacuum /\ s.pool # 0
    <3>1. CASE StartCalled(k) \/ StartNil(k) \/ StopAgain(k)
      <4>1. \A q \in {"start", "idle"} : [pc |-> q, pool |-> 0] \in ControlState
        BY DEF ControlState
      <4> QED BY <3>1, <4>1 DEF StartCalled, StartNil, StopAgain, Stopping
    <3>2. CASE StopCalled(k)
      <4>1. [pc |-> "once", pool |-> stopVacuum] \in ControlState
        BY DEF ControlState, TypeOK
      <4> QED BY <3>2, <4>1 DEF StopCalled, Stopping
    <3>3. CASE Lock(k) \/ StopFirst(k)
      <4>1. \A q \in {"startIn", "stopIn", "stop"} : [pc |-> q, pool |-> ctl[k].pool] \in ControlState
        BY <1>0 DEF ControlState
      <4> QED BY <3>3, <4>1 DEF Lock, StopFirst, Stopping
    <3> QED BY <1>6, <3>1, <3>2, <3>3
  <2>5. ctl'[k] = s /\ \A j \in Controller \ {k} : ctl'[j] = ctl[j]
    BY <2>4, Controls
  <2>6. Numbered' /\ Assigning' /\ StopReachable'
    BY <2>1, <2>4, <2>5, QuietControl
  <2> QED BY <2>3, <2>6 DEF PoolInv
<1> QED BY <1>2, <1>3, <1>4, <1>5, <1>6 DEF ControlStep

LEMMA PoolInvNext == TypeInv /\ PoolInv /\ [Next]_vars => PoolInv'
BY EnvironmentPools, CallerPools, ServePools, ControlPools DEF Next

(* The inductive invariant behind the results on pools. *)
THEOREM PoolInvariant == Spec => []PoolInv
BY PoolInvInit, PoolInvNext, VacuumTypeInvariant, PTL DEF Spec

(* However starts and stops overlap, a pool that runs can be stopped: its stop   *)
(* function is in the field StopVacuumProcess reads, or about to be stored there. *)
THEOREM PoolCanBeStopped == Spec => []StopReachable
BY PoolInvariant, PTL DEF PoolInv

(* When a stop function has returned, every worker of its pool has exited and no *)
(* command was left behind, through any number of restarts.                      *)
THEOREM StopLeavesNoWorker == Spec => []NoWorkerLeft
BY PoolInvariant, PTL DEF PoolInv
=============================================================================
