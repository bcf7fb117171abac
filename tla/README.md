# omnistash: formal verification

TLA+ models of [omnistash](../src/README.md), an OCI registry in Go, with the
configurations that model-check them and the theorems proved about them.
`RegisteredHasBytes`, for example, says that a blob the metadata store answers
for has its bytes; TLC checks it on two concurrent requests, and
`RegistryProofs.tla` proves it for any number of requests, namespaces, digests
and sessions.

Contents: [the system](#the-system), [the modules](#the-modules),
[how the models correspond to the code](#how-the-models-correspond-to-the-code),
[the runs](#the-runs), [what the runs found](#what-the-runs-found),
[the proofs](#the-proofs), [what is not modelled](#what-is-not-modelled),
[plan](#plan).

## The system

One process (`cmd/omnistash/main.go`) serves the OCI distribution API.

| Component | State | Operations | Hard parts |
|---|---|---|---|
| HTTP layer (`rest/`) | none | routes a request to a service, maps errors to statuses | repository names whose components are also separators; edges of `Range` and `Content-Range`; a 206 that is sent before the file is opened |
| Process (`cmd/omnistash`) | listener, signal, the metadata store's handle | start, serve, shut down | requests that outlive the 30 s of `Shutdown`, two signals, a listener that fails meanwhile |
| Namespace service (`internal/namespace`) | none | create, delete | a delete between another request's check and its write |
| Blob service (`internal/blob`) | none | head, get, get range, monolithic upload, mount, and the resumable session (initiate, append, commit, status, cancel) | every operation is a series of calls to two stores with no transaction over both; cleanup when the second fails |
| Manifest service (`internal/manifest`) | none | put, get, head, delete | bytes and rows change in separate steps; deletion of bytes that only logs failures |
| Referrer service (`internal/referrer`) | none | list | the index and the manifests must agree |
| Metadata store (`internal/metastore/sqlite`) | tables `namespace`, `namespace_blobs`, `manifests`, `manifest_referrers` | one transaction per `Atomic` | foreign keys, rows pending deletion, idempotent inserts |
| Blob store (`internal/blobstore`, `fs/`) | blob files, staging files | put, get, stat, delete, upload sessions, sweep of staging | two names of one file, two writers of one path, append against finalize, a sweep or a crash between two system calls |
| Vacuum process (`fs/vacuum.go`, `fs/deleter.go`) | worker pool, channel, lock, stop function | start, stop, delete, batch delete, sweep | locking against closing, restarts, cancellation |
| Schema (`migration/sqlite.go`) | - | creates the tables | - |

Interaction. A handler calls one service method in its own goroutine. A
service calls the two stores in sequence; the request's context goes to the
metadata store and to `DeleteBlob`, so a client that disconnects makes exactly
those calls fail. The stores do not know of each other: nothing but the order
of calls in the services ties a row to a file. `DeleteBlob` hands its paths to
the worker pool of the vacuum process and waits for the answer. The program as
shipped never starts that pool, so there `DeleteBlob` always fails; the
services are written for a pool that runs, and the models cover both
(`VacuumRunning`).

What makes the components correct:

* metadata store: no row without its namespace (`ForeignKeys`); a manifest row
  changes only by its deletion (`ManifestRowsFinal`); the referrers index
  agrees with the manifests (`ReferrersIndexed`);
* services and blob store together: a row implies bytes (`RegisteredHasBytes`,
  `ActiveManifestHasBytes`); when nothing is in progress, bytes imply a row
  (`NoOrphanAtRest`); seen from the clients, each push and pull of a
  blob, and each put, get and delete of a manifest, takes effect at one moment
  between its start and its answer (`ImplementsCatalog`, `ImplementsManifests`);
  an upload session survives the requests that overlap on it, since only a
  cancellation and a commit that took it as it was, right or wrong, end it
  (`SessionsKept`);
* file system blob store: what is at a blob path are the bytes of its digest
  (`CommittedContent`), on the disk before they can be found (`PutDurable`); no
  temporary file is forgotten (`TempFilesOwned`); each call, in its several
  system calls, does what the contract says in one step (`ImplementsBlobStore`,
  `AppendAnswers`);
* HTTP layer: every repository name reaches the handler its path documents
  (`RoutedRight`), every range is served as asked or refused (`RangesRight`);
* process: a signal ends it (`SignalStops`): from then on it waits for nothing but
  its deadline (`NeverHangs`), and each of its steps brings the end nearer
  (`WindsDown`); it reports success only when no request was cut off
  (`CleanExit`);
* vacuum process: no send on a closed channel (`SendOnOpen`), no pool that
  cannot be stopped (`StopReachable`), no worker or command that outlives its
  pool (`NoWorkerLeft`), answers that tell what happened
  (`ImplementsDeletion`), and no call, start or stop that waits for ever: no
  command is lost (`NoCommandLost`), somebody can always go on (`NoDeadlock`),
  and under fair scheduling everybody does (`CallsReturn`, `StopReturns`).

`PROJECT.json` lists every component with its status and every hazard of the
code at its line, with the properties that cover it.

## The modules

| Module | What it is |
|---|---|
| `SystemConstants` | names and faults shared by all |
| `Metastore` | the tables; one action per transaction that commits |
| `BlobStore` | what `internal/blobstore/contract.go` promises: each call one step |
| `FsBlobStore` | the same calls as `fs/` carries them out: system calls on names and inodes; shown to implement `BlobStore` |
| `BlobService` | the ten blob operations as sequences of store calls |
| `ManifestService` | put, get, head and delete of manifests, and the referrers query |
| `Registry` | all of them composed, with namespaces and crashes; the properties |
| `BlobCatalog` | abstract specification of the blob API: a set that grows, and atomic calls |
| `ManifestCatalog` | abstract specification of the manifest API: entries that are put once and withdrawn for good |
| `VacuumManager` | the vacuum process; its properties |
| `BlobDeletion` | abstract specification of deletion: no workers, channels or locks |
| `Paths` | the paths of blobs and staging files |
| `Routes` | which handler a path reaches, and with which repository name |
| `Ranges` | the arithmetic of `Range`, `Content-Range` and offsets |
| `Server` | the process from start to exit, with requests that use `Routes` and `Ranges`; their properties |
| `MCRegistry`, `MCVacuum`, `MCFsBlobStore`, `MCServer` | instances for TLC |
| `RegistryTypes`, `RegistryProofs`, `CatalogProofs` | theorems about `Registry` |
| `VacuumProofs`, `DeletionProofs` | theorems about `VacuumManager` |
| `FsBlobProofs` | theorems about `FsBlobStore` and `Paths` |
| `RoutesProofs`, `ServerProofs` | theorems about `Routes` and `Server` |

`Registry` EXTENDS the two services, which EXTEND the two stores. `Registry`
instantiates `BlobCatalog` and `ManifestCatalog`, `VacuumManager` instantiates `BlobDeletion` and
`FsBlobStore` instantiates `BlobStore`, each with a refinement mapping. So the
services are checked over the contract of the blob store, and the contract is
checked of the file system store: under the assumption on clients given below,
what holds of `Registry` holds of the services over `FsBlobStore`.

Operators that begin a comment with "Mutant:" are not part of the model. Each
is a plausible bug; put in the place of the definition that follows it, it
makes a property fail, which shows that the property depends on that line of
the code. `PROJECT.json` says which property each one breaks.

## How the models correspond to the code

`PROJECT.json` maps every definition to the lines it stands for. The
conventions:

* **Requests.** A slot of `BlobRequest` or `ManifestRequest` is a goroutine
  that serves one request after another. `pc` names the next call of a store,
  and an action is that call with the code up to the next one. So two requests
  interleave at every call of a store, which is where the program can be
  interleaved: between calls a handler touches no shared state.
* **Metadata store.** `Atomic` begins a transaction on a pool of one write
  connection, so a transaction is one action. It commits, or it fails and
  changes nothing. It can fail because the context is cancelled, because the
  database fails (`"metastore" \in Faults`), or because a foreign key does not
  hold.
* **Blob store.** `files` holds the pairs (namespace, digest) at whose path
  there is a file. The bytes of a committed file are those of its digest, so
  they are not in the state. The bytes of a session are a sequence of pieces,
  one per PATCH, and `Content` gives the pieces of each digest.
* **Files.** In `FsBlobStore` a staging file is a member of `Upload` or `Temp`,
  the UUID of its name, and stands for its inode. `staging` says whether the
  name is there, `blobs` which inode a blob path names; after `os.Link` the two
  are one file. A thread keeps the inode it has opened when the name goes.
  Every system call that another thread can see is an action; `os.Stat` or
  `os.OpenFile` followed by a comparison is one, since what was read cannot be
  used for anything else, and the file is then reached again by name or by
  handle. `"disk" \in Faults` lets each call fail, `"disconnect"` lets a body
  break off. `left` and `ended` are history: they are read by properties and,
  `ended`, by the assumption on clients, never by a step of the store.
* **Clients of a session.** `Exclusive` says that the calls on one session come
  one after the other, which the store leaves to the client (the OCI
  specification asks for chunks in order), and `~LateAppends` that a client does
  not append once a commit of its session got to the link. With either dropped
  `CommittedContent` is false; for the second this is the run `CommitRetried`.
* **Requests of `Server`.** A path is the sequence of its segments, so a
  repository name with components is a sequence and the search for the
  rightmost separator is a search for a segment. Numbers in headers have no
  bound; `ParseInt` turns what exceeds `MaxInt`, the largest `int64`, into
  `MaxInt`, as the code does by ignoring the error. `ServerAssumption` says what
  requests may be: a blob has at most `MaxInt` bytes and a session fewer, since
  the sizes of files are `int64`. The stores are only the
  handle `store`: what the calls do is `Registry`.
* **Contexts.** `alive` is FALSE once the client has gone. Calls that take the
  context look at it; `PutBlob`, `StatBlob` and the session calls do not, in
  the code and in the model.
* **Crash.** All requests are forgotten, tables and files stay. A crash may
  come between any two calls.
* **Answers.** `reply` is the class of the HTTP answer: `accepted` is the 202
  of a session, `rejected` a 4xx about the body, `truncated` a 206 whose file
  turns out not to be there, `error` a 5xx, a 206 that the disk breaks off, or an
  answer that never reaches the client.
* **Vacuum process.** `call[c].pc` follows `removeBatch` (`rlock`, `send`,
  `wait`, `answered`); `Holds` is the read lock from `RLock` to the deferred
  `RUnlock`. `ctl[k].pc` follows `StartVacuumProcess` and the stop function;
  in `startIn` and `stopIn` the controller has asked for the write lock, and
  from then on keeps new readers out, as `sync.RWMutex` does. A pool is numbered
  so that the stop function of an old pool can be told from that of a new one.
  The field `stopVacuum` is read and written without a lock in the code; the
  model reads and writes it in one step each, which is what a word-sized
  pointer does, and lets the steps interleave with everything.

## The runs

All bounds are in the `.cfg` files. Two of a kind are enough for the races
here: each involves one row, one file or one session and two requests that
touch it. The proofs remove the bounds for every property of a passing run except
liveness.

| Run | Instance | Distinct states | Shows |
|---|---|---|---|
| `Uploads` | as shipped (no pool); 2 requests of any blob operation, 1 namespace, 1 digest of two pieces, 1 session of at most 3 pieces; all faults | 125 thousand | `TypeOK`, `ForeignKeys`, `RegisteredHasBytes`, `ImplementsCatalog`, `SessionsKept` |
| `Cleanup` | pool running; 2 requests that upload or mount, 2 namespaces, 1 digest, 1 session; transactions may fail | 658 thousand | `NoOrphanAtRest` |
| `Manifests` | pool running; 2 manifest requests, 1 namespace, a manifest and one that names it as subject, 2 media types; all faults | 157 thousand | `ForeignKeys`, `ActiveManifestHasBytes`, `ReferrersIndexed`, `ManifestRowsFinal`, `ImplementsManifests` |
| `Vacuum` | 2 callers, 2 controllers, 2 successive pools of 1 worker, 1 blob; disk errors, cancellation | 218 thousand | `TypeOK`, `SendOnOpen`, `StopReachable`, `NoWorkerLeft`, `NoCommandLost`, `NoDeadlock` |
| `Sweeps` | 2 callers, 1 controller, 1 pool of 2 workers, 1 blob, 1 staging file; disk errors | 82 thousand | `ImplementsDeletion` |
| `VacuumLive` | 2 callers, 1 controller, 2 successive pools of 1 worker, 1 blob; disk errors | 51 thousand | `CallsReturn`, `StopReturns` |
| `Staging` | 2 threads, 1 session, 1 temporary file, 1 digest of two pieces, files of at most 3; disk errors, broken bodies, sweeps, deletions, crashes; a session used by one call at a time and not after its commit | 124 thousand | `FsTypeOK`, `CommittedContent`, `PutDurable`, `TempFilesOwned`, `AppendAnswers`, `ImplementsBlobStore` |
| `Server` | 2 clients with one request each; all 15 operations on 7 repository names; all headers with positions up to `MaxInt` + 2, `MaxInt` = 2, on blobs and sessions of every size up to it | 128 thousand | `TypeOK`, `RoutedRight`, `RangesRight`, `CleanExit`, `NeverHangs`, `WindsDown`, `SignalStops` |
| `ManifestPutAgain`, `CleanupRace`, `SweepRace`, `CommitRetried` | small | few | each violated, see below |

Why these bounds. In `Uploads` a digest of two pieces and a limit of three let a
commit find the session too short, complete, or longer than what it measured,
because the second request can append, commit or cancel between any two calls of
the first. `Cleanup` has two namespaces for the source and
the target of a mount, and the cleanup needs the pool. `Manifests` needs a
digest and its referrer, and two media types to tell an ignored insert from a
replacing one. `Vacuum` has two controllers so that starts and stops overlap,
and two pools so that a stop function can be late for its pool; with one
worker the channel holds one command, so senders meet a full channel. `Sweeps`
has two workers so that two commands are carried out at once. `Staging` has one
temporary file and one session that can hold one piece more than the digest, so
that a body can be short, right and too long, and a put can meet the file of a
commit and the other way round; two puts that race are two threads of which one
is a commit (with two temporary files the run takes four minutes and finds the
same). In `Server` a request changes nothing another one sees, so one request
for each client is enough, and the second client is there to keep the process
waiting. The names begin with, end with and repeat separators; positions go two
beyond `MaxInt` so that two different ones are clamped to the same number.

Symmetry is over request slots and media types (`MCRegistry`) and over callers,
controllers and workers (`MCVacuum`), none of which is named anywhere; `VacuumLive` and
`SweepRace` use none, and `Staging` permutes its threads. Deadlock is checked
in every run but `Server`, where the process exits and the clients are done: in
the others a client can always make another request.

**Fairness** is in two runs. In `Server`, weak fairness of `RunNext` is the
scheduler that runs the main goroutine, and weak fairness of `DeadlinePasses` is
the clock. Handlers have none: a client may stall its body for ever, which is why
`SignalStops` depends on the deadline. In `VacuumLive` (`FairSpec`), weak fairness of each step a
goroutine can take by itself is the Go scheduler. Strong fairness of
`RLock`, `Lock` and `Send` is what Go's `sync.RWMutex` and channels give a
goroutine that waits: they are served in order of arrival, so a goroutine whose
turn comes up again and again is not passed over for ever. Nothing obliges
anybody to call, to cancel, to write a file, or to stop the process. The
result is not obvious, because a stop holds off new calls while it waits for
the old ones, and these wait for workers that the same stop is about to end.

## What the runs found

Four runs state what the repository says and are violated; the finding in
`PROJECT.json` quotes the sentence.

1. `ManifestPutAgain`: put, delete, put of one manifest. The last put is
   answered 201, but `INSERT OR IGNORE` leaves the row pending deletion, so
   the manifest cannot be read (`sqlite/sql.go:26`). The corresponding blob
   statement does reactivate its row.
2. `CleanupRace`: with the vacuum process started, the cleanup after a failed
   registration deletes a file that another upload of the digest has
   registered (`internal/blob/upload.go:69`, and the same at 134-147). As long
   as deletion does not work (below) this cannot happen, which is why
   `RegisteredHasBytes` holds of the program as shipped.
3. `SweepRace`: a staging file that is appended to between the walk and the
   removal is removed although it is no longer stale
   (`fs/vacuum.go:155` and `:160`).
4. `CommitRetried`: a commit links the staging file to the blob path and then
   removes its staging name, so for a moment the session and the committed blob
   are one file. If the process dies there (or the removal fails, which is only
   logged), the session is still found after the restart. A client that
   repeats its last request appends to the committed blob
   (`fs/stream.go:172`).

Three more, read off the code or seen by changing a constant. The program never starts the
vacuum process (`cmd/omnistash/main.go:91`), so deleting a manifest never
deletes its bytes; `VacuumRunning` is FALSE where a run or a theorem is about
the program as shipped. DELETE of a manifest or an upload in a repository
whose name begins with the component `namespaces` reaches the handler that
deletes a namespace (`rest/routes.go:11`): `RoutedRight` leaves these requests
out by `Shadowed`. And with `Exclusive` FALSE in `Staging.cfg`, and one of
`AppendAnswers` and `CommittedContent` checked by itself, TLC finds within seconds
two appends at one offset that are both let in (`fs/stream.go:76`), or an append
between the verification of a commit and its link, so that the blob has other bytes
than those verified (`fs/stream.go:117`). Both need a client that uses a session from two requests at once, which no lock keeps
apart and no document speaks of.

## The proofs

The theorems are about `Registry!Spec`, `VacuumManager!Spec`,
`FsBlobStore!FsSpec` and `Server!Spec`, for every value of the constants that
satisfies the named assumptions of the modules that declare them.

| Theorem | Further assumption | States |
|---|---|---|
| `TypeCorrect` | | `[]TypeOK` |
| `ForeignKeysHold` | | `[]ForeignKeys` |
| `ManifestRowsAreFinal` | | `ManifestRowsFinal` |
| `ReferrersAreIndexed` | | `[]ReferrersIndexed` |
| `RegisteredKeepsBytes` | `NothingRemoved` | `[]RegisteredHasBytes` |
| `ManifestKeepsBytes` | no pool, or no operation that pushes blobs, or `RegistrationsHold` | `[]ActiveManifestHasBytes` |
| `UploadsLeaveNoOrphan` | pool running; no manifest puts; no fault but failing transactions | `[]NoOrphanAtRest` |
| `PutsAreReadable` | no manifest is deleted | `PutManifestIsReadable` |
| `SessionsAreKept` | | `SessionsKept` |
| `RegistryImplementsCatalog` | `NothingRemoved` | `ImplementsCatalog` |
| `RegistryImplementsManifests` | as `ManifestKeepsBytes` | `ImplementsManifests` |
| `VacuumTypeCorrect` | | `[]TypeOK` of `VacuumManager` |
| `NeverSendOnClosed` | | `[]SendOnOpen` |
| `PoolCanBeStopped` | | `[]StopReachable` |
| `StopLeavesNoWorker` | | `[]NoWorkerLeft` |
| `NoCommandIsLost` | | `[]NoCommandLost` |
| `NeverDeadlocked` | | `[]NoDeadlock` |
| `VacuumImplementsDeletion` | | `ImplementsDeletion` |
| `FsTypeCorrect` | | `[]FsTypeOK` |
| `PutIsDurable` | | `[]PutDurable` |
| `TempFilesAreOwned` | | `[]TempFilesOwned` |
| `AppendOffsetRight` | `Exclusive` | `AppendAnswers` |
| `ContentCommitted` | `Exclusive`, `~LateAppends` | `[]CommittedContent` |
| `PutContentKept` | | bytes that a put linked are those of the digest and stay so (`PutSound`) |
| `StoreImplementsContract` | `Exclusive` | `ImplementsBlobStore` |
| `PathsDiffer` | no algorithm is named `.staging` | different blobs and sessions have different paths |
| `PathsApart` | no repository name has `.staging` or the digits of a digest for a component | no file is where another needs a directory |
| `PathsMayMeet` | a repository name may have the digits of a digest for a component | some file is |
| `ServerTypes` | | `[]TypeOK` of `Server` |
| `RouteMeant` | no component of the name is empty | `Route` of a request is what is `Meant`, or the request is `Shadowed` |
| `RequestsReachHandlers` | | `[]RoutedRight` |
| `RangesAnsweredRight` | | `[]RangesRight` |
| `ExitTellsAll` | | `[]CleanExit` |
| `ShutdownNeverHangs` | | `[]NeverHangs` |
| `RunWindsDown` | | `WindsDown` |

`RegistrationsHold` says that no transaction that registers can fail: no failure
of the database, no client that goes, no namespace deleted. `NothingRemoved` is
no pool, or `RegistrationsHold` and no manifest deleted.

The assumptions are not convenience. With a pool and a registration that can
fail, `RegisteredKeepsBytes` and `RegistryImplementsCatalog` are false
(`CleanupRace`), and so are `ManifestKeepsBytes` and with it
`RegistryImplementsManifests` if blobs are pushed (a blob upload of the
manifest's digest is cleaned up). With a pool and a manifest
deleted, a blob of its digest loses its bytes, which it shares; what is still
true then is `ManifestKeepsBytes`. Where a manifest is deleted
`PutsAreReadable` is false (`ManifestPutAgain`). Any failure of `DeleteBlob` itself, a
cancelled context included, leaves an orphan. Without `Exclusive` two appends
at one offset both succeed and answer too small a size, and an append may come
between the verification of a commit and its link; without `~LateAppends`
`ContentCommitted` is false (`CommitRetried`).

The argument:

* *Types.* `TypeOK` is not inductive. `TypeInv` adds that a request that
  waits for a call names what the call needs (`Targeted`, `MTargeted`): a
  transaction is only ever run for a namespace and a digest.
* *Tables.* `MetaEffect` shows that any step of the system changes the tables
  by at most one transaction (`MetaNext`). `ForeignKeys`, `RowsFinal` and
  `ReferrersIndexed` are then shown of one transaction at a time
  (`ForeignKeysStep` and the lemmas after it), whatever request runs it.
* *Bytes.* The row is written last, so the invariant behind
  `RegisteredHasBytes` is that a request at `register` has its file
  (`BytesBeforeRow`). Without a pool nothing removes a file; with one, only the
  cleanup after a failed registration and the deletion of a manifest do, and
  `Unremoved` says that no request is about to do either (`NoCleanup`,
  `NoDeletes`). For manifests with
  a pool, the threat is a late `DeleteBlob` after a put has found the bytes.
  It is harmless only because a deleted row stays deleted: the invariant says
  that a request at `deleteBody` has its row pending deletion. The defect shown
  by `ManifestPutAgain` and this guarantee come from the same statement, and
  repairing the first needs another argument for the second.
* *Orphans.* A file without a row belongs to a request that will still
  register it or clean it up; with a working pool, each of these steps
  discharges the obligation.
* *Refinement.* `CatalogInv` adds which operation waits for which call
  (`OpFits`) and that a request at `open` has found its row
  (`OpensRegistered`); then each action maps to a step of the catalogue or to a
  stutter. A push takes effect when its transaction commits. That is the
  moment even of a mount that is then answered 500, because `MountBlob` closes
  its source after the transaction and answers the error of that
  (`internal/blob/upload.go:229`): the catalogue lets a mount that is answered
  `failed` have taken effect, and no other push.
* *Refinement, manifests.* Here a call does not take effect with its answer: a
  get has found its row before it opens the bytes, and a delete has withdrawn
  the row before it removes them, while other requests delete and put the same
  manifest. The catalogue gives each such call its moment (`See`, `Withdraw`) and
  lets the answer come later. `MFits` says which operation waits for which
  call, `ForeignKeys` that what belongs to no namespace was never put, and
  `ActiveManifestHasBytes` that a get that finds no bytes may answer
  `manifestUnknown`: the manifest is by then not listed. So the theorem rests
  on `ManifestKeepsBytes` and has its assumption.
* *Sessions of the registry.* `SessionsKept` is about what overlapping requests
  do to a session. `UploadsEffect` lists the steps that touch one; of these only a commit
  and a cancellation end it. A commit that succeeds has just compared size and
  bytes. A commit that cancels did so a call earlier, so `SessionInv` carries over
  what it found (`FoundWrong`): the bytes it measured are not those of the digest, and
  chunks that came since leave them where they are (`PrefixKept`). A commit whose
  size had become stale is told so before the bytes are compared, which is why
  it never gets to cancel. The property allows that a chunk
  accepted between such a verification and its cancellation goes with the
  session: what was in it could not have become that blob.
* *Manifests read.* A put is answered while its row is active: without
  deletions every row is (`NoDeletes`), and a put at `store` was not answered
  before (`Unanswered`).
* *Vacuum process.* `VacuumAssumption` asks for finitely many workers and
  controllers and at least one worker. `TypeInv` adds `SendOnOpen`, without
  which the pool a caller sends to need not be one that was made, and
  `PoolsBounded`, which ties the model's bound on pools to the starts in
  progress. `CallMoves` sums up what a step of a caller can do: it is about to
  send only on the pool it loaded. That pool stays `m.jobs` because the caller
  holds the read lock until it returns, and `StartPool` and `StopPool` wait
  until nobody does (`NoReader`).
* *Stopping.* `NoWorkerLeft` needs that a worker exits only from a pool that
  was made, is no longer current and has an empty channel (`Exited`); nothing
  can be sent there any more, by `SendOnOpen`. `StopReachable` needs that the
  field and the stop functions in progress name pools that were made
  (`Numbered`), and that while a stop function is about to be stored its pool
  runs, no other is about to be stored, and nobody is stopping that pool
  (`Assigning`). So the store without a lock in `StartVacuumProcess` never
  overwrites the stop function of a running pool. The conjunction is `PoolInv`.
* *Deletion.* `CommandInv` says that a command is in the channel (`Queued`) or
  with a worker (`Carried`), never both and never twice, and that its caller
  waits with the pool that is current (`Waits`). So a worker deals with a path
  only while the process runs, and only one worker deals with a call. When a
  pool is made or stopped nobody holds the read lock, hence there is no command
  (`NoCommands`). `Shaped` relates the program counter of a caller to its call:
  a call that is not a sweep has removed nothing before it waits, which is why
  giving it up is answered by a plain failure, and an answered call has no path
  left. A step of a caller is then one of the abstract steps that `Effect`
  lists, and a step of a worker `Deal`s with one path or is a stutter.
* *Nobody waits for ever.* `ServiceInv` says that a caller that
  waits has its command in the channel or with a worker (`Served`), that a pool
  that was made has all its workers (`Manned`), that a stop that drains has closed
  its pool (`Draining`), and that a stop others wait for is on its way
  (`Underway`). Suppose nobody can go on: then the channel is empty and no worker
  is busy, so no caller holds the read lock; then nobody who wants a lock waits;
  then the stops have nothing to wait for either. `SomebodyReady`
  goes through these cases, and is `NoDeadlock`.
* *Files.* `TypeInv` adds which file and key a call has at each of its steps
  (`Engaged`), and that a file in use or at a blob path was created, in some
  namespace (`Housed`, `Named`). `PutInv` is what `PutDurable` needs: two puts never have the same temporary
  file (`Private`), a file that is still written has no blob path and no reader
  (`Unread`), and at the link its bytes are verified and synced (`PutReady`).
  Sweeps and crashes leave all of it alone, since a file that has lost its
  name still has its bytes. `PutSound` adds that a file once linked by a put is
  never written again, so its bytes stay those of the digest whatever clients do
  with sessions; `CommitRetried` is confined to blobs that came from a session.
* *Sessions.* Nothing in the store keeps two calls on one session apart, so
  `SerialInv` starts from `Exclusive`: with one user of a file (`OneUser`),
  what was hashed is what will be linked (`Hashed`) and an append knows how
  long the file is (`Counted`). `LinkInv` then has to say that a file that was
  linked is not appended to. The store does not see to it; that no append has
  a session whose commit got to the link (`Unended`) is `~LateAppends`.
* *Contract.* The refinement maps a session to gone from the link of its
  commit on (`Session`), so an append to a committed file is a stutter, and
  `~LateAppends` is not needed: the contract says which blobs are committed,
  and `ContentCommitted` that their bytes are right. A put or a commit takes
  effect at its link, an append with each piece it writes. `Exclusive` is
  needed because the commit that is linked must have, at that moment, the
  bytes that were hashed.
* *Routing.* `Cut`: the part after the repository name begins with a separator
  and has no other, so the rightmost separator ends the name whatever
  components the name has. `OCIMatch`: no two patterns with different handlers
  match one path, so it does not matter how `http.ServeMux` chooses.
* *Process.* `RunInv` says that nobody is let in after `serving`, that the
  store stays open until `run` returns, that a return without an error comes
  after the last answer, and that the deadline is set while it drains. So `run`
  waits for nothing but the deadline (`NeverHangs`), and `Left` counts its steps
  down (`WindsDown`): of `SignalStops` nothing is left to TLC but that the
  scheduler runs `run` and that the clock goes on.
* *Paths.* A path ends with the two components that tell a blob or a session
  from the others of its repository (`Ends`), so whatever components the names
  have, equal paths have equal keys.

Not proved, only model-checked: the liveness properties (`CallsReturn`,
`StopReturns`, `SignalStops`), since liveness under fairness is beyond the
prover used here. What they need from safety is proved: `NoCommandLost`,
`NoDeadlock`, `NeverHangs` and `WindsDown`.

## What is not modelled

* What two calls on one session at the same time should do. `AppendBlobChunk` checks
  the size before it writes, and `FinalizeBlobUpload` verifies before it links; the
  steps are in `FsBlobStore`, and with `Exclusive` FALSE they interleave and break
  `AppendAnswers` and `CommittedContent`. `Registry` takes each call as one step, so what
  it shows of sessions is about requests that overlap, not about calls that do.
* The length of a chunk against its `Content-Range`, which the code does not compare,
  and a PUT without `Content-Length`, whose body the code ignores.
* Directories. Different keys have different paths (`PathsDiffer`), which is why
  the models can use keys. That a directory can be made where it is needed is
  `PathsApart`; it fails in a repository whose name has the digits of a digest
  for a component (`PathsMayMeet`), and the calls there would then fail too.
* The syntax of headers, names, digests and bodies. A digest is a
  model value that stands for the content it is of; a manifest's subject is
  the constant `Subject`.
* The filter of the referrers query, descriptors, annotations, sizes: functions
  of the digest that no property reads.
* Loss of data by the operating system: a crash loses the process only.
  `PutDurable` says what has been synced, not what a power failure leaves.
* Redirects of `http.ServeMux` (a path with an empty segment, or without its last
  slash), keep-alive connections.
* The migration command, health, flags, logging, tests, CI.

## Plan

What is left, in order:

1. A run of both services on one digest, for the bytes a manifest and a blob
   share, with the vacuum process running.
2. Liveness of requests: every request is answered when the stores answer.
3. The migration command: two of them at once, and a server that starts before
   it has run.

## Running

    tlc -config Uploads.cfg MCRegistry.tla
    tlc -config Vacuum.cfg MCVacuum.tla
    tlc -config Staging.cfg MCFsBlobStore.tla
    tlc -config Server.cfg MCServer.tla
    tlapm RegistryTypes.tla
    tlapm RegistryProofs.tla
    tlapm CatalogProofs.tla
    tlapm VacuumProofs.tla
    tlapm DeletionProofs.tla
    tlapm FsBlobProofs.tla
    tlapm RoutesProofs.tla
    tlapm ServerProofs.tla

With two workers `Uploads` and `Manifests` take about three minutes each, `Cleanup`
and `Sweeps` about two, the others less.
