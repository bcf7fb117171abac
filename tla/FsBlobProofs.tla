---------------------------- MODULE FsBlobProofs ----------------------------
(***************************************************************************)
(* The safety of FsBlobStore, for every number of threads, sessions,       *)
(* temporary files, namespaces and digests.                                *)
(***************************************************************************)
EXTENDS FsBlobStore, Paths, TLAPS

Pc == {"idle", "write", "hash", "link", "remove", "copy", "read"}

Op == {"none", "put", "append", "finalize", "read"}

AnyKey == Key \cup {<<NoNamespace, NoDigest>>}

(* What the program counter of a thread says about its call. *)
Engaged(t) ==
    /\ (call[t].op = "none") <=> Idle(t)
    /\ call[t].op = "put" =>
          /\ call[t].pc \in {"write", "link", "remove"}
          /\ call[t].file \in Temp /\ call[t].key \in Key
          /\ staging[call[t].file] # "unused"
    /\ call[t].op \in {"append", "finalize"} =>
          /\ call[t].file \in Upload
          /\ staging[call[t].file] # "unused"
    /\ call[t].op = "append" => call[t].pc = "copy" /\ call[t].reply = "none"
    /\ call[t].op = "finalize" =>
          /\ call[t].pc \in {"hash", "link", "remove"}
          /\ call[t].key \in Key /\ call[t].key[1] = home[call[t].file]
    /\ call[t].op = "read" =>
          /\ call[t].pc = "read" /\ call[t].key \in Key /\ call[t].file \in File
          /\ staging[call[t].file] # "unused"

(* A file that was ever created has a home, and only such a file is committed. *)
Housed == \A f \in File : staging[f] # "unused" => home[f] \in Namespace
Named == \A k \in Key : blobs[k] # NoFile => staging[blobs[k]] # "unused"

TypeInv == FsTypeOK /\ Housed /\ Named /\ \A t \in Thread : Engaged(t)

-----------------------------------------------------------------------------
(* The operators on calls and files, point by point *)

Others(t) == \A x \in Thread : x # t => call'[x] = call[x]

LEMMA Begins ==
    ASSUME FsTypeOK, NEW t \in Thread, NEW op \in Op, NEW pc \in Pc, NEW key \in AnyKey,
           NEW f \in File, NEW size \in Nat, Begin(t, op, pc, key, f, size)
    PROVE  /\ call' \in [Thread -> Call] /\ Others(t)
           /\ call'[t].op = op /\ call'[t].pc = pc /\ call'[t].key = key
           /\ call'[t].file = f /\ call'[t].size = size /\ call'[t].added = 0
           /\ call'[t].reply = "none"
<1> DEFINE q == [op |-> op, pc |-> pc, key |-> key, file |-> f,
                 size |-> size, added |-> 0, reply |-> "none"]
<1>1. q \in Call
  BY DEF Call, Op, Pc, AnyKey, Reply
<1>2. call' = [call EXCEPT ![t] = q]
  BY DEF Begin
<1> QED BY <1>1, <1>2 DEF FsTypeOK, Others

LEMMA Goes ==
    ASSUME FsTypeOK, NEW t \in Thread, NEW pc \in Pc, NEW reply \in Reply, Go(t, pc, reply)
    PROVE  /\ call' \in [Thread -> Call] /\ Others(t)
           /\ call'[t].op = call[t].op /\ call'[t].pc = pc /\ call'[t].key = call[t].key
           /\ call'[t].file = call[t].file /\ call'[t].size = call[t].size
           /\ call'[t].added = call[t].added /\ call'[t].reply = reply
<1> DEFINE q == [call[t] EXCEPT !.pc = pc, !.reply = reply]
<1>1. q \in Call
  BY DEF FsTypeOK, Call, Pc
<1>2. call' = [call EXCEPT ![t] = q]
  BY DEF Go, FsTypeOK
<1>3. call[t] \in Call
  BY DEF FsTypeOK
<1> QED BY <1>1, <1>2, <1>3 DEF FsTypeOK, Others, Call

LEMMA Returns ==
    ASSUME FsTypeOK, NEW t \in Thread, NEW reply \in Reply, NEW n \in Nat, Return(t, reply, n)
    PROVE  /\ call' \in [Thread -> Call] /\ Others(t)
           /\ call'[t].op = "none" /\ call'[t].pc = "idle" /\ call'[t].file = NoFile
           /\ call'[t].size = n /\ call'[t].reply = reply
<1>1. Answered(reply, n) \in Call
  BY DEF Answered, Call
<1>2. call' = [call EXCEPT ![t] = Answered(reply, n)]
  BY DEF Return
<1> QED BY <1>1, <1>2 DEF FsTypeOK, Others, Answered

(* An append counts what it has written; nothing else of its call changes. *)
SameCalls ==
    \A x \in Thread : /\ call'[x].op = call[x].op /\ call'[x].pc = call[x].pc
                      /\ call'[x].file = call[x].file /\ call'[x].key = call[x].key
                      /\ call'[x].size = call[x].size /\ call'[x].reply = call[x].reply

LEMMA Counts ==
    ASSUME FsTypeOK, NEW t \in Thread, call' = [call EXCEPT ![t].added = @ + 1]
    PROVE  /\ call' \in [Thread -> Call] /\ SameCalls
           /\ call'[t].added = call[t].added + 1
           /\ Others(t)
<1> DEFINE q == [call[t] EXCEPT !.added = @ + 1]
<1>1. call[t] \in Call
  BY DEF FsTypeOK
<1>2. q \in Call
  BY <1>1 DEF Call
<1>3. call' = [call EXCEPT ![t] = q]
  BY DEF FsTypeOK
<1>4. call' \in [Thread -> Call] /\ call'[t] = q /\ Others(t)
  BY <1>2, <1>3 DEF FsTypeOK, Others
<1>5. /\ q.op = call[t].op /\ q.pc = call[t].pc /\ q.file = call[t].file /\ q.key = call[t].key
      /\ q.size = call[t].size /\ q.reply = call[t].reply /\ q.added = call[t].added + 1
  BY <1>1 DEF Call
<1> QED BY <1>4, <1>5 DEF SameCalls, Others

LEMMA Creates ==
    ASSUME FsTypeOK, NEW n \in Namespace, NEW f \in File, Create(n, f)
    PROVE  /\ staging[f] = "unused" /\ staging'[f] = "there" /\ home'[f] = n
           /\ \A g \in File : g # f => staging'[g] = staging[g] /\ home'[g] = home[g]
           /\ UNCHANGED <<bytes, synced>>
           /\ staging' \in [File -> {"unused", "there", "gone"}]
           /\ home' \in [File -> Namespace \cup {NoNamespace}]
BY DEF Create, FsTypeOK

LEMMA Writes ==
    ASSUME FsTypeOK, NEW f \in File, NEW p \in Piece, Write(f, p)
    PROVE  /\ bytes' \in [File -> Seq(Piece)]
           /\ bytes'[f] = Append(bytes[f], p) /\ Len(bytes'[f]) = Len(bytes[f]) + 1
           /\ \A g \in File : g # f => bytes'[g] = bytes[g]
           /\ UNCHANGED <<staging, home, synced>>
BY DEF Write, FsTypeOK

LEMMA Syncs ==
    ASSUME FsTypeOK, NEW f \in File, Sync(f)
    PROVE  /\ synced' \in [File -> Nat]
           /\ synced'[f] = Len(bytes[f])
           /\ \A g \in File : g # f => synced'[g] = synced[g]
           /\ UNCHANGED <<staging, home, bytes>>
BY DEF Sync, FsTypeOK

LEMMA Unlinks ==
    ASSUME FsTypeOK, NEW f \in File, Unlink(f)
    PROVE  /\ staging' \in [File -> {"unused", "there", "gone"}]
           /\ staging'[f] # "there" /\ (staging'[f] = "unused" <=> staging[f] = "unused")
           /\ \A g \in File : g # f => staging'[g] = staging[g]
           /\ UNCHANGED <<home, bytes, synced>>
BY DEF Unlink, FsTypeOK

LEMMA Links ==
    ASSUME FsTypeOK, NEW f \in File, NEW key \in Key, Link(f, key)
    PROVE  /\ blobs' \in [Key -> File \cup {NoFile}]
           /\ staging[f] = "there" /\ blobs[key] = NoFile /\ blobs'[key] = f
           /\ \A k \in Key : k # key => blobs'[k] = blobs[k]
BY DEF Link, FsTypeOK

-----------------------------------------------------------------------------
(* Types *)

(* A file that was created stays created, at home where it was. *)
FilesKept ==
    \A f \in File : staging[f] # "unused" => staging'[f] # "unused" /\ home'[f] = home[f]

LEMMA OthersEngaged ==
    ASSUME TypeInv, NEW t \in Thread, Others(t), FilesKept, Engaged(t)'
    PROVE  \A x \in Thread : Engaged(x)'
<1> SUFFICES ASSUME NEW x \in Thread, x # t PROVE Engaged(x)'
  OBVIOUS
<1>1. call'[x] = call[x] /\ Engaged(x)
  BY DEF Others, TypeInv
<1>2. call[x].op \in {"append", "finalize", "put"} => call[x].file \in File
  BY <1>1 DEF Engaged, File
<1> QED BY <1>1, <1>2 DEF Engaged, FilesKept, Idle

(* A call that returns, while the files are kept. *)
LEMMA ReturnsTyped ==
    ASSUME TypeInv, NEW t \in Thread, NEW reply \in Reply, NEW n \in Nat,
           Return(t, reply, n), FilesKept
    PROVE  call' \in [Thread -> Call] /\ \A x \in Thread : Engaged(x)'
<1>1. Others(t) /\ Engaged(t)' /\ call' \in [Thread -> Call]
  BY Returns DEF TypeInv, Engaged, Idle
<1> QED BY <1>1, OthersEngaged

LEMMA Unchanged ==
    ASSUME TypeInv, UNCHANGED <<fileVars, blobs, ended, left>>,
           call' \in [Thread -> Call], \A t \in Thread : Engaged(t)'
    PROVE  TypeInv'
BY DEF TypeInv, FsTypeOK, Housed, Named, fileVars

LEMMA CreatesKeeps ==
    ASSUME TypeInv, NEW n \in Namespace, NEW f \in File, Create(n, f), UNCHANGED blobs
    PROVE  FilesKept /\ Housed' /\ Named'
<1>1. /\ staging[f] = "unused" /\ staging'[f] = "there" /\ home'[f] = n
      /\ \A g \in File : g # f => staging'[g] = staging[g] /\ home'[g] = home[g]
  BY Creates DEF TypeInv
<1>2. FilesKept
  BY <1>1 DEF FilesKept
<1>3. Housed'
  BY <1>1 DEF TypeInv, Housed
<1>4. Named'
  BY <1>2 DEF TypeInv, FsTypeOK, Named, FilesKept
<1> QED BY <1>2, <1>3, <1>4

LEMMA FileOfCall ==
    ASSUME TypeInv, NEW t \in Thread, call[t].op \in {"put", "append", "finalize", "read"}
    PROVE  /\ call[t].file \in File /\ staging[call[t].file] # "unused"
           /\ call[t].size \in Nat /\ call[t].added \in Nat /\ call[t].reply \in Reply
           /\ Len(bytes[call[t].file]) \in Nat
BY DEF TypeInv, Engaged, File, FsTypeOK, Call

LEMMA PutTypes ==
    ASSUME FsAssumption, TypeInv, NEW t \in Thread, PutNext(t)
    PROVE  TypeInv'
<1> USE DEF Reply, Op, Pc
<1>1. ASSUME NEW n \in Namespace, NEW d \in Digest, NEW size \in 0 .. MaxLength, NEW f \in Temp,
             PutCreate(t, n, d, size, f)
      PROVE  TypeInv'
  <2>1. f \in File /\ <<n, d>> \in Key /\ <<n, d>> \in AnyKey /\ size \in Nat /\ FsTypeOK
    BY <1>1 DEF File, Key, AnyKey, FsAssumption, TypeInv
  <2>2. Create(n, f) /\ Begin(t, "put", "write", <<n, d>>, f, size) /\ UNCHANGED <<blobs, ended, left>>
    BY <1>1 DEF PutCreate
  <2>3. FilesKept /\ Housed' /\ Named'
    BY <2>1, <2>2, CreatesKeeps
  <2>4. Others(t) /\ Engaged(t)' /\ call' \in [Thread -> Call]
    BY <2>1, <2>2, Creates, Begins DEF Engaged, Idle
  <2> QED BY <2>1, <2>2, <2>3, <2>4, OthersEngaged, Creates DEF TypeInv, FsTypeOK
<1>2. ASSUME NEW size \in 0 .. MaxLength, PutRefused(t, size)
      PROVE  TypeInv'
  <2>1. PICK r \in Reply : Return(t, r, 0) /\ UNCHANGED <<fileVars, blobs, ended, left>>
    BY <1>2 DEF PutRefused
  <2>2. FilesKept
    BY <2>1 DEF FilesKept, fileVars
  <2> QED BY <2>1, <2>2, ReturnsTyped, Unchanged
<1>3. ASSUME NEW p \in Piece, PutWrite(t, p)
      PROVE  TypeInv'
  <2>1. call[t].op = "put" /\ Write(call[t].file, p) /\ UNCHANGED <<blobs, ended, left, call>>
    BY <1>3 DEF PutWrite, At
  <2>2. bytes' \in [File -> Seq(Piece)] /\ UNCHANGED <<staging, home, synced>>
    BY <2>1, FileOfCall, Writes DEF TypeInv
  <2>3. \A x \in Thread : Engaged(x)'
    BY <2>1, <2>2 DEF TypeInv, Engaged, Idle
  <2> QED BY <2>1, <2>2, <2>3 DEF TypeInv, FsTypeOK, Housed, Named
<1>4. ASSUME NEW pc \in {"link", "remove"}, NEW r \in Reply, call[t].op = "put", Go(t, pc, r), FilesKept
      PROVE  call' \in [Thread -> Call] /\ \A x \in Thread : Engaged(x)'
  <2>1. Others(t) /\ call' \in [Thread -> Call]
    BY <1>4, Goes DEF TypeInv
  <2>2. call'[t].op = "put" /\ call'[t].pc = pc /\ call'[t].key = call[t].key /\ call'[t].file = call[t].file
    BY <1>4, Goes DEF TypeInv
  <2>3. Engaged(t)'
    BY <1>4, <2>2, FileOfCall DEF Engaged, TypeInv, Idle, FilesKept
  <2> QED BY <1>4, <2>1, <2>3, OthersEngaged
<1>5. CASE PutBreaks(t)
  <2>1. PICK r \in Reply : Go(t, "remove", r) /\ UNCHANGED <<fileVars, blobs, ended, left>>
    BY <1>5 DEF PutBreaks
  <2>2. FilesKept /\ call[t].op = "put"
    BY <1>5, <2>1 DEF FilesKept, fileVars, PutBreaks, At
  <2> QED BY <2>1, <2>2, <1>4, Unchanged
<1>6. CASE PutSync(t)
  <2>1. /\ call[t].op = "put" /\ Sync(call[t].file) /\ UNCHANGED <<blobs, ended, left>>
        /\ \E pc \in {"link", "remove"}, r \in Reply : Go(t, pc, r)
    BY <1>6 DEF PutSync, At
  <2>2. synced' \in [File -> Nat] /\ UNCHANGED <<staging, home, bytes>>
    BY <2>1, FileOfCall, Syncs DEF TypeInv
  <2>3. call' \in [Thread -> Call] /\ \A x \in Thread : Engaged(x)'
    BY <2>1, <2>2, <1>4 DEF FilesKept
  <2> QED BY <2>1, <2>2, <2>3 DEF TypeInv, FsTypeOK, Housed, Named
<1>7. CASE PutSyncFails(t)
  <2>1. PICK r \in Reply : Go(t, "remove", r) /\ UNCHANGED <<fileVars, blobs, ended, left>>
    BY <1>7 DEF PutSyncFails
  <2>2. FilesKept /\ call[t].op = "put"
    BY <1>7, <2>1 DEF FilesKept, fileVars, PutSyncFails, At
  <2> QED BY <2>1, <2>2, <1>4, Unchanged
<1>8. CASE PutLink(t)
  <2>1. /\ call[t].op = "put" /\ UNCHANGED <<fileVars, ended, left>>
        /\ \E r \in Reply : Go(t, "remove", r)
        /\ Link(call[t].file, call[t].key) \/ UNCHANGED blobs
    BY <1>8 DEF PutLink, At
  <2>2. call' \in [Thread -> Call] /\ \A x \in Thread : Engaged(x)'
    BY <2>1, <1>4 DEF FilesKept, fileVars
  <2>3. blobs' \in [Key -> File \cup {NoFile}] /\ Named'
    <3>1. CASE UNCHANGED blobs
      BY <2>1, <3>1 DEF TypeInv, FsTypeOK, Named, fileVars
    <3>2. CASE Link(call[t].file, call[t].key)
      BY <2>1, <3>2, FileOfCall, Links DEF TypeInv, Named, Engaged, fileVars
    <3> QED BY <2>1, <3>1, <3>2
  <2> QED BY <2>1, <2>2, <2>3 DEF TypeInv, FsTypeOK, Housed, fileVars
<1>9. CASE PutRemove(t)
  <2> DEFINE f == call[t].file
  <2>1. /\ call[t].op = "put" /\ f \in File /\ f \in Temp /\ UNCHANGED <<blobs, ended>>
        /\ \/ Unlink(f) /\ UNCHANGED left
           \/ left' = left \cup {f} /\ UNCHANGED fileVars
        /\ \E r \in Reply, n \in Nat : Return(t, r, n)
    BY <1>9, FileOfCall DEF PutRemove, At, TypeInv, Engaged
  <2> HIDE DEF f
  <2>2. /\ staging' \in [File -> {"unused", "there", "gone"}] /\ UNCHANGED <<home, bytes, synced>>
        /\ \A g \in File : staging'[g] = "unused" <=> staging[g] = "unused"
        /\ left' \subseteq Temp
    BY <2>1, Unlinks DEF TypeInv, FsTypeOK, fileVars
  <2>3. FilesKept
    BY <2>2 DEF FilesKept
  <2>4. call' \in [Thread -> Call] /\ \A x \in Thread : Engaged(x)'
    BY <2>1, <2>3, ReturnsTyped
  <2> QED BY <2>1, <2>2, <2>4 DEF TypeInv, FsTypeOK, Housed, Named
<1> QED BY <1>1, <1>2, <1>3, <1>5, <1>6, <1>7, <1>8, <1>9 DEF PutNext

(* The calls that only answer. *)
LEMMA AnswersTyped ==
    ASSUME TypeInv, NEW t \in Thread, NEW reply \in Reply, NEW n \in Nat,
           Return(t, reply, n), UNCHANGED <<fileVars, blobs, ended, left>>
    PROVE  TypeInv'
<1>1. FilesKept
  BY DEF FilesKept, fileVars
<1> QED BY <1>1, ReturnsTyped, Unchanged

LEMMA SessionTypes ==
    ASSUME FsAssumption, TypeInv, NEW t \in Thread, SessionNext(t)
    PROVE  TypeInv'
<1> USE DEF Reply, Op, Pc
<1>0. FsTypeOK /\ <<NoNamespace, NoDigest>> \in AnyKey /\ (UNCHANGED fileVars => FilesKept)
  BY DEF TypeInv, AnyKey, FilesKept, fileVars
<1>1. ASSUME NEW n \in Namespace, NEW u \in Upload, SessionRefused(t, n, u)
      PROVE  TypeInv'
  <2>1. PICK r \in Reply : Return(t, r, 0)
    BY <1>1 DEF SessionRefused
  <2> QED BY <1>1, <2>1, AnswersTyped DEF SessionRefused
<1>2. ASSUME NEW n \in Namespace, NEW u \in Upload, NEW offset \in 0 .. MaxLength,
             AppendOpen(t, n, u, offset)
      PROVE  TypeInv'
  <2>1. /\ u \in File /\ offset \in Nat /\ staging[u] # "unused"
        /\ UNCHANGED <<fileVars, blobs, ended, left>>
    BY <1>2 DEF AppendOpen, Staged, File, FsAssumption
  <2>2. CASE Return(t, "range", 0)
    BY <2>1, <2>2, AnswersTyped
  <2>3. CASE Begin(t, "append", "copy", <<NoNamespace, NoDigest>>, u, offset)
    <3>1. Others(t) /\ call' \in [Thread -> Call]
      BY <1>0, <2>1, <2>3, Begins
    <3>2. Engaged(t)'
      BY <1>0, <2>1, <2>3, Begins DEF Engaged, Idle, fileVars
    <3> QED BY <1>0, <2>1, <3>1, <3>2, OthersEngaged, Unchanged
  <2> QED BY <1>2, <2>2, <2>3 DEF AppendOpen
<1>3. ASSUME NEW n \in Namespace, NEW u \in Upload, GetBlobUploadOffset(t, n, u)
      PROVE  TypeInv'
  <2>1. Len(bytes[u]) \in Nat
    BY DEF TypeInv, FsTypeOK, File
  <2> QED BY <1>3, <2>1, AnswersTyped DEF GetBlobUploadOffset
<1>4. ASSUME NEW n \in Namespace, NEW u \in Upload, NEW d \in Digest, NEW size \in 0 .. MaxLength,
             FinalizeStat(t, n, u, d, size)
      PROVE  TypeInv'
  <2>1. /\ u \in File /\ size \in Nat /\ staging[u] # "unused" /\ home[u] = n
        /\ <<n, d>> \in Key /\ <<n, d>> \in AnyKey
        /\ UNCHANGED <<fileVars, blobs, ended, left>>
    BY <1>4 DEF FinalizeStat, Staged, File, FsAssumption, Key, AnyKey
  <2>2. CASE Return(t, "sizeInvalid", 0)
    BY <2>1, <2>2, AnswersTyped
  <2>3. CASE Begin(t, "finalize", "hash", <<n, d>>, u, size)
    <3>1. Others(t) /\ call' \in [Thread -> Call]
      BY <1>0, <2>1, <2>3, Begins
    <3>2. Engaged(t)'
      BY <1>0, <2>1, <2>3, Begins DEF Engaged, Idle, fileVars
    <3> QED BY <1>0, <2>1, <3>1, <3>2, OthersEngaged, Unchanged
  <2> QED BY <1>4, <2>2, <2>3 DEF FinalizeStat
<1>5. ASSUME NEW f \in File, Unlink(f)
      PROVE  /\ staging' \in [File -> {"unused", "there", "gone"}]
             /\ UNCHANGED <<home, bytes, synced>> /\ FilesKept
             /\ (UNCHANGED blobs => Housed' /\ Named')
  <2>1. /\ staging' \in [File -> {"unused", "there", "gone"}]
        /\ UNCHANGED <<home, bytes, synced>>
        /\ \A g \in File : staging'[g] = "unused" <=> staging[g] = "unused"
    BY <1>5, <1>0, Unlinks
  <2> QED BY <2>1 DEF FilesKept, TypeInv, FsTypeOK, Housed, Named
<1>6. ASSUME NEW n \in Namespace, NEW u \in Upload, CancelBlobUpload(t, n, u)
      PROVE  TypeInv'
  <2>1. /\ u \in File /\ UNCHANGED <<blobs, ended, left>>
        /\ Unlink(u) \/ UNCHANGED fileVars
        /\ \E r \in Reply : Return(t, r, 0)
    BY <1>6 DEF CancelBlobUpload, File
  <2>2. CASE UNCHANGED fileVars
    BY <2>1, <2>2, AnswersTyped
  <2>3. CASE Unlink(u)
    <3>1. call' \in [Thread -> Call] /\ \A x \in Thread : Engaged(x)'
      BY <2>1, <2>3, <1>5, ReturnsTyped
    <3> QED BY <2>1, <2>3, <1>5, <3>1 DEF TypeInv, FsTypeOK
  <2> QED BY <2>1, <2>2, <2>3
<1>7. ASSUME NEW p \in Piece, AppendCopy(t, p)
      PROVE  TypeInv'
  <2>1. /\ call[t].op = "append" /\ Write(call[t].file, p) /\ UNCHANGED <<blobs, ended, left>>
        /\ call' = [call EXCEPT ![t].added = @ + 1]
    BY <1>7 DEF AppendCopy, At
  <2>2. bytes' \in [File -> Seq(Piece)] /\ UNCHANGED <<staging, home, synced>>
    BY <2>1, FileOfCall, Writes DEF TypeInv
  <2>3. /\ call' \in [Thread -> Call] /\ SameCalls
    BY <2>1, Counts DEF TypeInv
  <2>4. \A x \in Thread : Engaged(x)'
    BY <2>2, <2>3 DEF TypeInv, Engaged, Idle, SameCalls
  <2> QED BY <2>1, <2>2, <2>3, <2>4 DEF TypeInv, FsTypeOK, Housed, Named
<1>8. CASE AppendBreaks(t)
  BY <1>8, AnswersTyped DEF AppendBreaks
<1>9. CASE AppendSync(t)
  <2>1. /\ call[t].op = "append" /\ Sync(call[t].file) /\ UNCHANGED <<blobs, ended, left>>
        /\ Return(t, "ok", call[t].size + call[t].added)
    BY <1>9 DEF AppendSync, At
  <2>2. synced' \in [File -> Nat] /\ UNCHANGED <<staging, home, bytes>>
    BY <2>1, FileOfCall, Syncs DEF TypeInv
  <2>3. call[t].size + call[t].added \in Nat
    BY <2>1, FileOfCall
  <2>4. call' \in [Thread -> Call] /\ \A x \in Thread : Engaged(x)'
    BY <2>1, <2>2, <2>3, ReturnsTyped DEF FilesKept
  <2> QED BY <2>1, <2>2, <2>4 DEF TypeInv, FsTypeOK, Housed, Named
<1>10. ASSUME NEW pc \in {"link", "remove"}, NEW r \in Reply, call[t].op = "finalize", Go(t, pc, r),
              UNCHANGED fileVars
       PROVE  call' \in [Thread -> Call] /\ \A x \in Thread : Engaged(x)'
  <2>1. Others(t) /\ call' \in [Thread -> Call]
    BY <1>10, Goes DEF TypeInv
  <2>2. /\ call'[t].op = "finalize" /\ call'[t].pc = pc /\ call'[t].key = call[t].key
        /\ call'[t].file = call[t].file
    BY <1>10, Goes DEF TypeInv
  <2>3. Engaged(t)'
    BY <1>10, <2>2 DEF Engaged, TypeInv, Idle, fileVars
  <2>4. FilesKept
    BY <1>10 DEF FilesKept, fileVars
  <2> QED BY <2>1, <2>3, <2>4, OthersEngaged
<1>11. CASE FinalizeHash(t)
  <2>1. call[t].op = "finalize" /\ UNCHANGED <<fileVars, blobs, ended, left>>
    BY <1>11 DEF FinalizeHash, At
  <2>2. CASE Go(t, "link", "none")
    BY <2>1, <2>2, <1>10, Unchanged
  <2>3. CASE \E r \in Reply : Return(t, r, 0)
    BY <2>1, <2>3, AnswersTyped
  <2> QED BY <1>11, <2>2, <2>3 DEF FinalizeHash
<1>12. CASE FinalizeLink(t)
  <2> DEFINE f == call[t].file
  <2>1. call[t].op = "finalize" /\ UNCHANGED <<fileVars, left>> /\ f \in Upload /\ call[t].key \in Key
    BY <1>12 DEF FinalizeLink, At, TypeInv, Engaged
  <2>2. CASE Return(t, "error", 0) /\ UNCHANGED <<blobs, ended>>
    BY <2>1, <2>2, AnswersTyped
  <2>3. CASE /\ \E r \in Reply : Go(t, "remove", r)
             /\ ended' = ended \cup {f}
             /\ Link(f, call[t].key) \/ UNCHANGED blobs
    <3>1. call' \in [Thread -> Call] /\ \A x \in Thread : Engaged(x)'
      BY <2>1, <2>3, <1>10
    <3>2. blobs' \in [Key -> File \cup {NoFile}] /\ Named'
      <4>1. CASE UNCHANGED blobs
        BY <2>1, <4>1 DEF TypeInv, FsTypeOK, Named, fileVars
      <4>2. CASE Link(f, call[t].key)
        BY <2>1, <4>2, FileOfCall, Links DEF TypeInv, Named, fileVars
      <4> QED BY <2>3, <4>1, <4>2
    <3>3. ended' \subseteq Upload
      BY <2>1, <2>3 DEF TypeInv, FsTypeOK
    <3> QED BY <2>1, <3>1, <3>2, <3>3 DEF TypeInv, FsTypeOK, Housed, fileVars
  <2> QED BY <1>12, <2>2, <2>3 DEF FinalizeLink
<1>13. CASE FinalizeRemove(t)
  <2>1. /\ call[t].op = "finalize" /\ UNCHANGED <<blobs, ended, left>>
        /\ Unlink(call[t].file) \/ UNCHANGED fileVars
        /\ Return(t, call[t].reply, 0)
    BY <1>13 DEF FinalizeRemove, At
  <2>2. CASE UNCHANGED fileVars
    BY <2>1, <2>2, FileOfCall, AnswersTyped
  <2>3. CASE Unlink(call[t].file)
    <3>1. call' \in [Thread -> Call] /\ \A x \in Thread : Engaged(x)'
      BY <2>1, <2>3, <1>5, FileOfCall, ReturnsTyped
    <3> QED BY <2>1, <2>3, <1>5, <3>1, FileOfCall DEF TypeInv, FsTypeOK
  <2> QED BY <2>1, <2>2, <2>3
<1> QED BY <1>1, <1>2, <1>3, <1>4, <1>6, <1>7, <1>8, <1>9, <1>11, <1>12, <1>13 DEF SessionNext

LEMMA ReadTypes ==
    ASSUME FsAssumption, TypeInv, NEW t \in Thread, ReadNext(t)
    PROVE  TypeInv'
<1> USE DEF Reply, Op, Pc
<1>0. FsTypeOK /\ (UNCHANGED fileVars => FilesKept)
  BY DEF TypeInv, FilesKept, fileVars
<1>1. ASSUME NEW n \in Namespace, NEW d \in Digest, blobs[<<n, d>>] # NoFile, NEW size \in Nat,
             Begin(t, "read", "read", <<n, d>>, blobs[<<n, d>>], size),
             UNCHANGED <<fileVars, blobs, ended, left>>
      PROVE  TypeInv'
  <2> DEFINE f == blobs[<<n, d>>]
  <2>1. <<n, d>> \in Key /\ <<n, d>> \in AnyKey /\ f \in File /\ staging[f] # "unused"
    BY <1>1 DEF Key, AnyKey, TypeInv, FsTypeOK, Named
  <2>2. Others(t) /\ call' \in [Thread -> Call]
    BY <1>0, <1>1, <2>1, Begins
  <2>3. Engaged(t)'
    BY <1>0, <1>1, <2>1, Begins DEF Engaged, Idle, fileVars
  <2> QED BY <1>0, <1>1, <2>2, <2>3, OthersEngaged, Unchanged
<1>2. ASSUME NEW n \in Namespace, NEW d \in Digest, GetOpen(t, n, d)
      PROVE  TypeInv'
  <2>1. CASE blobs[<<n, d>>] = NoFile
    BY <1>2, <2>1, AnswersTyped DEF GetOpen
  <2>2. CASE blobs[<<n, d>>] # NoFile
    <3>1. <<n, d>> \in Key
      BY DEF Key
    <3>2. Len(bytes[blobs[<<n, d>>]]) \in Nat
      BY <2>2, <3>1 DEF TypeInv, FsTypeOK
    <3> QED BY <1>1, <1>2, <2>2, <3>2 DEF GetOpen
  <2> QED BY <2>1, <2>2
<1>3. ASSUME NEW n \in Namespace, NEW d \in Digest, NEW last \in 0 .. MaxLength,
             GetRangeOpen(t, n, d, last)
      PROVE  TypeInv'
  <2>1. last + 1 \in Nat
    BY DEF FsAssumption
  <2>2. CASE Return(t, "range", 0)
    BY <1>3, <2>2, AnswersTyped DEF GetRangeOpen
  <2>3. CASE Begin(t, "read", "read", <<n, d>>, blobs[<<n, d>>], last + 1)
    BY <1>1, <1>3, <2>1, <2>3 DEF GetRangeOpen
  <2> QED BY <1>3, <2>2, <2>3 DEF GetRangeOpen
<1>4. CASE ReadEnds(t)
  <2>1. call[t].size \in Nat
    BY <1>4, FileOfCall DEF ReadEnds, At
  <2> QED BY <1>4, <2>1, AnswersTyped DEF ReadEnds
<1> QED BY <1>2, <1>3, <1>4 DEF ReadNext

LEMMA TypeInit == FsAssumption /\ FsInit => TypeInv
<1> SUFFICES ASSUME FsAssumption, FsInit PROVE TypeInv
  OBVIOUS
<1>1. Answered("none", 0) \in Call
  BY DEF Answered, Call, Reply
<1>2. FsTypeOK
  BY <1>1 DEF FsInit, FsTypeOK
<1>3. \A t \in Thread : Engaged(t)
  BY DEF FsInit, Engaged, Answered, Idle
<1> QED BY <1>2, <1>3 DEF FsInit, TypeInv, Housed, Named

LEMMA TypeStep == FsAssumption /\ TypeInv /\ [FsNext]_fsVars => TypeInv'
<1> SUFFICES ASSUME FsAssumption, TypeInv, [FsNext]_fsVars PROVE TypeInv'
  OBVIOUS
<1>1. ASSUME NEW t \in Thread, PutNext(t) \/ SessionNext(t) \/ ReadNext(t)
      PROVE  TypeInv'
  BY <1>1, PutTypes, SessionTypes, ReadTypes
<1>2. ASSUME UNCHANGED call, FilesKept
      PROVE  call' \in [Thread -> Call] /\ \A t \in Thread : Engaged(t)'
  BY <1>2 DEF TypeInv, FsTypeOK, Engaged, Idle, FilesKept, File
<1>3. ASSUME NEW n \in Namespace, NEW u \in Upload, InitiateBlobUpload(n, u)
      PROVE  TypeInv'
  <2>1. u \in File /\ Create(n, u) /\ UNCHANGED <<blobs, ended, left, call>>
    BY <1>3 DEF InitiateBlobUpload, File
  <2> QED BY <1>2, <2>1, Creates, CreatesKeeps DEF TypeInv, FsTypeOK
<1>4. ASSUME NEW n \in Namespace, NEW d \in Digest, DeleteBlob(n, d)
      PROVE  TypeInv'
  <2>1. /\ blobs' \in [Key -> File \cup {NoFile}]
        /\ \A k \in Key : blobs'[k] \in {blobs[k], NoFile}
    BY <1>4 DEF DeleteBlob, TypeInv, FsTypeOK
  <2>2. UNCHANGED <<fileVars, ended, left, call>>
    BY <1>4 DEF DeleteBlob
  <2> QED BY <2>1, <2>2 DEF TypeInv, FsTypeOK, Housed, Named, Engaged, Idle, fileVars
<1>5. ASSUME NEW f \in File, Sweep(f)
      PROVE  TypeInv'
  <2>1. Unlink(f) /\ UNCHANGED <<blobs, ended, left, call>>
    BY <1>5 DEF Sweep
  <2>2. /\ staging' \in [File -> {"unused", "there", "gone"}]
        /\ UNCHANGED <<home, bytes, synced>>
        /\ \A g \in File : staging'[g] = "unused" <=> staging[g] = "unused"
    BY <2>1, Unlinks DEF TypeInv
  <2>3. FilesKept
    BY <2>2 DEF FilesKept
  <2> QED BY <1>2, <2>1, <2>2, <2>3 DEF TypeInv, FsTypeOK, Housed, Named
<1>6. CASE Crash
  <2>1. /\ call' = [t \in Thread |-> Answered("none", 0)]
        /\ left' = left \cup {f \in Temp : staging[f] = "there"}
        /\ UNCHANGED <<fileVars, blobs, ended>>
    BY <1>6 DEF Crash
  <2>2. Answered("none", 0) \in Call
    BY DEF Answered, Call, Reply
  <2>3. call' \in [Thread -> Call] /\ \A t \in Thread : Engaged(t)'
    BY <2>1, <2>2 DEF Engaged, Answered, Idle
  <2> QED BY <2>1, <2>3 DEF TypeInv, FsTypeOK, Housed, Named, fileVars
<1>7. CASE UNCHANGED fsVars
  BY <1>7 DEF fsVars, fileVars, TypeInv, FsTypeOK, Housed, Named, Engaged, Idle
<1> QED BY <1>1, <1>3, <1>4, <1>5, <1>6, <1>7 DEF FsNext

LEMMA TypesHold == FsSpec => []TypeInv
<1>1. FsAssumption
  BY FsAssumption
<1> QED BY <1>1, TypeInit, TypeStep, PTL DEF FsSpec

(* Every variable of the file system store keeps its type. *)
THEOREM FsTypeCorrect == FsSpec => []FsTypeOK
<1>1. TypeInv => FsTypeOK
  BY DEF TypeInv
<1> QED BY <1>1, TypesHold, PTL

-----------------------------------------------------------------------------
(* PutBlob *)

(* A temporary file is linked at a blob path, or is being read. *)
Frozen(f) ==
    \/ \E k \in Key : blobs[k] = f
    \/ \E t \in Thread : call[t].op = "read" /\ call[t].file = f

(* The file of a PutBlob is its own; it is written only while nobody can read it, *)
(* and linked with the bytes that were verified and synced.                       *)
Private ==
    \A t, x \in Thread :
        t # x /\ call[t].op = "put" /\ call[x].op = "put" => call[t].file # call[x].file
Unread == \A t \in Thread : At(t, "put", "write") => ~Frozen(call[t].file)
PutReady ==
    \A t \in Thread : At(t, "put", "link") =>
        /\ bytes[call[t].file] = Content[call[t].key[2]]
        /\ synced[call[t].file] = Len(bytes[call[t].file])

(* What PutBlob stored, or somebody reads who found it, are the bytes of the digest. *)
PutSound ==
    /\ \A k \in Key : blobs[k] \in Temp => bytes[blobs[k]] = Content[k[2]]
    /\ \A t \in Thread : call[t].op = "read" /\ call[t].file \in Temp =>
          bytes[call[t].file] = Content[call[t].key[2]]

PutInv == Private /\ Unread /\ PutReady /\ PutDurable /\ PutSound

(* What a step does to a call that PutInv need not follow. *)
PutQuietCall(x) ==
    \/ call'[x] = call[x]
    \/ call'[x].op \notin {"put", "read"}
    \/ call'[x].op = "read" /\ call'[x].key \in Key /\ blobs[call'[x].key] = call'[x].file
    \/ /\ call[x].op = "put" /\ call'[x].op = "put" /\ call'[x].pc = "remove"
       /\ call'[x].file = call[x].file

(* A step that leaves the bytes of temporary files and links none of them. *)
LEMMA PutQuiet ==
    ASSUME TypeInv, PutInv, TypeInv', \A x \in Thread : PutQuietCall(x),
           \A f \in Temp : bytes'[f] = bytes[f] /\ synced'[f] = synced[f],
           \A k \in Key : blobs'[k] \in Temp => blobs'[k] = blobs[k]
    PROVE  PutInv'
<1>1. \A t \in Thread : call'[t].op = "put" => call[t].op = "put" /\ call'[t].file = call[t].file
  BY DEF PutQuietCall
<1>2. \A t \in Thread : call[t].op = "put" => call[t].file \in Temp
  BY DEF TypeInv, Engaged
<1>3. Private'
  BY <1>1 DEF PutInv, Private
<1>4. \A f \in Temp : Frozen(f)' => Frozen(f)
  BY DEF PutQuietCall, Frozen
<1>5. \A t \in Thread, pc \in {"write", "link"} : At(t, "put", pc)' => call'[t] = call[t] /\ At(t, "put", pc)
  BY DEF PutQuietCall, At
<1>6. Unread'
  BY <1>2, <1>4, <1>5 DEF PutInv, Unread, At
<1>7. PutReady'
  BY <1>2, <1>5 DEF PutInv, PutReady, At
<1>8. PutDurable' /\ PutSound'
  BY DEF PutInv, PutDurable, PutSound, PutQuietCall
<1> QED BY <1>3, <1>6, <1>7, <1>8 DEF PutInv

LEMMA QuietReturn ==
    ASSUME TypeInv, NEW t \in Thread, NEW r \in Reply, NEW n \in Nat, Return(t, r, n)
    PROVE  \A x \in Thread : PutQuietCall(x)
BY Returns DEF TypeInv, PutQuietCall, Others

LEMMA PutPutInv ==
    ASSUME FsAssumption, TypeInv, PutInv, TypeInv', NEW t \in Thread, PutNext(t)
    PROVE  PutInv'
<1> USE DEF Reply, Op, Pc
<1>0. FsTypeOK /\ FsTypeOK' /\ \A x \in Thread : call[x].op = "put" => call[x].file \in Temp /\ call[x].file \in File
  BY DEF TypeInv, Engaged, File
<1>1. ASSUME NEW n \in Namespace, NEW d \in Digest, NEW size \in 0 .. MaxLength, NEW f \in Temp,
             PutCreate(t, n, d, size, f)
      PROVE  PutInv'
  <2>1. f \in File /\ <<n, d>> \in Key /\ <<n, d>> \in AnyKey /\ size \in Nat
    BY <1>1 DEF File, Key, AnyKey, FsAssumption
  <2>2. /\ Create(n, f) /\ Begin(t, "put", "write", <<n, d>>, f, size)
        /\ UNCHANGED <<blobs, ended, left, bytes, synced>>
    BY <1>1 DEF PutCreate, Create
  <2>3. /\ Others(t) /\ call'[t].op = "put" /\ call'[t].pc = "write" /\ call'[t].file = f
        /\ staging[f] = "unused"
    BY <1>0, <2>1, <2>2, Begins, Creates
  <2>4. ~Frozen(f)
    BY <2>1, <2>3 DEF Frozen, TypeInv, Named, Engaged, FsAssumption, File
  <2>5. \A x \in Thread : call[x].op = "put" => call[x].file # f
    BY <2>3 DEF TypeInv, Engaged
  <2>6. Private'
    BY <2>3, <2>5 DEF PutInv, Private, Others
  <2>7. \A g \in File : Frozen(g)' => Frozen(g)
    BY <2>2, <2>3 DEF Frozen, Others
  <2>8. Unread'
    BY <1>0, <2>1, <2>3, <2>4, <2>7 DEF PutInv, Unread, Others, At
  <2>9. PutReady' /\ PutDurable' /\ PutSound'
    BY <2>2, <2>3 DEF PutInv, PutReady, PutDurable, PutSound, Others, At
  <2> QED BY <2>6, <2>8, <2>9 DEF PutInv
<1>2. ASSUME NEW size \in 0 .. MaxLength, PutRefused(t, size)
      PROVE  PutInv'
  <2>1. PICK r \in Reply : Return(t, r, 0) /\ UNCHANGED <<fileVars, blobs, ended, left>>
    BY <1>2 DEF PutRefused
  <2> QED BY <2>1, QuietReturn, PutQuiet DEF fileVars
<1>3. ASSUME NEW p \in Piece, PutWrite(t, p)
      PROVE  PutInv'
  <2> DEFINE f == call[t].file
  <2>1. At(t, "put", "write") /\ Write(f, p) /\ UNCHANGED <<blobs, ended, left, call>>
    BY <1>3 DEF PutWrite
  <2>2. f \in File /\ ~Frozen(f) /\ \A x \in Thread : x # t /\ call[x].op = "put" => call[x].file # f
    BY <1>0, <2>1 DEF PutInv, Private, Unread, At
  <2>3. \A g \in File : g # f => bytes'[g] = bytes[g]
    BY <1>0, <2>1, <2>2, Writes
  <2>4. UNCHANGED synced
    BY <1>0, <2>1, <2>2, Writes
  <2>5. Private' /\ Unread'
    BY <2>1 DEF PutInv, Private, Unread, Frozen, At
  <2>6. PutReady'
    BY <1>0, <2>1, <2>2, <2>3, <2>4 DEF PutInv, PutReady, At
  <2>7. PutDurable' /\ PutSound'
    BY <1>0, <2>1, <2>2, <2>3, <2>4 DEF PutInv, PutDurable, PutSound, Frozen, File
  <2> QED BY <2>5, <2>6, <2>7 DEF PutInv
<1>4. ASSUME NEW r \in Reply, call[t].op = "put", Go(t, "remove", r)
      PROVE  /\ \A x \in Thread : PutQuietCall(x)
             /\ call'[t].op = "put" /\ call'[t].pc = "remove" /\ call'[t].file = call[t].file
             /\ Others(t)
  <2>1. /\ call'[t].op = "put" /\ call'[t].pc = "remove" /\ call'[t].file = call[t].file
        /\ Others(t)
    BY <1>0, <1>4, Goes
  <2> QED BY <1>4, <2>1 DEF PutQuietCall, Others
<1>5. CASE PutBreaks(t)
  <2>1. PICK r \in Reply : Go(t, "remove", r) /\ UNCHANGED <<fileVars, blobs, ended, left>>
    BY <1>5 DEF PutBreaks
  <2> QED BY <1>4, <1>5, <2>1, PutQuiet DEF PutBreaks, At, fileVars
<1>6. CASE PutSync(t)
  <2> DEFINE f == call[t].file
  <2>1. At(t, "put", "write") /\ Sync(f) /\ UNCHANGED <<blobs, ended, left>>
    BY <1>6 DEF PutSync
  <2>2. f \in Temp /\ f \in File /\ ~Frozen(f)
    BY <1>0, <2>1 DEF PutInv, Unread, At
  <2>3. /\ UNCHANGED <<staging, home, bytes>> /\ synced'[f] = Len(bytes[f])
        /\ \A g \in File : g # f => synced'[g] = synced[g]
    BY <1>0, <2>1, <2>2, Syncs
  <2>4. \E pc \in {"link", "remove"}, r \in Reply :
           Go(t, pc, r) /\ (pc = "link" => bytes[f] = Content[call[t].key[2]])
    BY <1>6 DEF PutSync
  <2>5. /\ Others(t) /\ call'[t].op = "put" /\ call'[t].pc \in {"link", "remove"}
        /\ call'[t].file = f /\ call'[t].key = call[t].key
        /\ call'[t].pc = "link" => bytes[f] = Content[call[t].key[2]]
    BY <1>0, <2>1, <2>4, Goes DEF At
  <2>6. Private'
    BY <2>1, <2>5 DEF PutInv, Private, Others, At
  <2>7. \A g \in File : Frozen(g)' => Frozen(g)
    BY <2>1, <2>5 DEF Frozen, Others
  <2>8. Unread'
    BY <1>0, <2>5, <2>7 DEF PutInv, Unread, Others, At
  <2>9. PutReady'
    <3> SUFFICES ASSUME NEW x \in Thread, At(x, "put", "link")'
                 PROVE  /\ bytes'[call'[x].file] = Content[call'[x].key[2]]
                        /\ synced'[call'[x].file] = Len(bytes'[call'[x].file])
      BY DEF PutReady
    <3>1. CASE x = t
      BY <2>3, <2>5, <3>1 DEF At
    <3>2. CASE x # t
      <4>1. At(x, "put", "link") /\ call'[x] = call[x] /\ call[x].file # f /\ call[x].file \in File
        BY <1>0, <2>1, <2>5, <3>2 DEF Others, At, PutInv, Private
      <4> QED BY <2>3, <4>1 DEF PutInv, PutReady
    <3> QED BY <3>1, <3>2
  <2>10. PutDurable' /\ PutSound'
    BY <1>0, <2>1, <2>2, <2>3, <2>5 DEF PutInv, PutDurable, PutSound, Frozen, Others, File
  <2> QED BY <2>6, <2>8, <2>9, <2>10 DEF PutInv
<1>7. CASE PutSyncFails(t)
  <2>1. PICK r \in Reply : Go(t, "remove", r) /\ UNCHANGED <<fileVars, blobs, ended, left>>
    BY <1>7 DEF PutSyncFails
  <2> QED BY <1>4, <1>7, <2>1, PutQuiet DEF PutSyncFails, At, fileVars
<1>8. CASE PutLink(t)
  <2> DEFINE f == call[t].file
             key == call[t].key
  <2>1. /\ At(t, "put", "link") /\ UNCHANGED <<fileVars, ended, left>>
        /\ \E r \in Reply : Go(t, "remove", r)
        /\ Link(f, key) \/ UNCHANGED blobs
    BY <1>8 DEF PutLink
  <2>2. CASE UNCHANGED blobs
    BY <1>4, <2>1, <2>2, PutQuiet DEF At, fileVars
  <2>3. CASE Link(f, key)
    <3>1. f \in Temp /\ f \in File /\ key \in Key
      BY <1>0, <2>1 DEF TypeInv, Engaged, At
    <3>2. blobs'[key] = f /\ \A k \in Key : k # key => blobs'[k] = blobs[k]
      BY <1>0, <2>3, <3>1, Links
    <3>3. /\ call'[t].op = "put" /\ call'[t].pc = "remove" /\ call'[t].file = f
          /\ Others(t)
      BY <1>4, <2>1 DEF At
    <3>4. Private'
      BY <2>1, <3>3 DEF PutInv, Private, Others, At
    <3>5. \A g \in File : Frozen(g)' => g = f \/ Frozen(g)
      BY <3>2, <3>3 DEF Frozen, Others
    <3>6. Unread'
      BY <1>0, <2>1, <3>3, <3>5 DEF PutInv, Unread, Private, Others, At
    <3>7. PutReady'
      BY <2>1, <3>3 DEF PutInv, PutReady, Others, At, fileVars
    <3>8. PutDurable' /\ PutSound'
      BY <2>1, <3>1, <3>2, <3>3 DEF PutInv, PutDurable, PutReady, PutSound, Others, fileVars
    <3> QED BY <3>4, <3>6, <3>7, <3>8 DEF PutInv
  <2> QED BY <2>1, <2>2, <2>3
<1>9. CASE PutRemove(t)
  <2>1. /\ call[t].op = "put" /\ UNCHANGED blobs
        /\ Unlink(call[t].file) \/ UNCHANGED fileVars
        /\ \E r \in Reply, n \in Nat : Return(t, r, n)
    BY <1>9, FileOfCall DEF PutRemove, At
  <2>2. UNCHANGED <<bytes, synced>>
    BY <1>0, <2>1, Unlinks DEF fileVars
  <2> QED BY <2>1, <2>2, QuietReturn, PutQuiet
<1> QED BY <1>1, <1>2, <1>3, <1>5, <1>6, <1>7, <1>8, <1>9 DEF PutNext

LEMMA PutSessionInv ==
    ASSUME FsAssumption, TypeInv, PutInv, TypeInv', NEW t \in Thread, SessionNext(t)
    PROVE  PutInv'
<1> USE DEF Reply, Op, Pc
<1>0. /\ FsTypeOK /\ Temp \subseteq File /\ Upload \subseteq File /\ <<NoNamespace, NoDigest>> \in AnyKey
      /\ \A u \in Upload : u \notin Temp
      /\ \A x \in Thread : call[x].op \in {"append", "finalize"} => call[x].file \in Upload
  BY DEF TypeInv, Engaged, File, AnyKey, FsAssumption
<1>1. ASSUME NEW u \in Upload, Unlink(u) \/ UNCHANGED fileVars
      PROVE  UNCHANGED <<bytes, synced>>
  BY <1>0, <1>1, Unlinks DEF fileVars
<1>2. ASSUME NEW n \in Namespace, NEW u \in Upload, SessionRefused(t, n, u)
      PROVE  PutInv'
  <2>1. PICK r \in Reply : Return(t, r, 0) /\ UNCHANGED <<fileVars, blobs, ended, left>>
    BY <1>2 DEF SessionRefused
  <2> QED BY <2>1, QuietReturn, PutQuiet DEF fileVars
<1>3. ASSUME NEW op \in {"append", "finalize"}, NEW pc \in Pc, NEW key \in AnyKey, NEW u \in Upload,
             NEW size \in Nat, Begin(t, op, pc, key, u, size), UNCHANGED <<fileVars, blobs, ended, left>>
      PROVE  PutInv'
  <2>1. \A x \in Thread : PutQuietCall(x)
    BY <1>0, <1>3, Begins DEF PutQuietCall, Others
  <2> QED BY <1>3, <2>1, PutQuiet DEF fileVars
<1>4. ASSUME NEW n \in Namespace, NEW u \in Upload, NEW offset \in 0 .. MaxLength,
             AppendOpen(t, n, u, offset)
      PROVE  PutInv'
  <2>1. offset \in Nat /\ UNCHANGED <<fileVars, blobs, ended, left>>
    BY <1>4 DEF AppendOpen, FsAssumption
  <2>2. CASE Return(t, "range", 0)
    BY <2>1, <2>2, QuietReturn, PutQuiet DEF fileVars
  <2>3. CASE Begin(t, "append", "copy", <<NoNamespace, NoDigest>>, u, offset)
    BY <1>0, <1>3, <2>1, <2>3
  <2> QED BY <1>4, <2>2, <2>3 DEF AppendOpen
<1>5. ASSUME NEW n \in Namespace, NEW u \in Upload, GetBlobUploadOffset(t, n, u)
      PROVE  PutInv'
  <2>1. Len(bytes[u]) \in Nat
    BY <1>0 DEF FsTypeOK
  <2>2. Return(t, "ok", Len(bytes[u])) /\ UNCHANGED <<fileVars, blobs, ended, left>>
    BY <1>5 DEF GetBlobUploadOffset
  <2> QED BY <2>1, <2>2, QuietReturn, PutQuiet DEF fileVars
<1>6. ASSUME NEW n \in Namespace, NEW u \in Upload, NEW d \in Digest, NEW size \in 0 .. MaxLength,
             FinalizeStat(t, n, u, d, size)
      PROVE  PutInv'
  <2>1. size \in Nat /\ <<n, d>> \in AnyKey /\ UNCHANGED <<fileVars, blobs, ended, left>>
    BY <1>6 DEF FinalizeStat, FsAssumption, AnyKey, Key
  <2>2. CASE Return(t, "sizeInvalid", 0)
    BY <2>1, <2>2, QuietReturn, PutQuiet DEF fileVars
  <2>3. CASE Begin(t, "finalize", "hash", <<n, d>>, u, size)
    BY <1>3, <2>1, <2>3
  <2> QED BY <1>6, <2>2, <2>3 DEF FinalizeStat
<1>7. ASSUME NEW n \in Namespace, NEW u \in Upload, CancelBlobUpload(t, n, u)
      PROVE  PutInv'
  <2>1. /\ UNCHANGED <<blobs, ended, left>>
        /\ Unlink(u) \/ UNCHANGED fileVars
        /\ \E r \in Reply : Return(t, r, 0)
    BY <1>7 DEF CancelBlobUpload
  <2>2. UNCHANGED <<bytes, synced>>
    BY <1>1, <2>1
  <2>3. \A x \in Thread : PutQuietCall(x)
    BY <2>1, QuietReturn
  <2> QED BY <2>1, <2>2, <2>3, PutQuiet
<1>8. ASSUME NEW p \in Piece, AppendCopy(t, p)
      PROVE  PutInv'
  <2>1. /\ call[t].op = "append" /\ Write(call[t].file, p) /\ UNCHANGED <<blobs, ended, left>>
        /\ call' = [call EXCEPT ![t].added = @ + 1]
    BY <1>8 DEF AppendCopy, At
  <2>2. \A f \in Temp : bytes'[f] = bytes[f] /\ synced'[f] = synced[f]
    BY <1>0, <2>1, Writes
  <2>3. \A x \in Thread : PutQuietCall(x)
    BY <1>0, <2>1, Counts DEF PutQuietCall, Others, SameCalls
  <2> QED BY <2>1, <2>2, <2>3, PutQuiet
<1>9. CASE AppendBreaks(t)
  <2>1. Return(t, "error", 0) /\ UNCHANGED <<fileVars, blobs, ended, left>>
    BY <1>9 DEF AppendBreaks
  <2> QED BY <2>1, QuietReturn, PutQuiet DEF fileVars
<1>10. CASE AppendSync(t)
  <2>1. /\ call[t].op = "append" /\ Sync(call[t].file) /\ UNCHANGED <<blobs, ended, left>>
        /\ Return(t, "ok", call[t].size + call[t].added)
    BY <1>10 DEF AppendSync, At
  <2>2. \A f \in Temp : bytes'[f] = bytes[f] /\ synced'[f] = synced[f]
    BY <1>0, <2>1, Syncs
  <2>3. call[t].size + call[t].added \in Nat
    BY <2>1, FileOfCall
  <2> QED BY <2>1, <2>2, <2>3, QuietReturn, PutQuiet
<1>11. ASSUME NEW pc \in {"link", "remove"}, NEW r \in Reply, call[t].op = "finalize", Go(t, pc, r)
       PROVE  \A x \in Thread : PutQuietCall(x)
  BY <1>0, <1>11, Goes DEF PutQuietCall, Others
<1>12. CASE FinalizeHash(t)
  <2>1. call[t].op = "finalize" /\ UNCHANGED <<fileVars, blobs, ended, left>>
    BY <1>12 DEF FinalizeHash, At
  <2>2. CASE Go(t, "link", "none")
    BY <1>11, <2>1, <2>2, PutQuiet DEF fileVars
  <2>3. CASE \E r \in Reply : Return(t, r, 0)
    BY <2>1, <2>3, QuietReturn, PutQuiet DEF fileVars
  <2> QED BY <1>12, <2>2, <2>3 DEF FinalizeHash
<1>13. CASE FinalizeLink(t)
  <2>1. /\ call[t].op = "finalize" /\ UNCHANGED <<fileVars, left>>
        /\ call[t].file \in Upload /\ call[t].key \in Key
    BY <1>13 DEF FinalizeLink, At, TypeInv, Engaged
  <2>2. \A k \in Key : blobs'[k] \in Temp => blobs'[k] = blobs[k]
    <3>1. Link(call[t].file, call[t].key) \/ UNCHANGED blobs
      BY <1>13 DEF FinalizeLink
    <3> QED BY <1>0, <2>1, <3>1, Links
  <2>3. CASE Return(t, "error", 0)
    BY <2>1, <2>2, <2>3, QuietReturn, PutQuiet DEF fileVars
  <2>4. CASE \E r \in Reply : Go(t, "remove", r)
    BY <1>11, <2>1, <2>2, <2>4, PutQuiet DEF fileVars
  <2> QED BY <1>13, <2>3, <2>4 DEF FinalizeLink
<1>14. CASE FinalizeRemove(t)
  <2>1. /\ call[t].op = "finalize" /\ UNCHANGED <<blobs, ended, left>>
        /\ Unlink(call[t].file) \/ UNCHANGED fileVars
        /\ Return(t, call[t].reply, 0) /\ call[t].reply \in Reply
    BY <1>14, FileOfCall DEF FinalizeRemove, At
  <2> QED BY <1>0, <1>1, <2>1, QuietReturn, PutQuiet
<1> QED BY <1>2, <1>4, <1>5, <1>6, <1>7, <1>8, <1>9, <1>10, <1>12, <1>13, <1>14 DEF SessionNext

LEMMA PutReadInv ==
    ASSUME FsAssumption, TypeInv, PutInv, TypeInv', NEW t \in Thread, ReadNext(t)
    PROVE  PutInv'
<1> USE DEF Reply, Op, Pc
<1>1. FsTypeOK /\ UNCHANGED <<fileVars, blobs, ended, left>>
  BY DEF TypeInv, ReadNext, GetOpen, GetRangeOpen, ReadEnds
<1>2. ASSUME NEW r \in Reply, NEW n \in Nat, Return(t, r, n)
      PROVE  PutInv'
  BY <1>1, <1>2, QuietReturn, PutQuiet DEF fileVars
<1>3. ASSUME NEW k \in Key, blobs[k] # NoFile, NEW size \in Nat,
             Begin(t, "read", "read", k, blobs[k], size)
      PROVE  PutInv'
  <2>1. blobs[k] \in File /\ k \in AnyKey
    BY <1>1, <1>3 DEF FsTypeOK, AnyKey
  <2>2. \A x \in Thread : PutQuietCall(x)
    BY <1>1, <1>3, <2>1, Begins DEF PutQuietCall, Others
  <2> QED BY <1>1, <2>2, PutQuiet DEF fileVars
<1>4. ASSUME NEW n \in Namespace, NEW d \in Digest,
             GetOpen(t, n, d) \/ \E last \in 0 .. MaxLength : GetRangeOpen(t, n, d, last)
      PROVE  PutInv'
  <2>1. /\ <<n, d>> \in Key
        /\ blobs[<<n, d>>] # NoFile => Len(bytes[blobs[<<n, d>>]]) \in Nat
        /\ \A last \in 0 .. MaxLength : last + 1 \in Nat
    BY <1>1 DEF Key, FsTypeOK, FsAssumption
  <2> QED BY <1>2, <1>3, <1>4, <2>1 DEF GetOpen, GetRangeOpen
<1>5. CASE ReadEnds(t)
  <2>1. call[t].size \in Nat
    BY <1>5, FileOfCall DEF ReadEnds, At
  <2> QED BY <1>2, <1>5, <2>1 DEF ReadEnds
<1> QED BY <1>4, <1>5 DEF ReadNext

LEMMA PutInit == FsAssumption /\ FsInit => PutInv
BY DEF FsInit, PutInv, Private, Unread, PutReady, PutDurable, PutSound, At, Answered,
       FsAssumption, File

LEMMA PutStep == FsAssumption /\ TypeInv /\ TypeInv' /\ PutInv /\ [FsNext]_fsVars => PutInv'
<1> SUFFICES ASSUME FsAssumption, TypeInv, TypeInv', PutInv, [FsNext]_fsVars PROVE PutInv'
  OBVIOUS
<1>0. FsTypeOK
  BY DEF TypeInv
<1>1. ASSUME NEW t \in Thread, PutNext(t) \/ SessionNext(t) \/ ReadNext(t)
      PROVE  PutInv'
  BY <1>1, PutPutInv, PutSessionInv, PutReadInv
<1>2. ASSUME UNCHANGED call
      PROVE  \A x \in Thread : PutQuietCall(x)
  BY <1>2 DEF PutQuietCall
<1>3. ASSUME NEW n \in Namespace, NEW u \in Upload, InitiateBlobUpload(n, u)
      PROVE  PutInv'
  BY <1>2, <1>3, PutQuiet DEF InitiateBlobUpload, Create
<1>4. ASSUME NEW n \in Namespace, NEW d \in Digest, DeleteBlob(n, d)
      PROVE  PutInv'
  <2>1. \A k \in Key : blobs'[k] \in {blobs[k], NoFile}
    BY <1>0, <1>4 DEF DeleteBlob, FsTypeOK
  <2>2. \A k \in Key : blobs'[k] \in Temp => blobs'[k] = blobs[k]
    BY <2>1 DEF FsAssumption
  <2> QED BY <1>2, <1>4, <2>2, PutQuiet DEF DeleteBlob, fileVars
<1>5. ASSUME NEW f \in File, Sweep(f)
      PROVE  PutInv'
  BY <1>0, <1>2, <1>5, Unlinks, PutQuiet DEF Sweep
<1>6. CASE Crash
  <2>1. \A x \in Thread : PutQuietCall(x)
    BY <1>6 DEF Crash, Answered, PutQuietCall
  <2> QED BY <1>6, <2>1, PutQuiet DEF Crash, fileVars
<1>7. CASE UNCHANGED fsVars
  BY <1>2, <1>7, PutQuiet DEF fsVars, fileVars
<1> QED BY <1>1, <1>3, <1>4, <1>5, <1>6, <1>7 DEF FsNext

LEMMA PutInvHolds == FsSpec => []PutInv
<1>1. FsAssumption
  BY FsAssumption
<1> QED BY <1>1, PutInit, PutStep, TypesHold, PTL DEF FsSpec

(* The bytes PutBlob has linked are on the disk, whoever else uses the store.    *)
THEOREM PutIsDurable == FsSpec => []PutDurable
<1>1. PutInv => PutDurable
  BY DEF PutInv
<1> QED BY <1>1, PutInvHolds, PTL

(* What PutBlob has stored stays what its digest says, and so does what a reader   *)
(* that found it reads, also when clients go on with sessions that were committed *)
(* and use one session from two places: no session is ever the file of a PutBlob  *)
(* (store.go:60, :112-199).                                                       *)
THEOREM PutContentKept == FsSpec => []PutSound
<1>1. PutInv => PutSound
  BY DEF PutInv
<1> QED BY <1>1, PutInvHolds, PTL

-----------------------------------------------------------------------------
(* Whose the temporary files are *)

(* A call on a session or a read is not a PutBlob, concerns no other thread, and *)
(* stages no file.                                                               *)
LEMMA SessionReadFrame ==
    ASSUME TypeInv, NEW t \in Thread, SessionNext(t) \/ ReadNext(t)
    PROVE  /\ call[t].op # "put"
           /\ Others(t)
           /\ UNCHANGED left
           /\ \A f \in File : staging'[f] = "there" => staging[f] = "there"
<1>1. FsTypeOK /\ Engaged(t)
  BY DEF TypeInv
<1>2. ASSUME NEW op, NEW pc, NEW key, NEW f, NEW size, Begin(t, op, pc, key, f, size)
      PROVE  Others(t)
  BY <1>1, <1>2 DEF Begin, Others, FsTypeOK
<1>3. ASSUME NEW pc, NEW r, Go(t, pc, r)
      PROVE  Others(t)
  BY <1>1, <1>3 DEF Go, Others, FsTypeOK
<1>4. ASSUME NEW r, NEW n, Return(t, r, n)
      PROVE  Others(t)
  BY <1>1, <1>4 DEF Return, Others, FsTypeOK
<1>5. ASSUME NEW f, Unlink(f) \/ UNCHANGED fileVars
      PROVE  \A g \in File : staging'[g] = "there" => staging[g] = "there"
  BY <1>1, <1>5 DEF Unlink, FsTypeOK, fileVars
<1>6. ASSUME NEW n \in Namespace, NEW u \in Upload,
             \/ SessionRefused(t, n, u) \/ GetBlobUploadOffset(t, n, u) \/ CancelBlobUpload(t, n, u)
             \/ \E offset \in 0 .. MaxLength : AppendOpen(t, n, u, offset)
             \/ \E d \in Digest, size \in 0 .. MaxLength : FinalizeStat(t, n, u, d, size)
      PROVE  /\ Idle(t) /\ UNCHANGED left
             /\ Others(t)
             /\ Unlink(u) \/ UNCHANGED fileVars
  BY <1>2, <1>4, <1>6
     DEF SessionRefused, GetBlobUploadOffset, CancelBlobUpload, AppendOpen, FinalizeStat
<1>7. ASSUME NEW p \in Piece, AppendCopy(t, p)
      PROVE  /\ call[t].op = "append" /\ UNCHANGED <<left, staging>>
             /\ Others(t)
  BY <1>1, <1>7 DEF AppendCopy, At, Others, FsTypeOK, Write
<1>8. CASE AppendBreaks(t) \/ AppendSync(t)
  <2>1. call[t].op = "append" /\ UNCHANGED <<left, staging>> /\ \E r, n : Return(t, r, n)
    BY <1>8 DEF AppendBreaks, AppendSync, At, Sync, fileVars
  <2> QED BY <1>4, <2>1
<1>9. CASE FinalizeHash(t) \/ FinalizeLink(t) \/ FinalizeRemove(t)
  <2>1. /\ call[t].op = "finalize" /\ UNCHANGED left
        /\ (\E pc, r : Go(t, pc, r)) \/ (\E r, n : Return(t, r, n))
        /\ Unlink(call[t].file) \/ UNCHANGED fileVars
    BY <1>9 DEF FinalizeHash, FinalizeLink, FinalizeRemove, At
  <2>2. Others(t)
    BY <1>3, <1>4, <2>1
  <2> QED BY <1>5, <2>1, <2>2
<1>10. ASSUME NEW n \in Namespace, NEW d \in Digest,
              GetOpen(t, n, d) \/ \E last \in 0 .. MaxLength : GetRangeOpen(t, n, d, last)
       PROVE  Idle(t) /\ UNCHANGED <<fileVars, left>> /\ Others(t)
  BY <1>2, <1>4, <1>10 DEF GetOpen, GetRangeOpen
<1>11. CASE ReadEnds(t)
  <2>1. call[t].op = "read" /\ UNCHANGED <<fileVars, left>> /\ \E r, n : Return(t, r, n)
    BY <1>11 DEF ReadEnds, At
  <2> QED BY <1>4, <2>1 DEF fileVars
<1>12. Idle(t) => call[t].op # "put"
  BY <1>1 DEF Engaged
<1>13. CASE SessionNext(t)
  BY <1>5, <1>6, <1>7, <1>8, <1>9, <1>12, <1>13 DEF SessionNext
<1>14. CASE ReadNext(t)
  BY <1>10, <1>11, <1>12, <1>14 DEF ReadNext, fileVars
<1> QED BY <1>13, <1>14

LEMMA OwnersKept ==
    ASSUME TempFilesOwned, left \subseteq left',
           \A f \in Temp : staging'[f] = "there" => staging[f] = "there",
           \A x \in Thread : call[x].op = "put" => call'[x].op = "put" /\ call'[x].file = call[x].file
    PROVE  TempFilesOwned'
BY DEF TempFilesOwned

LEMMA PutOwned ==
    ASSUME FsAssumption, TypeInv, TempFilesOwned, NEW t \in Thread, PutNext(t)
    PROVE  TempFilesOwned'
<1> USE DEF Reply, Op, Pc
<1>0. FsTypeOK /\ Temp \subseteq File
  BY DEF TypeInv, File
<1>1. ASSUME NEW n \in Namespace, NEW d \in Digest, NEW size \in 0 .. MaxLength, NEW f \in Temp,
             PutCreate(t, n, d, size, f)
      PROVE  TempFilesOwned'
  <2>1. f \in File /\ <<n, d>> \in AnyKey /\ size \in Nat
    BY <1>1 DEF File, Key, AnyKey, FsAssumption
  <2>2. /\ Create(n, f) /\ Begin(t, "put", "write", <<n, d>>, f, size) /\ UNCHANGED left
        /\ call[t].op # "put"
    BY <1>1 DEF PutCreate, TypeInv, Engaged
  <2>3. /\ Others(t) /\ call'[t].op = "put" /\ call'[t].file = f
        /\ \A g \in File : g # f => staging'[g] = staging[g]
    BY <1>0, <2>1, <2>2, Begins, Creates
  <2> QED BY <1>0, <2>2, <2>3 DEF TempFilesOwned, Others
<1>2. ASSUME NEW size \in 0 .. MaxLength, PutRefused(t, size)
      PROVE  TempFilesOwned'
  <2>1. PICK r \in Reply : Return(t, r, 0) /\ UNCHANGED <<fileVars, left>>
    BY <1>2 DEF PutRefused
  <2>2. call[t].op # "put"
    BY <1>2 DEF PutRefused, TypeInv, Engaged
  <2>3. Others(t)
    BY <1>0, <2>1, Returns
  <2> QED BY <2>1, <2>2, <2>3, OwnersKept DEF fileVars, Others
<1>3. ASSUME NEW p \in Piece, PutWrite(t, p)
      PROVE  TempFilesOwned'
  BY <1>3, OwnersKept DEF PutWrite, Write
<1>4. CASE PutBreaks(t) \/ PutSync(t) \/ PutSyncFails(t) \/ PutLink(t)
  <2>1. /\ \E pc \in {"link", "remove"}, r \in Reply : Go(t, pc, r)
        /\ UNCHANGED <<staging, left>>
    BY <1>4 DEF PutBreaks, PutSync, PutSyncFails, PutLink, Sync, fileVars
  <2>2. Others(t) /\ call'[t].op = call[t].op /\ call'[t].file = call[t].file
    BY <1>0, <2>1, Goes
  <2> QED BY <2>1, <2>2, OwnersKept DEF Others
<1>5. CASE PutRemove(t)
  <2> DEFINE f == call[t].file
  <2>1. /\ call[t].op = "put" /\ f \in File
        /\ \/ Unlink(f) /\ UNCHANGED left
           \/ left' = left \cup {f} /\ UNCHANGED fileVars
        /\ \E r \in Reply, n \in Nat : Return(t, r, n)
    BY <1>5, FileOfCall DEF PutRemove, At
  <2>2. Others(t)
    BY <1>0, <2>1, Returns
  <2>3. CASE Unlink(f) /\ UNCHANGED left
    <3>1. staging'[f] # "there" /\ \A g \in File : g # f => staging'[g] = staging[g]
      BY <1>0, <2>1, <2>3, Unlinks
    <3> QED BY <1>0, <2>2, <2>3, <3>1 DEF TempFilesOwned, Others
  <2>4. CASE left' = left \cup {f} /\ UNCHANGED fileVars
    BY <2>2, <2>4 DEF TempFilesOwned, Others, fileVars
  <2> QED BY <2>1, <2>3, <2>4
<1> QED BY <1>1, <1>2, <1>3, <1>4, <1>5 DEF PutNext

LEMMA OwnedStep == FsAssumption /\ TypeInv /\ TempFilesOwned /\ [FsNext]_fsVars => TempFilesOwned'
<1> SUFFICES ASSUME FsAssumption, TypeInv, TempFilesOwned, [FsNext]_fsVars PROVE TempFilesOwned'
  OBVIOUS
<1>0. FsTypeOK /\ Temp \subseteq File
  BY DEF TypeInv, File
<1>1. ASSUME NEW t \in Thread, SessionNext(t) \/ ReadNext(t)
      PROVE  TempFilesOwned'
  BY <1>0, <1>1, SessionReadFrame, OwnersKept DEF Others
<1>2. ASSUME NEW n \in Namespace, NEW u \in Upload, InitiateBlobUpload(n, u)
      PROVE  TempFilesOwned'
  <2>1. \A f \in Temp : staging'[f] = staging[f]
    BY <1>0, <1>2, Creates DEF InitiateBlobUpload, File, FsAssumption
  <2> QED BY <1>2, <2>1, OwnersKept DEF InitiateBlobUpload
<1>3. ASSUME NEW n \in Namespace, NEW d \in Digest, DeleteBlob(n, d)
      PROVE  TempFilesOwned'
  BY <1>3, OwnersKept DEF DeleteBlob, fileVars
<1>4. ASSUME NEW f \in File, Sweep(f)
      PROVE  TempFilesOwned'
  <2>1. \A g \in Temp : staging'[g] = "there" => staging[g] = "there"
    BY <1>0, <1>4, Unlinks DEF Sweep
  <2> QED BY <1>4, <2>1, OwnersKept DEF Sweep
<1>5. CASE Crash
  BY <1>5 DEF Crash, TempFilesOwned, fileVars
<1>6. CASE UNCHANGED fsVars
  BY <1>6, OwnersKept DEF fsVars, fileVars
<1> QED BY <1>1, <1>2, <1>3, <1>4, <1>5, <1>6, PutOwned DEF FsNext

(* PutBlob leaves no temporary file behind that it could have removed.           *)
THEOREM TempFilesAreOwned == FsSpec => []TempFilesOwned
<1>1. FsAssumption
  BY FsAssumption
<1>2. FsInit => TempFilesOwned
  BY DEF FsInit, TempFilesOwned, File
<1> QED BY <1>1, <1>2, OwnedStep, TypesHold, PTL DEF FsSpec

-----------------------------------------------------------------------------
(* What the calls of a thread leave alone *)

LEMMA PutFrame ==
    ASSUME FsAssumption, TypeInv, NEW t \in Thread, PutNext(t)
    PROVE  /\ call[t].op \in {"none", "put"} /\ call'[t].op \in {"none", "put"}
           /\ Others(t)
           /\ UNCHANGED ended
           /\ \/ UNCHANGED blobs
              \/ At(t, "put", "link") /\ Link(call[t].file, call[t].key)
           /\ \/ UNCHANGED bytes
              \/ At(t, "put", "write") /\ \E p \in Piece : Write(call[t].file, p)
<1> USE DEF Reply, Op, Pc
<1>0. FsTypeOK /\ (Idle(t) => call[t].op = "none")
  BY DEF TypeInv, Engaged
<1>1. ASSUME NEW n \in Namespace, NEW d \in Digest, NEW size \in 0 .. MaxLength, NEW f \in Temp,
             Begin(t, "put", "write", <<n, d>>, f, size)
      PROVE  Others(t) /\ call'[t].op = "put"
  <2>1. f \in File /\ <<n, d>> \in AnyKey /\ size \in Nat
    BY DEF File, Key, AnyKey, FsAssumption
  <2> QED BY <1>0, <1>1, <2>1, Begins
<1>2. ASSUME NEW n \in Namespace, NEW d \in Digest, NEW size \in 0 .. MaxLength, NEW f \in Temp,
             PutCreate(t, n, d, size, f)
      PROVE  Idle(t) /\ UNCHANGED <<ended, blobs, bytes>> /\ Others(t) /\ call'[t].op = "put"
  BY <1>1, <1>2 DEF PutCreate, Create
<1>3. ASSUME NEW size \in 0 .. MaxLength, PutRefused(t, size)
      PROVE  Idle(t) /\ UNCHANGED <<ended, blobs, bytes>> /\ Others(t) /\ call'[t].op = "none"
  <2>1. PICK r \in Reply : Return(t, r, 0)
    BY <1>3 DEF PutRefused
  <2> QED BY <1>0, <1>3, <2>1, Returns DEF PutRefused, fileVars
<1>4. ASSUME NEW p \in Piece, PutWrite(t, p)
      PROVE  /\ At(t, "put", "write") /\ Write(call[t].file, p)
             /\ UNCHANGED <<ended, blobs, call>>
  BY <1>4 DEF PutWrite
<1>5. CASE PutBreaks(t) \/ PutSync(t) \/ PutSyncFails(t) \/ PutLink(t)
  <2>1. /\ \E pc \in {"link", "remove"}, r \in Reply : Go(t, pc, r)
        /\ call[t].op = "put" /\ UNCHANGED <<bytes, ended>>
        /\ \/ UNCHANGED blobs
           \/ At(t, "put", "link") /\ Link(call[t].file, call[t].key)
    BY <1>5 DEF PutBreaks, PutSync, PutSyncFails, PutLink, Sync, fileVars, At
  <2>2. Others(t) /\ call'[t].op = "put"
    BY <1>0, <2>1, Goes
  <2> QED BY <2>1, <2>2
<1>6. CASE PutRemove(t)
  <2>1. /\ call[t].op = "put" /\ UNCHANGED <<blobs, ended, bytes>>
        /\ \E r \in Reply, n \in Nat : Return(t, r, n)
    BY <1>6, FileOfCall DEF PutRemove, At, Unlink, fileVars
  <2>2. Others(t) /\ call'[t].op = "none"
    BY <1>0, <2>1, Returns
  <2> QED BY <2>1, <2>2
<1>7. ASSUME UNCHANGED call
      PROVE  Others(t) /\ call'[t] = call[t]
  BY <1>7 DEF Others
<1>8. ASSUME NEW p \in Piece, PutWrite(t, p)
      PROVE  /\ call[t].op \in {"none", "put"} /\ call'[t].op \in {"none", "put"}
             /\ Others(t)
  BY <1>4, <1>7, <1>8 DEF At
<1> QED BY <1>0, <1>2, <1>3, <1>4, <1>5, <1>6, <1>8 DEF PutNext

LEMMA ReadFrame ==
    ASSUME FsAssumption, TypeInv, NEW t \in Thread, ReadNext(t)
    PROVE  /\ call[t].op \in {"none", "read"} /\ call'[t].op \in {"none", "read"}
           /\ Others(t)
           /\ UNCHANGED <<fileVars, blobs, ended>>
           /\ call'[t].op = "read" =>
                 call'[t].key \in Key /\ call'[t].file \in File /\ blobs[call'[t].key] = call'[t].file
<1> USE DEF Reply, Op, Pc
<1>0. FsTypeOK /\ (Idle(t) => call[t].op = "none")
  BY DEF TypeInv, Engaged
<1>1. UNCHANGED <<fileVars, blobs, ended>>
  BY DEF ReadNext, GetOpen, GetRangeOpen, ReadEnds
<1>2. ASSUME NEW r \in Reply, NEW n \in Nat, Return(t, r, n)
      PROVE  Others(t) /\ call'[t].op = "none"
  BY <1>0, <1>2, Returns
<1>3. ASSUME NEW k \in Key, blobs[k] # NoFile, NEW size \in Nat,
             Begin(t, "read", "read", k, blobs[k], size)
      PROVE  /\ Others(t) /\ call'[t].op = "read" /\ call'[t].key \in Key
             /\ call'[t].file \in File /\ blobs[call'[t].key] = call'[t].file
  <2>1. blobs[k] \in File /\ k \in AnyKey
    BY <1>0, <1>3 DEF FsTypeOK, AnyKey
  <2> QED BY <1>0, <1>3, <2>1, Begins
<1>4. ASSUME NEW n \in Namespace, NEW d \in Digest, GetOpen(t, n, d)
      PROVE  \/ Idle(t) /\ \E k \in Key, size \in Nat :
                   blobs[k] # NoFile /\ Begin(t, "read", "read", k, blobs[k], size)
             \/ Idle(t) /\ Return(t, "unknown", 0)
  <2>1. <<n, d>> \in Key /\ (blobs[<<n, d>>] # NoFile => Len(bytes[blobs[<<n, d>>]]) \in Nat)
    BY <1>0 DEF Key, FsTypeOK
  <2> QED BY <1>4, <2>1 DEF GetOpen
<1>5. ASSUME NEW n \in Namespace, NEW d \in Digest, NEW last \in 0 .. MaxLength, GetRangeOpen(t, n, d, last)
      PROVE  \/ Idle(t) /\ \E k \in Key, size \in Nat :
                   blobs[k] # NoFile /\ Begin(t, "read", "read", k, blobs[k], size)
             \/ Idle(t) /\ Return(t, "range", 0)
  <2>1. <<n, d>> \in Key /\ last + 1 \in Nat
    BY DEF Key, FsAssumption
  <2> QED BY <1>5, <2>1 DEF GetRangeOpen
<1>6. CASE ReadEnds(t)
  <2>1. call[t].size \in Nat /\ call[t].op = "read"
    BY <1>6, FileOfCall DEF ReadEnds, At
  <2>2. Others(t) /\ call'[t].op = "none"
    BY <1>2, <1>6, <2>1 DEF ReadEnds
  <2> QED BY <1>1, <2>1, <2>2
<1>7. ASSUME \/ \E k \in Key, size \in Nat :
                    blobs[k] # NoFile /\ Begin(t, "read", "read", k, blobs[k], size)
             \/ \E r \in Reply : Return(t, r, 0)
      PROVE  /\ Others(t) /\ call'[t].op \in {"none", "read"}
             /\ call'[t].op = "read" =>
                   call'[t].key \in Key /\ call'[t].file \in File /\ blobs[call'[t].key] = call'[t].file
  BY <1>2, <1>3, <1>7
<1>8. ASSUME NEW n \in Namespace, NEW d \in Digest,
             GetOpen(t, n, d) \/ \E last \in 0 .. MaxLength : GetRangeOpen(t, n, d, last)
      PROVE  /\ Idle(t)
             /\ \/ \E k \in Key, size \in Nat :
                      blobs[k] # NoFile /\ Begin(t, "read", "read", k, blobs[k], size)
                \/ \E r \in Reply : Return(t, r, 0)
  BY <1>4, <1>5, <1>8
<1>9. ASSUME NEW n \in Namespace, NEW d \in Digest,
             GetOpen(t, n, d) \/ \E last \in 0 .. MaxLength : GetRangeOpen(t, n, d, last)
      PROVE  /\ call[t].op = "none" /\ Others(t) /\ call'[t].op \in {"none", "read"}
             /\ call'[t].op = "read" =>
                   call'[t].key \in Key /\ call'[t].file \in File /\ blobs[call'[t].key] = call'[t].file
  BY <1>0, <1>7, <1>8, <1>9
<1> QED BY <1>1, <1>6, <1>9 DEF ReadNext

(* The calls on sessions, by what they do to the call and to the file of its session. *)
Enters(t, u) ==
    /\ call[t].op = "none" /\ MayUse(u) /\ Others(t)
    /\ UNCHANGED <<fileVars, blobs, ended>>
    /\ call'[t].file = u
    /\ \/ /\ call'[t].op = "append" /\ call'[t].size = Len(bytes[u]) /\ call'[t].added = 0
          /\ LateAppends \/ u \notin ended
       \/ call'[t].op = "finalize" /\ call'[t].pc = "hash"

Appends(t) ==
    /\ call[t].op = "append" /\ SameCalls /\ Others(t)
    /\ call'[t].added = call[t].added + 1
    /\ \E p \in Piece : Write(call[t].file, p)
    /\ UNCHANGED <<blobs, ended>>

Hashes(t) ==
    /\ call[t].op = "finalize" /\ Others(t)
    /\ call'[t].op = "finalize" /\ call'[t].file = call[t].file /\ call'[t].key = call[t].key
    /\ bytes[call[t].file] = Content[call[t].key[2]]
    /\ UNCHANGED <<fileVars, blobs, ended>>

Commits(t) ==
    /\ At(t, "finalize", "link") /\ Others(t)
    /\ call'[t].op = "finalize" /\ call'[t].pc = "remove"
    /\ call'[t].file = call[t].file /\ call'[t].key = call[t].key
    /\ staging[call[t].file] = "there"
    /\ \/ Link(call[t].file, call[t].key)
       \/ blobs[call[t].key] # NoFile /\ UNCHANGED blobs
    /\ ended' = ended \cup {call[t].file}
    /\ UNCHANGED fileVars

Leaves(t) ==
    /\ call[t].op \in {"none", "append", "finalize"} /\ Others(t)
    /\ call'[t].op = "none"
    /\ \/ UNCHANGED fileVars
       \/ \E f \in Upload : Sync(f) \/ Unlink(f)
    /\ UNCHANGED <<blobs, ended>>

LEMMA SessionFrame ==
    ASSUME FsAssumption, TypeInv, NEW t \in Thread, SessionNext(t)
    PROVE  \/ \E u \in Upload : Enters(t, u)
           \/ Appends(t) \/ Hashes(t) \/ Commits(t) \/ Leaves(t)
<1> USE DEF Reply, Op, Pc
<1>0. /\ FsTypeOK /\ (Idle(t) => call[t].op = "none") /\ <<NoNamespace, NoDigest>> \in AnyKey
      /\ Upload \subseteq File /\ (call[t].op \in {"append", "finalize"} => call[t].file \in Upload)
  BY DEF TypeInv, Engaged, AnyKey, File
<1>1. ASSUME NEW r \in Reply, NEW n \in Nat, Return(t, r, n)
      PROVE  Others(t) /\ call'[t].op = "none"
  BY <1>0, <1>1, Returns
<1>2. ASSUME NEW op \in {"append", "finalize"}, NEW pc \in Pc, NEW key \in AnyKey, NEW u \in Upload,
             NEW size \in Nat, Begin(t, op, pc, key, u, size)
      PROVE  /\ Others(t) /\ call'[t].op = op /\ call'[t].pc = pc /\ call'[t].file = u
             /\ call'[t].size = size /\ call'[t].added = 0
  BY <1>0, <1>2, Begins
<1>3. ASSUME NEW n \in Namespace, NEW u \in Upload, SessionRefused(t, n, u)
      PROVE  Leaves(t)
  <2>1. PICK r \in Reply : Return(t, r, 0)
    BY <1>3 DEF SessionRefused
  <2> QED BY <1>0, <1>1, <1>3, <2>1 DEF SessionRefused, Leaves
<1>4. ASSUME NEW n \in Namespace, NEW u \in Upload, NEW offset \in 0 .. MaxLength,
             AppendOpen(t, n, u, offset)
      PROVE  Enters(t, u) \/ Leaves(t)
  <2>1. offset \in Nat /\ UNCHANGED <<fileVars, blobs, ended>> /\ call[t].op = "none" /\ MayUse(u)
    BY <1>0, <1>4 DEF AppendOpen, FsAssumption
  <2>2. CASE Return(t, "range", 0)
    BY <1>1, <2>1, <2>2 DEF Leaves
  <2>3. CASE Len(bytes[u]) = offset /\ Begin(t, "append", "copy", <<NoNamespace, NoDigest>>, u, offset)
    <3>1. /\ Others(t) /\ call'[t].op = "append" /\ call'[t].file = u
          /\ call'[t].size = offset /\ call'[t].added = 0
      BY <1>0, <1>2, <2>1, <2>3
    <3> QED BY <1>4, <2>1, <2>3, <3>1 DEF Enters, AppendOpen
  <2> QED BY <1>4, <2>2, <2>3 DEF AppendOpen
<1>5. ASSUME NEW n \in Namespace, NEW u \in Upload, GetBlobUploadOffset(t, n, u)
      PROVE  Leaves(t)
  <2>1. Len(bytes[u]) \in Nat
    BY <1>0 DEF FsTypeOK
  <2>2. Others(t) /\ call'[t].op = "none"
    BY <1>1, <1>5, <2>1 DEF GetBlobUploadOffset
  <2> QED BY <1>0, <1>5, <2>2 DEF GetBlobUploadOffset, Leaves
<1>6. ASSUME NEW n \in Namespace, NEW u \in Upload, NEW d \in Digest, NEW size \in 0 .. MaxLength,
             FinalizeStat(t, n, u, d, size)
      PROVE  Enters(t, u) \/ Leaves(t)
  <2>1. /\ size \in Nat /\ <<n, d>> \in AnyKey
        /\ UNCHANGED <<fileVars, blobs, ended>> /\ call[t].op = "none" /\ MayUse(u)
    BY <1>0, <1>6 DEF FinalizeStat, FsAssumption, AnyKey, Key
  <2>2. CASE Return(t, "sizeInvalid", 0)
    BY <1>1, <2>1, <2>2 DEF Leaves
  <2>3. CASE Begin(t, "finalize", "hash", <<n, d>>, u, size)
    <3>1. Others(t) /\ call'[t].op = "finalize" /\ call'[t].pc = "hash" /\ call'[t].file = u
      BY <1>2, <2>1, <2>3
    <3> QED BY <2>1, <3>1 DEF Enters
  <2> QED BY <1>6, <2>2, <2>3 DEF FinalizeStat
<1>7. ASSUME NEW n \in Namespace, NEW u \in Upload, CancelBlobUpload(t, n, u)
      PROVE  Leaves(t)
  <2>1. /\ UNCHANGED <<blobs, ended>> /\ call[t].op = "none"
        /\ Unlink(u) \/ UNCHANGED fileVars
        /\ \E r \in Reply : Return(t, r, 0)
    BY <1>0, <1>7 DEF CancelBlobUpload
  <2>2. Others(t) /\ call'[t].op = "none"
    BY <1>1, <2>1
  <2> QED BY <2>1, <2>2 DEF Leaves
<1>8. ASSUME NEW p \in Piece, AppendCopy(t, p)
      PROVE  Appends(t)
  <2>1. /\ call[t].op = "append" /\ Write(call[t].file, p) /\ UNCHANGED <<blobs, ended>>
        /\ call' = [call EXCEPT ![t].added = @ + 1]
    BY <1>8 DEF AppendCopy, At
  <2>2. SameCalls /\ Others(t) /\ call'[t].added = call[t].added + 1
    BY <1>0, <2>1, Counts
  <2> QED BY <2>1, <2>2 DEF Appends
<1>9. CASE AppendBreaks(t)
  BY <1>1, <1>9 DEF AppendBreaks, Leaves, At
<1>10. CASE AppendSync(t)
  <2>1. /\ call[t].op = "append" /\ Sync(call[t].file) /\ UNCHANGED <<blobs, ended>>
        /\ Return(t, "ok", call[t].size + call[t].added)
    BY <1>10 DEF AppendSync, At
  <2>2. call[t].size + call[t].added \in Nat
    BY <2>1, FileOfCall
  <2>3. Others(t) /\ call'[t].op = "none"
    BY <1>1, <2>1, <2>2
  <2> QED BY <1>0, <2>1, <2>3 DEF Leaves
<1>11. CASE FinalizeHash(t)
  <2>1. call[t].op = "finalize" /\ UNCHANGED <<fileVars, blobs, ended>>
    BY <1>11 DEF FinalizeHash, At
  <2>2. CASE bytes[call[t].file] = Content[call[t].key[2]] /\ Go(t, "link", "none")
    <3>1. /\ Others(t) /\ call'[t].op = "finalize" /\ call'[t].file = call[t].file
          /\ call'[t].key = call[t].key
      BY <1>0, <2>1, <2>2, Goes
    <3> QED BY <2>1, <2>2, <3>1 DEF Hashes
  <2>3. CASE \E r \in Reply : Return(t, r, 0)
    BY <1>1, <2>1, <2>3 DEF Leaves
  <2> QED BY <1>11, <2>2, <2>3 DEF FinalizeHash
<1>12. CASE FinalizeLink(t)
  <2>1. At(t, "finalize", "link") /\ UNCHANGED fileVars
    BY <1>12 DEF FinalizeLink
  <2>2. CASE Return(t, "error", 0) /\ UNCHANGED <<blobs, ended>>
    BY <1>1, <2>1, <2>2 DEF Leaves, At
  <2>3. CASE /\ \E r \in Reply : Go(t, "remove", r)
             /\ ended' = ended \cup {call[t].file}
             /\ staging[call[t].file] = "there"
             /\ \/ Link(call[t].file, call[t].key)
                \/ blobs[call[t].key] # NoFile /\ UNCHANGED blobs
    <3>1. /\ Others(t) /\ call'[t].op = "finalize" /\ call'[t].pc = "remove"
          /\ call'[t].file = call[t].file /\ call'[t].key = call[t].key
      BY <1>0, <2>1, <2>3, Goes DEF At
    <3> QED BY <2>1, <2>3, <3>1 DEF Commits
  <2> QED BY <1>12, <2>2, <2>3 DEF FinalizeLink, Link
<1>13. CASE FinalizeRemove(t)
  <2>1. /\ call[t].op = "finalize" /\ UNCHANGED <<blobs, ended>>
        /\ Unlink(call[t].file) \/ UNCHANGED fileVars
        /\ \E r \in Reply : Return(t, r, 0)
    BY <1>13, FileOfCall DEF FinalizeRemove, At
  <2>2. Others(t) /\ call'[t].op = "none"
    BY <1>1, <2>1
  <2> QED BY <1>0, <2>1, <2>2 DEF Leaves
<1> QED BY <1>3, <1>4, <1>5, <1>6, <1>7, <1>8, <1>9, <1>10, <1>11, <1>12, <1>13 DEF SessionNext

-----------------------------------------------------------------------------
(* Sessions whose calls come one after the other *)

UsesSession(t) == call[t].op \in {"append", "finalize"}

OneUser ==
    \A t, x \in Thread : t # x /\ UsesSession(t) /\ UsesSession(x) => call[t].file # call[x].file

(* What was hashed is what will be linked. *)
Hashed ==
    \A t \in Thread : At(t, "finalize", "link") => bytes[call[t].file] = Content[call[t].key[2]]

(* An append knows how long the file is. *)
Counted ==
    \A t \in Thread : call[t].op = "append" =>
        Len(bytes[call[t].file]) = call[t].size + call[t].added

SerialInv == OneUser /\ Hashed /\ Counted

(* What a step does to a call that SerialInv need not follow. *)
SerialQuietCall(x) ==
    \/ call'[x] = call[x]
    \/ call'[x].op \notin {"append", "finalize"}
    \/ /\ call[x].op = "finalize" /\ call'[x].op = "finalize" /\ call'[x].pc = "remove"
       /\ call'[x].file = call[x].file

LEMMA SerialQuiet ==
    ASSUME TypeInv, SerialInv, \A x \in Thread : SerialQuietCall(x),
           \A u \in Upload : bytes'[u] = bytes[u]
    PROVE  SerialInv'
<1>1. \A x \in Thread : UsesSession(x)' => UsesSession(x) /\ call'[x].file = call[x].file
  BY DEF SerialQuietCall, UsesSession
<1>2. OneUser'
  BY <1>1 DEF SerialInv, OneUser
<1>3. \A x \in Thread : UsesSession(x) => call[x].file \in Upload
  BY DEF TypeInv, Engaged, UsesSession
<1>4. Hashed'
  <2> SUFFICES ASSUME NEW x \in Thread, At(x, "finalize", "link")'
               PROVE  bytes'[call'[x].file] = Content[call'[x].key[2]]
    BY DEF Hashed
  <2>1. call'[x] = call[x] /\ At(x, "finalize", "link")
    BY DEF SerialQuietCall, At
  <2> QED BY <1>3, <2>1 DEF SerialInv, Hashed, UsesSession, At
<1>5. Counted'
  <2> SUFFICES ASSUME NEW x \in Thread, call'[x].op = "append"
               PROVE  Len(bytes'[call'[x].file]) = call'[x].size + call'[x].added
    BY DEF Counted
  <2>1. call'[x] = call[x]
    BY DEF SerialQuietCall
  <2>2. bytes'[call[x].file] = bytes[call[x].file]
    BY <1>3, <2>1 DEF UsesSession
  <2> QED BY <2>1, <2>2 DEF SerialInv, Counted
<1> QED BY <1>2, <1>4, <1>5 DEF SerialInv

LEMMA SerialSessionStep ==
    ASSUME Exclusive, FsAssumption, TypeInv, SerialInv, NEW t \in Thread, SessionNext(t)
    PROVE  SerialInv'
<1>0. /\ FsTypeOK /\ Upload \subseteq File
      /\ \A x \in Thread : UsesSession(x) => call[x].file \in Upload
      /\ \A x \in Thread : call[x] \in Call
  BY DEF TypeInv, Engaged, File, UsesSession, FsTypeOK
<1>1. ASSUME NEW u \in Upload, Enters(t, u)
      PROVE  SerialInv'
  <2>1. \A x \in Thread : x # t => ~(UsesSession(x) /\ call[x].file = u)
    BY <1>1 DEF Enters, MayUse, Using, UsesSession
  <2>2. OneUser'
    BY <1>1, <2>1 DEF Enters, SerialInv, OneUser, Others, UsesSession
  <2>3. Hashed'
    BY <1>1 DEF Enters, SerialInv, Hashed, Others, At, fileVars
  <2>4. Counted'
    <3>1. Len(bytes[u]) \in Nat
      BY <1>0 DEF FsTypeOK
    <3> QED BY <1>1, <3>1 DEF Enters, SerialInv, Counted, Others, fileVars
  <2> QED BY <2>2, <2>3, <2>4 DEF SerialInv
<1>2. CASE Appends(t)
  <2> DEFINE f == call[t].file
  <2>1. /\ call[t].op = "append" /\ f \in Upload /\ f \in File
        /\ SameCalls /\ Others(t) /\ call'[t].added = call[t].added + 1
    BY <1>0, <1>2 DEF Appends, UsesSession
  <2>2. /\ Len(bytes'[f]) = Len(bytes[f]) + 1
        /\ \A g \in File : g # f => bytes'[g] = bytes[g]
    BY <1>0, <1>2, <2>1, Writes DEF Appends
  <2>3. \A x \in Thread : x # t /\ UsesSession(x) => call[x].file # f /\ call[x].file \in File
    BY <1>0, <2>1 DEF SerialInv, OneUser, UsesSession
  <2>4. OneUser'
    BY <2>1 DEF SerialInv, OneUser, SameCalls, UsesSession
  <2>5. Hashed'
    <3> SUFFICES ASSUME NEW x \in Thread, At(x, "finalize", "link")'
                 PROVE  bytes'[call'[x].file] = Content[call'[x].key[2]]
      BY DEF Hashed
    <3>1. x # t /\ call'[x] = call[x] /\ At(x, "finalize", "link")
      BY <2>1 DEF SameCalls, Others, At
    <3> QED BY <2>2, <2>3, <3>1 DEF SerialInv, Hashed, UsesSession, At
  <2>6. Counted'
    <3> SUFFICES ASSUME NEW x \in Thread, call'[x].op = "append"
                 PROVE  Len(bytes'[call'[x].file]) = call'[x].size + call'[x].added
      BY DEF Counted
    <3>1. call[x].op = "append" /\ call'[x].file = call[x].file /\ call'[x].size = call[x].size
      BY <2>1 DEF SameCalls
    <3>2. Len(bytes[call[x].file]) = call[x].size + call[x].added
      BY <3>1 DEF SerialInv, Counted
    <3>3. CASE x = t
      <4>1. call[t].size \in Nat /\ call[t].added \in Nat
        BY <1>0 DEF Call
      <4>2. /\ Len(bytes'[call'[x].file]) = Len(bytes[call[t].file]) + 1
            /\ call'[x].added = call[t].added + 1 /\ call'[x].size = call[t].size
        BY <2>1, <2>2, <3>1, <3>3
      <4>3. Len(bytes[call[t].file]) = call[t].size + call[t].added
        BY <3>2, <3>3
      <4>4. \A a, b, c, e \in Nat : e = a + b => e + 1 = a + (b + 1)
        OBVIOUS
      <4>5. Len(bytes[call[t].file]) \in Nat
        BY <2>1, FileOfCall
      <4> QED BY <4>1, <4>2, <4>3, <4>4, <4>5
    <3>4. CASE x # t
      <4>1. call'[x] = call[x] /\ bytes'[call[x].file] = bytes[call[x].file]
        BY <2>1, <2>2, <2>3, <3>1, <3>4 DEF Others, UsesSession
      <4> QED BY <3>2, <4>1
    <3> QED BY <3>3, <3>4
  <2> QED BY <2>4, <2>5, <2>6 DEF SerialInv
<1>3. CASE Hashes(t)
  <2>1. OneUser'
    BY <1>3 DEF Hashes, SerialInv, OneUser, Others, UsesSession
  <2>2. Hashed'
    BY <1>3 DEF Hashes, SerialInv, Hashed, Others, At, fileVars
  <2>3. Counted'
    BY <1>3 DEF Hashes, SerialInv, Counted, Others, fileVars
  <2> QED BY <2>1, <2>2, <2>3 DEF SerialInv
<1>4. CASE Commits(t)
  <2>1. \A x \in Thread : SerialQuietCall(x)
    BY <1>4 DEF Commits, SerialQuietCall, Others, At
  <2> QED BY <1>4, <2>1, SerialQuiet DEF Commits, fileVars
<1>5. CASE Leaves(t)
  <2>1. \A x \in Thread : SerialQuietCall(x)
    BY <1>5 DEF Leaves, SerialQuietCall, Others
  <2>2. UNCHANGED bytes
    BY <1>5 DEF Leaves, fileVars, Sync, Unlink
  <2> QED BY <2>1, <2>2, SerialQuiet
<1> QED BY <1>1, <1>2, <1>3, <1>4, <1>5, SessionFrame

LEMMA SerialStep ==
    Exclusive /\ FsAssumption /\ TypeInv /\ SerialInv /\ [FsNext]_fsVars => SerialInv'
<1> SUFFICES ASSUME Exclusive, FsAssumption, TypeInv, SerialInv, [FsNext]_fsVars PROVE SerialInv'
  OBVIOUS
<1>0. FsTypeOK
  BY DEF TypeInv
<1>1. ASSUME NEW t \in Thread, PutNext(t)
      PROVE  SerialInv'
  <2>1. \A x \in Thread : SerialQuietCall(x)
    BY <1>1, PutFrame DEF SerialQuietCall, Others
  <2>2. \A u \in Upload : bytes'[u] = bytes[u]
    <3>1. CASE UNCHANGED bytes
      BY <3>1
    <3>2. CASE At(t, "put", "write") /\ \E p \in Piece : Write(call[t].file, p)
      <4>1. call[t].file \in Temp /\ call[t].file \in File
        BY <3>2 DEF At, TypeInv, Engaged, File
      <4> QED BY <1>0, <3>2, <4>1, Writes DEF File, FsAssumption
    <3> QED BY <1>1, <3>1, <3>2, PutFrame
  <2> QED BY <2>1, <2>2, SerialQuiet
<1>2. ASSUME NEW t \in Thread, SessionNext(t)
      PROVE  SerialInv'
  BY <1>2, SerialSessionStep
<1>3. ASSUME NEW t \in Thread, ReadNext(t)
      PROVE  SerialInv'
  <2>1. \A x \in Thread : SerialQuietCall(x)
    BY <1>3, ReadFrame DEF SerialQuietCall, Others
  <2> QED BY <1>3, <2>1, ReadFrame, SerialQuiet DEF fileVars
<1>4. ASSUME UNCHANGED <<call, bytes>>
      PROVE  SerialInv'
  BY <1>4, SerialQuiet DEF SerialQuietCall
<1>5. ASSUME NEW n \in Namespace, NEW u \in Upload, InitiateBlobUpload(n, u)
      PROVE  SerialInv'
  BY <1>4, <1>5 DEF InitiateBlobUpload, Create
<1>6. ASSUME NEW n \in Namespace, NEW d \in Digest, DeleteBlob(n, d)
      PROVE  SerialInv'
  BY <1>4, <1>6 DEF DeleteBlob, fileVars
<1>7. ASSUME NEW f \in File, Sweep(f)
      PROVE  SerialInv'
  BY <1>4, <1>7 DEF Sweep, Unlink
<1>8. CASE Crash
  <2>1. \A x \in Thread : SerialQuietCall(x)
    BY <1>8 DEF Crash, Answered, SerialQuietCall
  <2> QED BY <1>8, <2>1, SerialQuiet DEF Crash, fileVars
<1>9. CASE UNCHANGED fsVars
  BY <1>4, <1>9 DEF fsVars, fileVars
<1> QED BY <1>1, <1>2, <1>3, <1>5, <1>6, <1>7, <1>8, <1>9 DEF FsNext

LEMMA SerialHolds == Exclusive /\ FsSpec => []SerialInv
<1> SUFFICES ASSUME Exclusive PROVE FsSpec => []SerialInv
  OBVIOUS
<1>1. FsInit => SerialInv
  BY DEF FsInit, SerialInv, OneUser, Hashed, Counted, UsesSession, At, Answered
<1>2. TypeInv /\ SerialInv /\ [FsNext]_fsVars => SerialInv'
  BY SerialStep, FsAssumption
<1> QED BY <1>1, <1>2, TypesHold, PTL DEF FsSpec

(* The offset an append answers is the size of the file it wrote to, unless      *)
(* another call on the session runs beside it.                                   *)
THEOREM AppendOffsetRight == Exclusive /\ FsSpec => AppendAnswers
<1> DEFINE Right == \A t \in Thread :
                      call[t].op = "append" /\ call'[t].reply = "ok"
                        => call'[t].size = Len(bytes'[call[t].file])
<1>1. FsAssumption /\ TypeInv /\ SerialInv /\ [FsNext]_fsVars => [Right]_fsVars
  <2> SUFFICES ASSUME FsAssumption, TypeInv, SerialInv, FsNext,
                      NEW t \in Thread, call[t].op = "append", call'[t].reply = "ok"
               PROVE  call'[t].size = Len(bytes'[call[t].file])
    OBVIOUS
  <2> USE DEF Reply, Op, Pc
  <2>0. FsTypeOK /\ call[t].reply = "none" /\ call[t].file \in File
    BY FileOfCall DEF TypeInv, Engaged
  <2>1. \A x \in Thread : PutNext(x) \/ SessionNext(x) \/ ReadNext(x) => Others(x)
    BY PutFrame, SessionReadFrame
  <2>2. (\E x \in Thread : PutNext(x) \/ SessionNext(x) \/ ReadNext(x)) \/ Crash
    BY <2>0 DEF FsNext, InitiateBlobUpload, DeleteBlob, Sweep
  <2>3. CASE Crash
    BY <2>3 DEF Crash, Answered
  <2>4. CASE PutNext(t) \/ ReadNext(t)
    BY <2>4, PutFrame, ReadFrame
  <2>5. CASE SessionNext(t)
    <3>1. ~Idle(t)
      BY DEF TypeInv, Engaged
    <3>2. CASE \E p \in Piece : AppendCopy(t, p)
      <4>1. call'[t].reply = call[t].reply
        BY <2>0, <3>2, Counts DEF AppendCopy, SameCalls
      <4> QED BY <2>0, <4>1
    <3>3. CASE AppendBreaks(t)
      BY <2>0, <3>3, Returns DEF AppendBreaks
    <3>4. CASE AppendSync(t)
      <4>1. call[t].size + call[t].added \in Nat
        BY FileOfCall
      <4>2. call'[t].size = call[t].size + call[t].added /\ bytes' = bytes
        BY <2>0, <3>4, <4>1, Returns DEF AppendSync, Sync
      <4> QED BY <4>2 DEF SerialInv, Counted
    <3> QED BY <2>5, <3>1, <3>2, <3>3, <3>4
            DEF SessionNext, SessionRefused, AppendOpen, GetBlobUploadOffset, FinalizeStat,
                CancelBlobUpload, FinalizeHash, FinalizeLink, FinalizeRemove, At
  <2>6. ASSUME NEW x \in Thread, x # t, Others(x)
        PROVE  FALSE
    BY <2>0, <2>6 DEF Others
  <2> QED BY <2>1, <2>2, <2>3, <2>4, <2>5, <2>6
<1>2. TypeInv /\ SerialInv /\ [FsNext]_fsVars => [Right]_fsVars
  BY <1>1, FsAssumption
<1>3. Exclusive /\ FsSpec => [][Right]_fsVars
  BY <1>2, SerialHolds, TypesHold, PTL DEF FsSpec
<1> QED BY <1>3 DEF AppendAnswers

-----------------------------------------------------------------------------
(* Committed content *)

(* A session that was linked is over for the clients, and is not appended to.    *)
Linked == \A u \in Upload : Frozen(u) => u \in ended
Unended == \A t \in Thread : call[t].op = "append" => call[t].file \notin ended

LinkInv == Linked /\ Unended /\ CommittedContent

LEMMA LinkQuiet ==
    ASSUME TypeInv, TypeInv', LinkInv, UNCHANGED ended,
           \A x \in Thread : call'[x].op \in {"append", "read"} =>
               call'[x].op = call[x].op /\ call'[x].file = call[x].file /\ call'[x].key = call[x].key,
           \A k \in Key : blobs'[k] \in {blobs[k], NoFile},
           \A f \in File : Frozen(f) => bytes'[f] = bytes[f]
    PROVE  LinkInv'
<1>1. NoFile \notin File
  BY FsAssumption DEF File
<1>2. \A f \in File : Frozen(f)' => Frozen(f)
  BY <1>1 DEF Frozen
<1>3. Linked'
  BY <1>2 DEF LinkInv, Linked, File
<1>4. Unended'
  BY DEF LinkInv, Unended
<1>5. ASSUME NEW k \in Key, blobs'[k] # NoFile
      PROVE  bytes'[blobs'[k]] = Content[k[2]]
  <2>1. blobs'[k] = blobs[k] /\ blobs[k] \in File
    BY <1>5 DEF TypeInv, FsTypeOK
  <2> QED BY <1>5, <2>1 DEF LinkInv, CommittedContent, Frozen
<1>6. ASSUME NEW t \in Thread, At(t, "read", "read")'
      PROVE  bytes'[call'[t].file] = Content[call'[t].key[2]]
  <2>1. call[t].op = "read" /\ call'[t].file = call[t].file /\ call'[t].key = call[t].key
    BY <1>6 DEF At
  <2>2. At(t, "read", "read") /\ call[t].file \in File
    BY <2>1 DEF TypeInv, Engaged, At
  <2> QED BY <2>1, <2>2 DEF LinkInv, CommittedContent, Frozen
<1> QED BY <1>3, <1>4, <1>5, <1>6 DEF LinkInv, CommittedContent

(* A verified file is linked; it is not appended to any more. *)
LEMMA LinkLink ==
    ASSUME TypeInv, LinkInv, NEW f \in File, NEW key \in Key, Link(f, key), UNCHANGED bytes,
           bytes[f] = Content[key[2]], ended \subseteq ended', f \in Upload => f \in ended',
           \A x \in Thread : call'[x].op \in {"append", "read"} => call'[x] = call[x],
           \A x \in Thread : call'[x].op = "append" => call'[x].file \notin ended'
    PROVE  LinkInv'
<1>1. /\ blobs'[key] = f
      /\ \A k \in Key : k # key => blobs'[k] = blobs[k]
  BY Links DEF TypeInv
<1>2. \A g \in File : Frozen(g)' => g = f \/ Frozen(g)
  BY <1>1 DEF Frozen
<1>3. Linked'
  BY <1>2 DEF LinkInv, Linked, File
<1>4. Unended'
  BY DEF Unended
<1>5. CommittedContent'
  BY <1>1 DEF LinkInv, CommittedContent, At
<1> QED BY <1>3, <1>4, <1>5 DEF LinkInv

LEMMA LinkPutStep ==
    ASSUME FsAssumption, TypeInv, TypeInv', PutInv, LinkInv, NEW t \in Thread, PutNext(t)
    PROVE  LinkInv'
<1>0. FsTypeOK /\ FsTypeOK'
  BY DEF TypeInv
<1>1. \A x \in Thread : call'[x].op \in {"append", "read"} => call'[x] = call[x]
  BY PutFrame DEF Others
<1>2. CASE UNCHANGED <<blobs, bytes>>
  BY <1>1, <1>2, PutFrame, LinkQuiet
<1>3. CASE At(t, "put", "link") /\ Link(call[t].file, call[t].key) /\ UNCHANGED bytes
  <2>1. /\ call[t].file \in File /\ call[t].file \notin Upload /\ call[t].key \in Key
        /\ bytes[call[t].file] = Content[call[t].key[2]]
    BY <1>3 DEF At, TypeInv, Engaged, File, FsAssumption, PutInv, PutReady
  <2>2. \A x \in Thread : call'[x].op = "append" => call'[x].file \notin ended'
    BY <1>1, PutFrame DEF LinkInv, Unended
  <2> QED BY <1>1, <1>3, <2>1, <2>2, PutFrame, LinkLink
<1>4. CASE At(t, "put", "write") /\ (\E p \in Piece : Write(call[t].file, p)) /\ UNCHANGED blobs
  <2>1. call[t].file \in File /\ ~Frozen(call[t].file)
    BY <1>4 DEF At, TypeInv, Engaged, File, PutInv, Unread
  <2>2. \A f \in File : Frozen(f) => bytes'[f] = bytes[f]
    BY <1>0, <1>4, <2>1, Writes
  <2> QED BY <1>1, <1>4, <2>2, PutFrame, LinkQuiet
<1>5. ~(At(t, "put", "write") /\ At(t, "put", "link"))
  BY DEF At
<1> QED BY <1>2, <1>3, <1>4, <1>5, PutFrame

LEMMA LinkReadStep ==
    ASSUME FsAssumption, TypeInv, TypeInv', LinkInv, NEW t \in Thread, ReadNext(t)
    PROVE  LinkInv'
<1>1. UNCHANGED <<bytes, blobs, ended>> /\ Others(t)
  BY ReadFrame DEF fileVars
<1>2. CASE call'[t].op = "none"
  BY <1>1, <1>2, LinkQuiet DEF Others
<1>3. CASE call'[t].op = "read"
  <2>1. call'[t].key \in Key /\ call'[t].file \in File /\ blobs[call'[t].key] = call'[t].file
    BY <1>3, ReadFrame
  <2>2. Linked'
    BY <1>1, <1>3, <2>1 DEF LinkInv, Linked, Frozen, Others
  <2>3. Unended'
    BY <1>1, <1>3 DEF LinkInv, Unended, Others
  <2>4. NoFile \notin File
    BY DEF FsAssumption, File
  <2>5. CommittedContent'
    BY <1>1, <2>1, <2>4 DEF LinkInv, CommittedContent, Others, At
  <2> QED BY <2>2, <2>3, <2>5 DEF LinkInv
<1> QED BY <1>2, <1>3, ReadFrame

LEMMA LinkSessionStep ==
    ASSUME ~LateAppends, FsAssumption, TypeInv, TypeInv', SerialInv, LinkInv,
           NEW t \in Thread, SessionNext(t)
    PROVE  LinkInv'
<1>0. FsTypeOK /\ Upload \subseteq File
  BY DEF TypeInv, File
<1>1. ASSUME NEW u \in Upload, Enters(t, u)
      PROVE  LinkInv'
  <2>1. UNCHANGED <<bytes, blobs, ended>> /\ Others(t) /\ call'[t].op # "read"
    BY <1>1 DEF Enters, fileVars
  <2>2. Linked' /\ CommittedContent'
    BY <2>1 DEF LinkInv, Linked, CommittedContent, Frozen, Others, At
  <2>3. Unended'
    BY <1>1 DEF Enters, LinkInv, Unended, Others
  <2> QED BY <2>2, <2>3 DEF LinkInv
<1>2. CASE Appends(t)
  <2>1. call[t].op = "append" /\ call[t].file \in Upload /\ call[t].file \notin ended
    BY <1>2 DEF Appends, TypeInv, Engaged, LinkInv, Unended
  <2>2. ~Frozen(call[t].file)
    BY <2>1 DEF LinkInv, Linked
  <2>3. \A f \in File : f # call[t].file => bytes'[f] = bytes[f]
    BY <1>0, <1>2, <2>1, Writes DEF Appends
  <2> QED BY <1>2, <2>2, <2>3, LinkQuiet DEF Appends, SameCalls
<1>3. CASE Hashes(t)
  BY <1>3, LinkQuiet DEF Hashes, Others, fileVars
<1>4. CASE Commits(t)
  <2> DEFINE f == call[t].file
  <2>1. /\ f \in Upload /\ f \in File /\ call[t].key \in Key
        /\ bytes[f] = Content[call[t].key[2]] /\ UNCHANGED bytes
        /\ ended' = ended \cup {f}
    BY <1>0, <1>4 DEF Commits, At, TypeInv, Engaged, SerialInv, Hashed, fileVars
  <2>2. \A x \in Thread : call'[x].op \in {"append", "read"} => call'[x] = call[x]
    BY <1>4 DEF Commits, Others
  <2>3. \A x \in Thread : call'[x].op = "append" => call'[x].file \notin ended'
    <3>1. \A x \in Thread : call[x].op = "append" => call[x].file # f /\ call[x].file \notin ended
      BY <1>4 DEF Commits, At, SerialInv, OneUser, UsesSession, LinkInv, Unended
    <3> QED BY <2>1, <2>2, <3>1
  <2>4. CASE Link(f, call[t].key)
    BY <2>1, <2>2, <2>3, <2>4, LinkLink
  <2>5. CASE UNCHANGED blobs
    <3>1. Linked' /\ CommittedContent'
      BY <2>1, <2>2, <2>5 DEF LinkInv, Linked, CommittedContent, Frozen, At
    <3> QED BY <2>3, <3>1 DEF LinkInv, Unended
  <2> QED BY <1>4, <2>4, <2>5 DEF Commits
<1>5. CASE Leaves(t)
  <2>1. UNCHANGED bytes
    BY <1>5 DEF Leaves, fileVars, Sync, Unlink
  <2> QED BY <1>5, <2>1, LinkQuiet DEF Leaves, Others
<1> QED BY <1>1, <1>2, <1>3, <1>4, <1>5, SessionFrame

LEMMA LinkStep ==
    /\ ~LateAppends /\ FsAssumption
    /\ TypeInv /\ TypeInv' /\ PutInv /\ SerialInv /\ LinkInv /\ [FsNext]_fsVars
    => LinkInv'
<1> SUFFICES ASSUME ~LateAppends, FsAssumption, TypeInv, TypeInv', PutInv, SerialInv, LinkInv,
                    [FsNext]_fsVars
             PROVE  LinkInv'
  OBVIOUS
<1>1. ASSUME NEW t \in Thread, PutNext(t) \/ SessionNext(t) \/ ReadNext(t)
      PROVE  LinkInv'
  BY <1>1, LinkPutStep, LinkSessionStep, LinkReadStep
<1>2. ASSUME UNCHANGED <<call, bytes, blobs, ended>>
      PROVE  LinkInv'
  BY <1>2, LinkQuiet
<1>3. ASSUME NEW n \in Namespace, NEW u \in Upload, InitiateBlobUpload(n, u)
      PROVE  LinkInv'
  BY <1>2, <1>3 DEF InitiateBlobUpload, Create
<1>4. ASSUME NEW n \in Namespace, NEW d \in Digest, DeleteBlob(n, d)
      PROVE  LinkInv'
  <2>1. \A k \in Key : blobs'[k] \in {blobs[k], NoFile}
    BY <1>4 DEF DeleteBlob, TypeInv, FsTypeOK
  <2> QED BY <1>4, <2>1, LinkQuiet DEF DeleteBlob, fileVars
<1>5. ASSUME NEW f \in File, Sweep(f)
      PROVE  LinkInv'
  BY <1>2, <1>5 DEF Sweep, Unlink
<1>6. CASE Crash
  <2>1. \A x \in Thread : call'[x].op \notin {"append", "read"}
    BY <1>6 DEF Crash, Answered
  <2> QED BY <1>6, <2>1, LinkQuiet DEF Crash, fileVars
<1>7. CASE UNCHANGED fsVars
  BY <1>2, <1>7 DEF fsVars, fileVars
<1> QED BY <1>1, <1>3, <1>4, <1>5, <1>6, <1>7 DEF FsNext

(* A blob has the bytes of its digest, in the store and for whoever reads it,    *)
(* unless a client appends to a session whose commit got to the link, or two     *)
(* calls run on one session.                                                     *)
THEOREM ContentCommitted == Exclusive /\ ~LateAppends /\ FsSpec => []CommittedContent
<1> SUFFICES ASSUME Exclusive, ~LateAppends PROVE FsSpec => []CommittedContent
  OBVIOUS
<1>1. FsInit => LinkInv
  <2>1. NoFile \notin File
    BY FsAssumption DEF File
  <2> QED BY <2>1 DEF FsInit, LinkInv, Linked, Unended, CommittedContent, Frozen, At, Answered, File
<1>2. TypeInv /\ TypeInv' /\ PutInv /\ SerialInv /\ LinkInv /\ [FsNext]_fsVars => LinkInv'
  BY LinkStep, FsAssumption
<1>3. FsSpec => []SerialInv
  BY SerialHolds
<1>4. LinkInv => CommittedContent
  BY DEF LinkInv
<1> QED BY <1>1, <1>2, <1>3, <1>4, TypesHold, PutInvHolds, PTL DEF FsSpec

-----------------------------------------------------------------------------
(* The contract is kept *)

(* A file nobody created is empty and was never committed. *)
Fresh == \A f \in File : staging[f] = "unused" => bytes[f] = <<>> /\ f \notin ended

LEMMA PutStages ==
    ASSUME FsAssumption, TypeInv, NEW t \in Thread, PutNext(t)
    PROVE  /\ \A u \in Upload : staging'[u] = staging[u] /\ home'[u] = home[u] /\ bytes'[u] = bytes[u]
           /\ \A f \in File : staging'[f] = "unused" => staging[f] = "unused" /\ bytes'[f] = bytes[f]
<1>0. /\ FsTypeOK /\ Temp \subseteq File /\ Upload \subseteq File /\ \A u \in Upload : u \notin Temp
      /\ call[t].op = "put" => call[t].file \in Temp /\ staging[call[t].file] # "unused"
  BY DEF TypeInv, Engaged, File, FsAssumption
<1>1. ASSUME NEW n \in Namespace, NEW f \in Temp, Create(n, f)
      PROVE  /\ \A u \in Upload : staging'[u] = staging[u] /\ home'[u] = home[u]
             /\ \A g \in File : staging'[g] = "unused" => staging[g] = "unused"
             /\ UNCHANGED bytes
  BY <1>0, <1>1, Creates
<1>2. ASSUME call[t].op = "put", Unlink(call[t].file)
      PROVE  /\ \A u \in Upload : staging'[u] = staging[u] /\ home'[u] = home[u]
             /\ \A g \in File : staging'[g] = "unused" => staging[g] = "unused"
             /\ UNCHANGED bytes
  BY <1>0, <1>2, Unlinks
<1>3. ASSUME NEW p \in Piece, PutWrite(t, p)
      PROVE  /\ UNCHANGED <<staging, home>>
             /\ \A u \in Upload : bytes'[u] = bytes[u]
             /\ \A g \in File : staging[g] = "unused" => bytes'[g] = bytes[g]
  <2>1. call[t].op = "put" /\ Write(call[t].file, p)
    BY <1>3 DEF PutWrite, At
  <2> QED BY <1>0, <2>1, Writes
<1>4. CASE PutBreaks(t) \/ PutSync(t) \/ PutSyncFails(t) \/ PutLink(t)
  BY <1>4 DEF PutBreaks, PutSync, PutSyncFails, PutLink, Sync, fileVars
<1>5. CASE PutRemove(t)
  <2>1. call[t].op = "put" /\ (Unlink(call[t].file) \/ UNCHANGED fileVars)
    BY <1>5 DEF PutRemove, At
  <2> QED BY <1>2, <2>1 DEF fileVars
<1>6. CASE \E n \in Namespace, d \in Digest, size \in 0 .. MaxLength, f \in Temp :
               PutCreate(t, n, d, size, f)
  BY <1>1, <1>6 DEF PutCreate
<1>7. CASE \E size \in 0 .. MaxLength : PutRefused(t, size)
  BY <1>7 DEF PutRefused, fileVars
<1>8. CASE \E p \in Piece : PutWrite(t, p)
  BY <1>3, <1>8
<1> QED BY <1>4, <1>5, <1>6, <1>7, <1>8 DEF PutNext

LEMMA FreshStep == FsAssumption /\ TypeInv /\ Fresh /\ [FsNext]_fsVars => Fresh'
<1> SUFFICES ASSUME FsAssumption, TypeInv, Fresh, [FsNext]_fsVars PROVE Fresh'
  OBVIOUS
<1>0. /\ FsTypeOK /\ Upload \subseteq File
      /\ \A t \in Thread : call[t].op \in {"append", "finalize"} =>
            call[t].file \in Upload /\ staging[call[t].file] # "unused"
  BY DEF TypeInv, Engaged, File
<1>1. ASSUME NEW t \in Thread, PutNext(t)
      PROVE  Fresh'
  BY <1>1, PutStages, PutFrame DEF Fresh
<1>2. ASSUME UNCHANGED <<bytes, ended>>,
             \A f \in File : staging'[f] = "unused" => staging[f] = "unused"
      PROVE  Fresh'
  BY <1>2 DEF Fresh
<1>3. ASSUME NEW f \in File, Unlink(f)
      PROVE  UNCHANGED bytes /\ \A g \in File : staging'[g] = "unused" => staging[g] = "unused"
  BY <1>0, <1>3, Unlinks
<1>4. ASSUME NEW t \in Thread, SessionNext(t)
      PROVE  Fresh'
  <2>1. CASE Appends(t)
    <3>1. /\ call[t].op = "append" /\ call[t].file \in File /\ staging[call[t].file] # "unused"
          /\ UNCHANGED ended
      BY <1>0, <2>1 DEF Appends
    <3>2. /\ UNCHANGED staging
          /\ \A g \in File : g # call[t].file => bytes'[g] = bytes[g]
      BY <1>0, <2>1, <3>1, Writes DEF Appends
    <3> QED BY <3>1, <3>2 DEF Fresh
  <2>2. CASE Commits(t)
    <3>1. /\ UNCHANGED <<staging, bytes>> /\ ended' = ended \cup {call[t].file}
          /\ staging[call[t].file] = "there"
      BY <2>2 DEF Commits, fileVars
    <3> QED BY <3>1 DEF Fresh
  <2>3. CASE Leaves(t)
    <3>1. CASE UNCHANGED fileVars
      BY <1>2, <2>3, <3>1 DEF Leaves, fileVars
    <3>2. CASE \E f \in Upload : Sync(f) \/ Unlink(f)
      BY <1>0, <1>2, <1>3, <2>3, <3>2 DEF Leaves, Sync
    <3> QED BY <2>3, <3>1, <3>2 DEF Leaves
  <2>4. CASE Hashes(t) \/ \E u \in Upload : Enters(t, u)
    BY <1>2, <2>4 DEF Hashes, Enters, fileVars
  <2> QED BY <1>4, <2>1, <2>2, <2>3, <2>4, SessionFrame
<1>5. ASSUME NEW t \in Thread, ReadNext(t)
      PROVE  Fresh'
  BY <1>2, <1>5, ReadFrame DEF fileVars
<1>6. ASSUME NEW n \in Namespace, NEW u \in Upload, InitiateBlobUpload(n, u)
      PROVE  Fresh'
  BY <1>0, <1>2, <1>6, Creates DEF InitiateBlobUpload
<1>7. ASSUME NEW n \in Namespace, NEW d \in Digest, DeleteBlob(n, d)
      PROVE  Fresh'
  BY <1>2, <1>7 DEF DeleteBlob, fileVars
<1>8. ASSUME NEW f \in File, Sweep(f)
      PROVE  Fresh'
  BY <1>2, <1>3, <1>8 DEF Sweep
<1>9. CASE Crash
  BY <1>2, <1>9 DEF Crash, fileVars
<1>10. CASE UNCHANGED fsVars
  BY <1>2, <1>10 DEF fsVars, fileVars
<1> QED BY <1>1, <1>4, <1>5, <1>6, <1>7, <1>8, <1>9, <1>10 DEF FsNext

LEMMA FreshHolds == FsSpec => []Fresh
<1>1. FsInit => Fresh
  BY DEF FsInit, Fresh
<1>2. TypeInv /\ Fresh /\ [FsNext]_fsVars => Fresh'
  BY FreshStep, FsAssumption
<1> QED BY <1>1, <1>2, TypesHold, PTL DEF FsSpec

(* The variables of the contract. *)
Stored == {k \in Key : blobs[k] # NoFile}
Sessions == [u \in Upload |-> Session(u)]

Open(u) == staging[u] = "there" /\ u \notin ended

Alike(u) ==
    /\ staging'[u] = staging[u] /\ home'[u] = home[u] /\ bytes'[u] = bytes[u]
    /\ u \in ended' <=> u \in ended

LEMMA SessionAlike ==
    ASSUME NEW u \in Upload, Alike(u) PROVE Session(u)' = Session(u)
BY DEF Alike, Session

LEMMA Stutters ==
    ASSUME \A u \in Upload : Session(u)' = Session(u), UNCHANGED Stored
    PROVE  UNCHANGED Abstract!blobVars
<1>1. Sessions' = Sessions
  BY DEF Sessions
<1> QED BY <1>1 DEF Abstract!blobVars, Sessions, Stored

LEMMA SessionsBecome ==
    ASSUME NEW u \in Upload, NEW s, Session(u)' = s,
           \A v \in Upload : v # u => Session(v)' = Session(v)
    PROVE  Sessions' = [Sessions EXCEPT ![u] = s]
BY DEF Sessions

LEMMA EndOfSession ==
    ASSUME NEW u \in Upload, NEW n, Session(u).ns = n
    PROVE  Abstract!EndUpload(u) = [Sessions EXCEPT ![u] = [state |-> "gone", ns |-> n, data |-> <<>>]]
<1>1. Sessions[u].ns = n
  BY DEF Sessions
<1> QED BY <1>1 DEF Abstract!EndUpload, Sessions

(* The name of an open session is removed: the session is cancelled. *)
LEMMA Cancels ==
    ASSUME TypeInv, NEW u \in Upload, Unlink(u), UNCHANGED <<ended, Stored>>
    PROVE  Abstract!BlobNext \/ UNCHANGED Abstract!blobVars
<1>1. /\ FsTypeOK /\ u \in File /\ Upload \subseteq File
  BY DEF TypeInv, File
<1>2. /\ staging'[u] # "there" /\ (staging'[u] = "unused" <=> staging[u] = "unused")
      /\ \A v \in Upload : v # u => Session(v)' = Session(v)
      /\ home'[u] = home[u]
  <2>1. /\ staging'[u] # "there" /\ (staging'[u] = "unused" <=> staging[u] = "unused")
        /\ \A v \in Upload : v # u => staging'[v] = staging[v]
        /\ UNCHANGED <<home, bytes, ended>>
    BY <1>1, Unlinks
  <2>2. \A v \in Upload : v # u => Alike(v)
    BY <2>1 DEF Alike
  <2> QED BY <2>1, <2>2, SessionAlike
<1>3. CASE Open(u)
  <2>1. Session(u) = [state |-> "open", ns |-> home[u], data |-> bytes[u]]
    BY <1>3 DEF Open, Session
  <2>2. Session(u)' = [state |-> "gone", ns |-> home[u], data |-> <<>>]
    BY <1>2, <1>3 DEF Open, Session
  <2>3. Sessions' = [Sessions EXCEPT ![u] = [state |-> "gone", ns |-> home[u], data |-> <<>>]]
    BY <1>2, <2>2, SessionsBecome
  <2>4. home[u] \in Namespace
    BY <1>1, <1>3 DEF TypeInv, Housed, Open
  <2>5. Abstract!CancelBlobUpload(home[u], u)
    <3>1. Sessions' = Abstract!EndUpload(u)
      BY <2>1, <2>3, EndOfSession
    <3>2. Abstract!UploadKnown(home[u], u)
      BY <2>1 DEF Abstract!UploadKnown
    <3> QED BY <3>1, <3>2 DEF Abstract!CancelBlobUpload, Sessions, Stored
  <2> QED BY <2>4, <2>5 DEF Abstract!BlobNext
<1>4. CASE ~Open(u)
  <2>1. Session(u)' = Session(u)
    BY <1>2, <1>4 DEF Open, Session
  <2> QED BY <1>2, <2>1, Stutters
<1> QED BY <1>3, <1>4

(* A file gets a blob path: the blob is put. *)
LEMMA Puts ==
    ASSUME TypeInv, FsAssumption, NEW f \in File, NEW key \in Key, Link(f, key),
           \A u \in Upload : Session(u)' = Session(u)
    PROVE  Abstract!BlobNext
<1>1. PICK n \in Namespace, d \in Digest : key = <<n, d>>
  BY DEF Key
<1>2. /\ blobs[key] = NoFile /\ blobs'[key] # NoFile
      /\ \A k \in Key : k # key => blobs'[k] = blobs[k]
  BY Links DEF TypeInv, FsAssumption, File
<1>3. Stored' = Stored \cup {<<n, d>>} /\ <<n, d>> \notin Stored
  BY <1>1, <1>2 DEF Stored
<1>4. Sessions' = Sessions
  BY DEF Sessions
<1>5. Abstract!PutBlob(n, d)
  BY <1>3, <1>4 DEF Abstract!PutBlob, Abstract!Stored, Stored, Sessions
<1> QED BY <1>5 DEF Abstract!BlobNext

LEMMA PutImplements ==
    ASSUME FsAssumption, TypeInv, NEW t \in Thread, PutNext(t)
    PROVE  Abstract!BlobNext \/ UNCHANGED Abstract!blobVars
<1>1. \A u \in Upload : Session(u)' = Session(u)
  BY PutStages, PutFrame, SessionAlike DEF Alike
<1>2. CASE UNCHANGED blobs
  BY <1>1, <1>2, Stutters DEF Stored
<1>3. CASE At(t, "put", "link") /\ Link(call[t].file, call[t].key)
  <2>1. call[t].file \in File /\ call[t].key \in Key
    BY <1>3 DEF At, TypeInv, Engaged, File
  <2> QED BY <1>1, <1>3, <2>1, Puts
<1> QED BY <1>2, <1>3, PutFrame

LEMMA WithData ==
    ASSUME NEW n \in Namespace \cup {NoNamespace}, NEW b \in Seq(Piece), NEW x \in Seq(Piece)
    PROVE  [[state |-> "open", ns |-> n, data |-> b] EXCEPT !.data = x]
              = [state |-> "open", ns |-> n, data |-> x]
OBVIOUS

LEMMA AppendImplements ==
    ASSUME FsAssumption, TypeInv, NEW t \in Thread, Appends(t)
    PROVE  Abstract!BlobNext \/ UNCHANGED Abstract!blobVars
<1>0. PICK f \in Upload : f = call[t].file
  BY DEF TypeInv, Engaged, Appends
<1>1. /\ FsTypeOK /\ f \in File /\ Upload \subseteq File
      /\ UNCHANGED <<blobs, ended>>
  BY DEF TypeInv, Appends, File
<1>2. PICK p \in Piece : Write(f, p)
  BY <1>0 DEF Appends
<1>3. /\ bytes'[f] = Append(bytes[f], p) /\ Len(bytes[f]) < MaxLength
      /\ \A v \in Upload : v # f => bytes'[v] = bytes[v]
      /\ UNCHANGED <<staging, home>>
  BY <1>1, <1>2, Writes DEF Write
<1>4. \A v \in Upload : v # f => Session(v)' = Session(v)
  BY <1>1, <1>3, SessionAlike DEF Alike
<1>5. CASE ~Open(f)
  <2>1. Session(f)' = Session(f)
    BY <1>1, <1>3, <1>5 DEF Open, Session
  <2> QED BY <1>1, <1>4, <2>1, Stutters DEF Stored
<1>6. CASE Open(f)
  <2>1. /\ Session(f) = [state |-> "open", ns |-> home[f], data |-> bytes[f]]
        /\ Session(f)' = [state |-> "open", ns |-> home[f], data |-> Append(bytes[f], p)]
    BY <1>1, <1>3, <1>6 DEF Open, Session
  <2>2. Sessions' = [Sessions EXCEPT ![f] = [state |-> "open", ns |-> home[f], data |-> Append(bytes[f], p)]]
    BY <1>1, <1>4, <2>1, SessionsBecome
  <2>3. Sessions[f] = [state |-> "open", ns |-> home[f], data |-> bytes[f]]
    BY <1>1, <2>1 DEF Sessions
  <2>4. Sessions' = [Sessions EXCEPT ![f].data = Append(@, p)]
    <3>1. /\ home[f] \in Namespace \cup {NoNamespace} /\ bytes[f] \in Seq(Piece)
          /\ Append(bytes[f], p) \in Seq(Piece)
      BY <1>1 DEF FsTypeOK
    <3>2. [Sessions[f] EXCEPT !.data = Append(bytes[f], p)]
             = [state |-> "open", ns |-> home[f], data |-> Append(bytes[f], p)]
      <4>1. [[state |-> "open", ns |-> home[f], data |-> bytes[f]] EXCEPT !.data = Append(bytes[f], p)]
               = [state |-> "open", ns |-> home[f], data |-> Append(bytes[f], p)]
        BY <3>1, WithData, Zenon
      <4> QED BY <2>3, <4>1, Zenon
    <3>3. Sessions[f].data = bytes[f]
      BY <2>3
    <3> QED BY <2>2, <3>2, <3>3
  <2>5. home[f] \in Namespace
    BY <1>1, <1>6 DEF TypeInv, Housed, Open
  <2>6. Abstract!UploadKnown(home[f], f) /\ Abstract!AppendPiece(f, p)
    BY <1>1, <1>3, <2>3, <2>4
       DEF Abstract!UploadKnown, Abstract!AppendPiece, Abstract!UploadOffset, Sessions, Stored
  <2> QED BY <1>1, <2>5, <2>6 DEF Abstract!BlobNext
<1> QED BY <1>5, <1>6

LEMMA CommitImplements ==
    ASSUME FsAssumption, TypeInv, SerialInv, NEW t \in Thread, Commits(t)
    PROVE  Abstract!BlobNext \/ UNCHANGED Abstract!blobVars
<1>0. PICK f \in Upload, key \in Key : f = call[t].file /\ key = call[t].key
  BY DEF TypeInv, Engaged, Commits, At
<1>1. /\ f \in Upload /\ f \in File /\ key \in Key /\ key[1] = home[f] /\ staging[f] = "there"
      /\ UNCHANGED fileVars /\ ended' = ended \cup {f}
      /\ bytes[f] = Content[key[2]]
      /\ Link(f, key) \/ (blobs[key] # NoFile /\ UNCHANGED blobs)
  BY <1>0 DEF TypeInv, Engaged, Commits, At, File, SerialInv, Hashed
<1>2. PICK n \in Namespace, d \in Digest : key = <<n, d>>
  BY <1>1 DEF Key
<1>3. \A v \in Upload : v # f => Session(v)' = Session(v)
  BY <1>1, SessionAlike DEF Alike, fileVars
<1>4. CASE f \in ended
  <2>1. Session(f)' = Session(f)
    BY <1>1, <1>4, SessionAlike DEF Alike, fileVars
  <2>2. \A v \in Upload : Session(v)' = Session(v)
    BY <1>3, <2>1
  <2>3. CASE UNCHANGED blobs
    BY <2>2, <2>3, Stutters DEF Stored
  <2>4. CASE Link(f, key)
    BY <1>1, <2>2, <2>4, Puts
  <2> QED BY <1>1, <2>3, <2>4
<1>5. CASE f \notin ended
  <2>1. Session(f) = [state |-> "open", ns |-> n, data |-> bytes[f]]
    BY <1>1, <1>2, <1>5 DEF Session
  <2>2. Session(f)' = [state |-> "gone", ns |-> n, data |-> <<>>]
    BY <1>1, <1>2, <1>5 DEF Session, fileVars
  <2>3. Sessions' = [Sessions EXCEPT ![f] = [state |-> "gone", ns |-> n, data |-> <<>>]]
    BY <1>1, <1>3, <2>2, SessionsBecome
  <2>4. Sessions[f] = [state |-> "open", ns |-> n, data |-> bytes[f]]
    BY <1>1, <2>1 DEF Sessions
  <2>5. Stored' = Stored \cup {<<n, d>>}
    <3>1. CASE UNCHANGED blobs /\ blobs[key] # NoFile
      BY <1>1, <1>2, <3>1 DEF Stored
    <3>2. CASE Link(f, key)
      <4>1. /\ blobs'[key] # NoFile
            /\ \A k \in Key : k # key => blobs'[k] = blobs[k]
        BY <1>1, <3>2, Links DEF TypeInv, FsAssumption, File
      <4> QED BY <1>1, <1>2, <4>1 DEF Stored
    <3> QED BY <1>1, <3>1, <3>2
  <2>6. Abstract!UploadKnown(n, f) /\ Abstract!Verified(f, d, Abstract!UploadOffset(f))
    BY <1>1, <1>2, <2>4 DEF Abstract!UploadKnown, Abstract!Verified, Sessions
  <2>7. Abstract!CommitStaged(n, f, d)
    <3>1. Sessions' = Abstract!EndUpload(f)
      BY <2>1, <2>3, EndOfSession
    <3> QED BY <2>5, <3>1 DEF Abstract!CommitStaged, Sessions, Stored
  <2> QED BY <1>1, <2>6, <2>7 DEF Abstract!BlobNext
<1> QED BY <1>4, <1>5

LEMMA StepImplements ==
    FsAssumption /\ TypeInv /\ SerialInv /\ Fresh /\ [FsNext]_fsVars
    => [Abstract!BlobNext]_(Abstract!blobVars)
<1> SUFFICES ASSUME FsAssumption, TypeInv, SerialInv, Fresh, [FsNext]_fsVars
             PROVE  Abstract!BlobNext \/ UNCHANGED Abstract!blobVars
  OBVIOUS
<1>0. FsTypeOK /\ Upload \subseteq File
  BY DEF TypeInv, File
<1>1. ASSUME UNCHANGED <<staging, home, bytes, blobs, ended>>
      PROVE  UNCHANGED Abstract!blobVars
  BY <1>1, SessionAlike, Stutters DEF Alike, Stored
<1>2. ASSUME NEW t \in Thread, SessionNext(t)
      PROVE  Abstract!BlobNext \/ UNCHANGED Abstract!blobVars
  <2>1. CASE Leaves(t)
    <3>1. CASE UNCHANGED <<staging, home, bytes>>
      BY <1>1, <2>1, <3>1 DEF Leaves
    <3>2. CASE \E u \in Upload : Unlink(u)
      <4>1. UNCHANGED <<ended, Stored>>
        BY <2>1 DEF Leaves, Stored
      <4> QED BY <3>2, <4>1, Cancels
    <3> QED BY <2>1, <3>1, <3>2 DEF Leaves, Sync, fileVars
  <2>2. CASE Hashes(t) \/ \E u \in Upload : Enters(t, u)
    BY <1>1, <2>2 DEF Hashes, Enters, fileVars
  <2> QED BY <1>2, <2>1, <2>2, SessionFrame, AppendImplements, CommitImplements
<1>3. ASSUME NEW t \in Thread, ReadNext(t)
      PROVE  UNCHANGED Abstract!blobVars
  BY <1>1, <1>3, ReadFrame DEF fileVars
<1>4. ASSUME NEW n \in Namespace, NEW u \in Upload, InitiateBlobUpload(n, u)
      PROVE  Abstract!BlobNext
  <2>1. /\ staging[u] = "unused" /\ staging'[u] = "there" /\ home'[u] = n
        /\ \A v \in Upload : v # u => staging'[v] = staging[v] /\ home'[v] = home[v]
        /\ UNCHANGED <<bytes, blobs, ended>>
    BY <1>0, <1>4, Creates DEF InitiateBlobUpload
  <2>2. bytes[u] = <<>> /\ u \notin ended
    BY <1>0, <2>1 DEF Fresh
  <2>3. Session(u).state = "unused" /\ Session(u)' = [state |-> "open", ns |-> n, data |-> <<>>]
    BY <2>1, <2>2 DEF Session
  <2>4. Sessions' = [Sessions EXCEPT ![u] = [state |-> "open", ns |-> n, data |-> <<>>]]
    BY <2>1, <2>3, SessionAlike, SessionsBecome DEF Alike
  <2>5. Abstract!InitiateBlobUpload(n, u)
    BY <2>1, <2>3, <2>4 DEF Abstract!InitiateBlobUpload, Sessions
  <2> QED BY <2>5 DEF Abstract!BlobNext
<1>5. ASSUME NEW n \in Namespace, NEW d \in Digest, DeleteBlob(n, d)
      PROVE  Abstract!BlobNext
  <2>1. VacuumRunning /\ UNCHANGED <<staging, home, bytes, ended>>
    BY <1>5 DEF DeleteBlob, fileVars
  <2>2. Stored' = Stored \ {<<n, d>>}
    BY <1>0, <1>5 DEF DeleteBlob, Stored, FsTypeOK
  <2>3. Sessions' = Sessions
    BY <2>1, SessionAlike DEF Sessions, Alike
  <2>4. Abstract!DeleteBlob(n, d)
    BY <2>1, <2>2, <2>3 DEF Abstract!DeleteBlob, Stored, Sessions
  <2> QED BY <2>4 DEF Abstract!BlobNext
<1>6. ASSUME NEW f \in File, Sweep(f)
      PROVE  Abstract!BlobNext \/ UNCHANGED Abstract!blobVars
  <2>1. Unlink(f) /\ UNCHANGED <<ended, blobs>>
    BY <1>6 DEF Sweep
  <2>2. CASE f \in Upload
    BY <2>1, <2>2, Cancels DEF Stored
  <2>3. CASE f \notin Upload
    <3>1. \A u \in Upload : Alike(u)
      BY <1>0, <2>1, <2>3, Unlinks DEF Alike
    <3> QED BY <2>1, <3>1, SessionAlike, Stutters DEF Stored
  <2> QED BY <2>2, <2>3
<1>7. CASE Crash
  BY <1>1, <1>7 DEF Crash, fileVars
<1>8. CASE UNCHANGED fsVars
  BY <1>1, <1>8 DEF fsVars, fileVars
<1> QED BY <1>2, <1>3, <1>4, <1>5, <1>6, <1>7, <1>8, PutImplements DEF FsNext

(* The system calls of the store, in any interleaving, with crashes, sweeps and  *)
(* failing disks, have the effects the contract of BlobStore allows, as long as  *)
(* the calls on one session do not overlap.                                      *)
THEOREM StoreImplementsContract == Exclusive /\ FsSpec => ImplementsBlobStore
<1> SUFFICES ASSUME Exclusive PROVE FsSpec => ImplementsBlobStore
  OBVIOUS
<1>1. FsInit => Abstract!BlobInit
  BY DEF FsInit, Abstract!BlobInit, Session, File
<1>2. TypeInv /\ SerialInv /\ Fresh /\ [FsNext]_fsVars => [Abstract!BlobNext]_(Abstract!blobVars)
  BY StepImplements, FsAssumption
<1>3. FsSpec => []SerialInv
  BY SerialHolds
<1>4. FsSpec => Abstract!BlobSpec
  BY <1>1, <1>2, <1>3, TypesHold, FreshHolds, PTL DEF FsSpec, Abstract!BlobSpec
<1> QED BY <1>4 DEF ImplementsBlobStore

-----------------------------------------------------------------------------
(* Paths *)

(* The components of a path that ends a repository name with two of its own. *)
LEMMA Ends ==
    ASSUME NEW S, NEW n \in Seq(S), NEW a, NEW b
    PROVE  /\ Len(n) \in Nat /\ Len(n \o <<a, b>>) = Len(n) + 2
           /\ \A i \in 1 .. Len(n) : (n \o <<a, b>>)[i] = n[i] /\ n[i] \in S
           /\ (n \o <<a, b>>)[Len(n) + 1] = a
           /\ (n \o <<a, b>>)[Len(n) + 2] = b
<1> DEFINE T == S \cup {a, b}
<1>1. n \in Seq(T) /\ <<a, b>> \in Seq(T)
  OBVIOUS
<1> QED BY <1>1

LEMMA SameStart ==
    ASSUME NEW S, NEW m \in Seq(S), NEW n \in Seq(S), NEW a, NEW b, NEW x, NEW y,
           m \o <<a, b>> = n \o <<x, y>>
    PROVE  m = n
<1>1. Len(m) = Len(n)
  BY Ends
<1>2. m \in [1 .. Len(m) -> S] /\ n \in [1 .. Len(m) -> S]
  BY <1>1
<1>3. \A i \in 1 .. Len(m) : m[i] = n[i]
  BY <1>1, Ends
<1> QED BY <1>2, <1>3

(* No two blobs, no two sessions, and no blob and session have one path, so the  *)
(* pairs of the model can stand for paths (utils.go:13-19): whatever components  *)
(* repository names have, those of a digest or ".staging" among them, as long as *)
(* no algorithm has that name.                                                   *)
THEOREM PathsDiffer ==
    ASSUME NEW Component, NEW Algorithm, NEW Hex, NEW Id,
           ".staging" \notin Algorithm,
           NEW m \in Seq(Component), NEW n \in Seq(Component),
           NEW d \in [algorithm : Algorithm, hex : Hex],
           NEW e \in [algorithm : Algorithm, hex : Hex],
           NEW u \in Id, NEW v \in Id
    PROVE  /\ BlobPath(m, d) = BlobPath(n, e) => m = n /\ d = e
           /\ StagingPath(m, u) = StagingPath(n, v) => m = n /\ u = v
           /\ BlobPath(m, d) # StagingPath(n, u)
<1>1. /\ BlobPath(m, d)[Len(m) + 1] = d.algorithm /\ BlobPath(m, d)[Len(m) + 2] = d.hex
      /\ BlobPath(n, e)[Len(n) + 1] = e.algorithm /\ BlobPath(n, e)[Len(n) + 2] = e.hex
  BY Ends DEF BlobPath
<1>2. /\ StagingPath(m, u)[Len(m) + 2] = u
      /\ StagingPath(n, v)[Len(n) + 2] = v
      /\ StagingPath(n, u)[Len(n) + 1] = ".staging"
  BY Ends DEF StagingPath
<1>3. ASSUME BlobPath(m, d) = BlobPath(n, e) PROVE m = n /\ d = e
  <2>1. m = n
    BY <1>3, SameStart DEF BlobPath
  <2> QED BY <1>1, <1>3, <2>1
<1>4. ASSUME StagingPath(m, u) = StagingPath(n, v) PROVE m = n /\ u = v
  <2>1. m = n
    BY <1>4, SameStart DEF StagingPath
  <2> QED BY <1>2, <1>4, <2>1
<1>5. ASSUME BlobPath(m, d) = StagingPath(n, u) PROVE FALSE
  <2>1. m = n
    BY <1>5, SameStart DEF BlobPath, StagingPath
  <2>2. d.algorithm = ".staging"
    BY <1>1, <1>2, <1>5, <2>1
  <2> QED BY <2>2
<1> QED BY <1>3, <1>4, <1>5

(* Nor is a file of the store where another needs a directory (store.go:188,     *)
(* stream.go:19), as long as no repository name has ".staging", which            *)
(* namespace/validate.go:11 excludes, or the digits of a digest for a component. *)
THEOREM PathsApart ==
    ASSUME NEW Component, NEW Algorithm, NEW Hex, NEW Id,
           ".staging" \notin Component \cup Hex,
           Hex \cap (Component \cup Algorithm) = {},
           NEW m \in Seq(Component), NEW n \in Seq(Component),
           NEW d \in [algorithm : Algorithm, hex : Hex],
           NEW e \in [algorithm : Algorithm, hex : Hex],
           NEW u \in Id, NEW v \in Id,
           NEW p \in {BlobPath(m, d), StagingPath(m, u)},
           NEW q \in {BlobPath(n, e), StagingPath(n, v)}
    PROVE  ~Under(p, q)
<1>1. ASSUME NEW a, NEW b, NEW x, NEW y, Under(m \o <<a, b>>, n \o <<x, y>>)
      PROVE  a \in Component /\ (b \in Component \/ b = x)
  <2>1. Len(m) + 1 <= Len(n)
    BY <1>1, Ends DEF Under
  <2>2. n[Len(m) + 1] = a /\ a \in Component
    BY <1>1, <2>1, Ends DEF Under
  <2>3. CASE Len(m) + 2 <= Len(n)
    BY <1>1, <2>2, <2>3, Ends DEF Under
  <2>4. CASE Len(m) + 1 = Len(n)
    BY <1>1, <2>2, <2>4, Ends DEF Under
  <2> QED BY <2>1, <2>3, <2>4, Ends
<1>2. PICK x, y : q = n \o <<x, y>> /\ (x = ".staging" \/ x = e.algorithm)
  BY DEF BlobPath, StagingPath
<1>3. CASE p = BlobPath(m, d)
  <2>1. d.hex \in Hex /\ e.algorithm \in Algorithm
    OBVIOUS
  <2>2. Under(p, q) => d.hex \in Component \/ d.hex = x
    BY <1>1, <1>2, <1>3 DEF BlobPath
  <2> QED BY <1>2, <2>1, <2>2
<1>4. CASE p = StagingPath(m, u)
  <2>1. Under(p, q) => ".staging" \in Component
    BY <1>1, <1>2, <1>4 DEF StagingPath
  <2> QED BY <2>1
<1> QED BY <1>3, <1>4

(* The digits are no idle hypothesis: where repository a has a blob, repository  *)
(* a/<algorithm>/<digits> has its directory.                                     *)
THEOREM PathsMayMeet ==
    ASSUME NEW Component, NEW m \in Seq(Component),
           NEW d, d.algorithm \in Component, d.hex \in Component, NEW e
    PROVE  \E n \in Seq(Component) : Under(BlobPath(m, d), BlobPath(n, e))
<1> DEFINE n == m \o <<d.algorithm, d.hex>>
<1>1. n \in Seq(Component)
  OBVIOUS
<1>2. Under(n, n \o <<e.algorithm, e.hex>>)
  BY <1>1, Ends DEF Under
<1> QED BY <1>1, <1>2 DEF BlobPath
=============================================================================
