---------------------------- MODULE FsBlobStore ----------------------------
(***************************************************************************)
(* The file system blob store (internal/blobstore/fs/store.go, stream.go,  *)
(* reader.go), one action per system call that others can see.  BlobStore  *)
(* says what the same calls promise.                                       *)
(*                                                                         *)
(* A file is created in a staging directory under a fresh UUID, which      *)
(* names its inode here.  os.Link gives the inode a second name, the blob  *)
(* path, so a file that is committed and still staged is one file: what is *)
(* appended to the one is in the other.  A thread that has opened a file   *)
(* keeps the inode when the name is removed.                               *)
(*                                                                         *)
(* Arguments are valid: negative sizes and offsets and malformed digests   *)
(* are refused before a file is touched.                                   *)
(***************************************************************************)
EXTENDS SystemConstants, Naturals, Sequences

CONSTANTS
    Upload,         \* staging files of upload sessions
    Temp,           \* staging files of PutBlob
    NoFile,
    Piece, Content, MaxLength, VacuumRunning,   \* as in BlobStore
    Thread,         \* goroutines that call the store
    Exclusive,      \* the calls on one session come one after the other
    LateAppends     \* clients go on with a session whose commit got to the link

ASSUME FsAssumption ==
    /\ Upload \cap Temp = {}
    /\ NoFile \notin Upload \cup Temp
    /\ MaxLength \in Nat
    /\ Content \in [Digest -> Seq(Piece)]
    /\ VacuumRunning \in BOOLEAN
    /\ Exclusive \in BOOLEAN
    /\ LateAppends \in BOOLEAN

File == Upload \cup Temp

VARIABLES
    staging,   \* the name in the staging directory: not yet, there, or removed
    home,      \* the namespace of the staging directory
    bytes,     \* what has been written to the file
    synced,    \* how much of it is known to be on the disk
    blobs,     \* the file at each blob path
    ended,     \* history: sessions whose commit got to the link
    left,      \* history: temporary files whose PutBlob could not remove them
    call       \* each thread

fileVars == <<staging, home, bytes, synced>>
fsVars == <<fileVars, blobs, ended, left, call>>

Reply == {"none", "ok", "committed", "unknown", "range", "sizeInvalid", "digestInvalid", "error"}

Call == [op : {"none", "put", "append", "finalize", "read"},
         pc : {"idle", "write", "hash", "link", "remove", "copy", "read"},
         key : Key \cup {<<NoNamespace, NoDigest>>},
         file : File \cup {NoFile},
         size : Nat,      \* the size or the offset that was passed; the answer
         added : Nat,     \* pieces an append has written
         reply : Reply]

FsTypeOK ==
    /\ staging \in [File -> {"unused", "there", "gone"}]
    /\ home \in [File -> Namespace \cup {NoNamespace}]
    /\ bytes \in [File -> Seq(Piece)]
    /\ synced \in [File -> Nat]
    /\ blobs \in [Key -> File \cup {NoFile}]
    /\ ended \subseteq Upload
    /\ left \subseteq Temp
    /\ call \in [Thread -> Call]

(* A thread with nothing to do; it remembers its last answer. *)
Answered(reply, n) ==
    [op |-> "none", pc |-> "idle", key |-> <<NoNamespace, NoDigest>>, file |-> NoFile,
     size |-> n, added |-> 0, reply |-> reply]

FsInit ==
    /\ staging = [f \in File |-> "unused"]
    /\ home = [f \in File |-> NoNamespace]
    /\ bytes = [f \in File |-> <<>>]
    /\ synced = [f \in File |-> 0]
    /\ blobs = [k \in Key |-> NoFile]
    /\ ended = {}
    /\ left = {}
    /\ call = [t \in Thread |-> Answered("none", 0)]

-----------------------------------------------------------------------------
Idle(t) == call[t].pc = "idle"

At(t, op, pc) == call[t].op = op /\ call[t].pc = pc

Begin(t, op, pc, key, f, size) ==
    call' = [call EXCEPT ![t] = [op |-> op, pc |-> pc, key |-> key, file |-> f,
                                 size |-> size, added |-> 0, reply |-> "none"]]

Go(t, pc, reply) == call' = [call EXCEPT ![t].pc = pc, ![t].reply = reply]

Return(t, reply, n) == call' = [call EXCEPT ![t] = Answered(reply, n)]

DiskFails == "disk" \in Faults

(* A session is found under its namespace as long as its file is staged. *)
Staged(n, u) == staging[u] = "there" /\ home[u] = n

Using(t, u) == call[t].op \in {"append", "finalize"} /\ call[t].file = u

MayUse(u) == Exclusive => \A t \in Thread : ~Using(t, u)

(* O_CREATE|O_EXCL under a name nobody used before. *)
Create(n, f) ==
    /\ staging[f] = "unused"
    /\ staging' = [staging EXCEPT ![f] = "there"]
    /\ home' = [home EXCEPT ![f] = n]
    /\ UNCHANGED <<bytes, synced>>

(* One write at the end of the file (O_APPEND, or a private file), named or not. *)
Write(f, p) ==
    /\ Len(bytes[f]) < MaxLength
    /\ bytes' = [bytes EXCEPT ![f] = Append(@, p)]
    /\ UNCHANGED <<staging, home, synced>>

(* Mutant: f.Sync() forgotten. *)
NoSync(f) == UNCHANGED fileVars

Sync(f) ==
    /\ synced' = [synced EXCEPT ![f] = Len(bytes[f])]
    /\ UNCHANGED <<staging, home, bytes>>

Unlink(f) ==
    /\ staging' = [staging EXCEPT ![f] = IF @ = "there" THEN "gone" ELSE @]
    /\ UNCHANGED <<home, bytes, synced>>

Link(f, key) ==
    /\ staging[f] = "there"
    /\ blobs[key] = NoFile
    /\ blobs' = [blobs EXCEPT ![key] = f]

-----------------------------------------------------------------------------
(* PutBlob: the body is streamed to a temporary file and hashed on the way.  *)
(* The file is private until it is linked, so its bytes are those hashed.     *)

PutCreate(t, n, d, size, f) ==
    /\ Idle(t) /\ f \in Temp
    /\ Create(n, f)
    /\ Begin(t, "put", "write", <<n, d>>, f, size)
    /\ UNCHANGED <<blobs, ended, left>>

(* The directory or the file cannot be made: no byte is read.                *)
PutRefused(t, size) ==
    /\ Idle(t) /\ DiskFails
    /\ Return(t, IF size = 0 THEN "error" ELSE "sizeInvalid", 0)
    /\ UNCHANGED <<fileVars, blobs, ended, left>>

PutWrite(t, p) ==
    /\ At(t, "put", "write")
    /\ Write(call[t].file, p)
    /\ UNCHANGED <<blobs, ended, left, call>>

(* Mutant: the copy fails and the temporary file is forgotten. *)
PutBreaksUncleaned(t) ==
    /\ At(t, "put", "write")
    /\ "disconnect" \in Faults \/ DiskFails
    /\ Return(t, "error", 0)
    /\ UNCHANGED <<fileVars, blobs, ended, left>>

(* The body or a write fails.  The size is compared before the error is looked at. *)
PutBreaks(t) ==
    /\ At(t, "put", "write")
    /\ "disconnect" \in Faults \/ DiskFails
    /\ Go(t, "remove", IF Len(bytes[call[t].file]) = call[t].size THEN "error" ELSE "sizeInvalid")
    /\ UNCHANGED <<fileVars, blobs, ended, left>>

(* The end of the body: sync, then size and digest are verified. *)
PutSync(t) ==
    /\ At(t, "put", "write")
    /\ Sync(call[t].file)
    /\ LET body == bytes[call[t].file]
       IN  \/ Len(body) # call[t].size /\ Go(t, "remove", "sizeInvalid")
           \/ Len(body) = call[t].size /\ body # Content[call[t].key[2]]
                 /\ Go(t, "remove", "digestInvalid")
           \/ Len(body) = call[t].size /\ body = Content[call[t].key[2]]
                 /\ Go(t, "link", "none")
    /\ UNCHANGED <<blobs, ended, left>>

(* A failed sync counts as no bytes written. *)
PutSyncFails(t) ==
    /\ At(t, "put", "write") /\ DiskFails
    /\ Go(t, "remove", IF call[t].size = 0 THEN "error" ELSE "sizeInvalid")
    /\ UNCHANGED <<fileVars, blobs, ended, left>>

PutLink(t) ==
    /\ At(t, "put", "link")
    /\ LET f == call[t].file  key == call[t].key
       IN  \/ Link(f, key) /\ Go(t, "remove", "ok")
           \/ staging[f] = "there" /\ blobs[key] # NoFile
                 /\ Go(t, "remove", "committed") /\ UNCHANGED blobs
           \/ (staging[f] # "there" \/ DiskFails)
                 /\ Go(t, "remove", "error") /\ UNCHANGED blobs
    /\ UNCHANGED <<fileVars, ended, left>>

(* The deferred removal; one that fails is only logged. *)
PutRemove(t) ==
    /\ At(t, "put", "remove")
    /\ \/ Unlink(call[t].file) /\ UNCHANGED left
       \/ DiskFails /\ staging[call[t].file] = "there"
             /\ left' = left \cup {call[t].file} /\ UNCHANGED fileVars
    /\ Return(t, call[t].reply, IF call[t].reply = "ok" THEN call[t].size ELSE 0)
    /\ UNCHANGED <<blobs, ended>>

-----------------------------------------------------------------------------
(* Upload sessions *)

InitiateBlobUpload(n, u) ==
    /\ u \in Upload
    /\ Create(n, u)
    /\ UNCHANGED <<blobs, ended, left, call>>

(* A call that does not find the session, or cannot open it. *)
SessionRefused(t, n, u) ==
    /\ Idle(t) /\ MayUse(u)
    /\ \/ ~Staged(n, u) /\ Return(t, "unknown", 0)
       \/ DiskFails /\ Return(t, "error", 0)
    /\ UNCHANGED <<fileVars, blobs, ended, left>>

(* Mutant: the offset is not compared with the size of the file. *)
AppendOpenUnchecked(t, n, u, offset) ==
    /\ Idle(t) /\ MayUse(u) /\ Staged(n, u)
    /\ LateAppends \/ u \notin ended
    /\ Begin(t, "append", "copy", <<NoNamespace, NoDigest>>, u, offset)
    /\ UNCHANGED <<fileVars, blobs, ended, left>>

(* Mutant: the file is opened with O_CREATE. *)
AppendOpenCreating(t, n, u, offset) ==
    /\ Idle(t) /\ MayUse(u) /\ home[u] = n /\ staging[u] # "unused"
    /\ LateAppends \/ u \notin ended
    /\ Len(bytes[u]) = offset
    /\ Begin(t, "append", "copy", <<NoNamespace, NoDigest>>, u, offset)
    /\ staging' = [staging EXCEPT ![u] = "there"]
    /\ UNCHANGED <<home, bytes, synced, blobs, ended, left>>

(* AppendBlobChunk opens the file and compares its size with the offset. The    *)
(* two are one step: the name can be removed in between, but not used again.    *)
AppendOpen(t, n, u, offset) ==
    /\ Idle(t) /\ MayUse(u) /\ Staged(n, u)
    /\ LateAppends \/ u \notin ended
    /\ IF Len(bytes[u]) = offset
         THEN Begin(t, "append", "copy", <<NoNamespace, NoDigest>>, u, offset)
         ELSE Return(t, "range", 0)
    /\ UNCHANGED <<fileVars, blobs, ended, left>>

AppendCopy(t, p) ==
    /\ At(t, "append", "copy")
    /\ Write(call[t].file, p)
    /\ call' = [call EXCEPT ![t].added = @ + 1]
    /\ UNCHANGED <<blobs, ended, left>>

(* The body or a write fails, or the sync does. What was written stays. *)
AppendBreaks(t) ==
    /\ At(t, "append", "copy")
    /\ "disconnect" \in Faults \/ DiskFails
    /\ Return(t, "error", 0)
    /\ UNCHANGED <<fileVars, blobs, ended, left>>

(* Mutant: the answer is the last offset written, not the next one. *)
AppendSyncLast(t) ==
    /\ At(t, "append", "copy")
    /\ Sync(call[t].file)
    /\ Return(t, "ok", call[t].size + call[t].added - 1)
    /\ UNCHANGED <<blobs, ended, left>>

AppendSync(t) ==
    /\ At(t, "append", "copy")
    /\ Sync(call[t].file)
    /\ Return(t, "ok", call[t].size + call[t].added)
    /\ UNCHANGED <<blobs, ended, left>>

GetBlobUploadOffset(t, n, u) ==
    /\ Idle(t) /\ MayUse(u) /\ Staged(n, u)
    /\ Return(t, "ok", Len(bytes[u]))
    /\ UNCHANGED <<fileVars, blobs, ended, left>>

(* FinalizeBlobUpload compares the size, opens and hashes the file, links it and *)
(* removes its staging name, one after the other.                               *)
FinalizeStat(t, n, u, d, size) ==
    /\ Idle(t) /\ MayUse(u) /\ Staged(n, u)
    /\ IF Len(bytes[u]) = size
         THEN Begin(t, "finalize", "hash", <<n, d>>, u, size)
         ELSE Return(t, "sizeInvalid", 0)
    /\ UNCHANGED <<fileVars, blobs, ended, left>>

(* Mutant: the digest is not compared. *)
FinalizeUnhashed(t) ==
    /\ At(t, "finalize", "hash")
    /\ staging[call[t].file] = "there"
    /\ Go(t, "link", "none")
    /\ UNCHANGED <<fileVars, blobs, ended, left>>

(* The file is opened by its name and read to its end. *)
FinalizeHash(t) ==
    /\ At(t, "finalize", "hash")
    /\ LET f == call[t].file
       IN  \/ staging[f] = "there" /\ bytes[f] = Content[call[t].key[2]] /\ Go(t, "link", "none")
           \/ staging[f] = "there" /\ bytes[f] # Content[call[t].key[2]]
                 /\ Return(t, "digestInvalid", 0)
           \/ (staging[f] # "there" \/ DiskFails) /\ Return(t, "error", 0)
    /\ UNCHANGED <<fileVars, blobs, ended, left>>

FinalizeLink(t) ==
    /\ At(t, "finalize", "link")
    /\ LET f == call[t].file  key == call[t].key
       IN  \/ Link(f, key) /\ Go(t, "remove", "ok") /\ ended' = ended \cup {f}
           \/ /\ staging[f] = "there" /\ blobs[key] # NoFile
              /\ Go(t, "remove", "committed")
              /\ ended' = ended \cup {f} /\ UNCHANGED blobs
           \/ (staging[f] # "there" \/ DiskFails) /\ Return(t, "error", 0)
                 /\ UNCHANGED <<blobs, ended>>
    /\ UNCHANGED <<fileVars, left>>

(* A removal that fails is only logged: the session is still found. *)
FinalizeRemove(t) ==
    /\ At(t, "finalize", "remove")
    /\ \/ Unlink(call[t].file)
       \/ DiskFails /\ UNCHANGED fileVars
    /\ Return(t, call[t].reply, 0)
    /\ UNCHANGED <<blobs, ended, left>>

CancelBlobUpload(t, n, u) ==
    /\ Idle(t) /\ MayUse(u)
    /\ \/ Staged(n, u) /\ Unlink(u) /\ Return(t, "ok", 0)
       \/ ~Staged(n, u) /\ UNCHANGED fileVars /\ Return(t, "ok", 0)
       \/ DiskFails /\ UNCHANGED fileVars /\ Return(t, "error", 0)
    /\ UNCHANGED <<blobs, ended, left>>

-----------------------------------------------------------------------------
(* Committed blobs *)

(* GetBlob and GetBlobRange open the file and ask for its size; StatBlob, which *)
(* only does that, is a GetBlob that is not read.                              *)
GetOpen(t, n, d) ==
    /\ Idle(t)
    /\ IF blobs[<<n, d>>] # NoFile
         THEN Begin(t, "read", "read", <<n, d>>, blobs[<<n, d>>], Len(bytes[blobs[<<n, d>>]]))
         ELSE Return(t, "unknown", 0)
    /\ UNCHANGED <<fileVars, blobs, ended, left>>

GetRangeOpen(t, n, d, last) ==
    /\ Idle(t)
    /\ blobs[<<n, d>>] # NoFile
    /\ IF last < Len(bytes[blobs[<<n, d>>]])
         THEN Begin(t, "read", "read", <<n, d>>, blobs[<<n, d>>], last + 1)
         ELSE Return(t, "range", 0)
    /\ UNCHANGED <<fileVars, blobs, ended, left>>

(* The thread reads from the file it has opened, and closes it. *)
ReadEnds(t) ==
    /\ At(t, "read", "read")
    /\ \/ Len(bytes[call[t].file]) >= call[t].size /\ Return(t, "ok", call[t].size)
       \/ DiskFails /\ Return(t, "error", 0)
    /\ UNCHANGED <<fileVars, blobs, ended, left>>

(* A worker of the vacuum process removes the blob path. *)
DeleteBlob(n, d) ==
    /\ VacuumRunning
    /\ blobs' = [blobs EXCEPT ![<<n, d>>] = NoFile]
    /\ UNCHANGED <<fileVars, ended, left, call>>

(* A sweep removes a staging file that was not written to for the grace period. *)
Sweep(f) ==
    /\ VacuumRunning
    /\ Unlink(f)
    /\ UNCHANGED <<blobs, ended, left, call>>

(* The process dies; the files stay. *)
Crash ==
    /\ "crash" \in Faults
    /\ left' = left \cup {f \in Temp : staging[f] = "there"}
    /\ call' = [t \in Thread |-> Answered("none", 0)]
    /\ UNCHANGED <<fileVars, blobs, ended>>

-----------------------------------------------------------------------------
PutNext(t) ==
    \/ \E n \in Namespace, d \in Digest, size \in 0 .. MaxLength, f \in Temp : PutCreate(t, n, d, size, f)
    \/ \E size \in 0 .. MaxLength : PutRefused(t, size)
    \/ \E p \in Piece : PutWrite(t, p)
    \/ PutBreaks(t) \/ PutSync(t) \/ PutSyncFails(t) \/ PutLink(t) \/ PutRemove(t)

SessionNext(t) ==
    \/ \E n \in Namespace, u \in Upload :
          \/ SessionRefused(t, n, u)
          \/ \E offset \in 0 .. MaxLength : AppendOpen(t, n, u, offset)
          \/ GetBlobUploadOffset(t, n, u)
          \/ \E d \in Digest, size \in 0 .. MaxLength : FinalizeStat(t, n, u, d, size)
          \/ CancelBlobUpload(t, n, u)
    \/ \E p \in Piece : AppendCopy(t, p)
    \/ AppendBreaks(t) \/ AppendSync(t)
    \/ FinalizeHash(t) \/ FinalizeLink(t) \/ FinalizeRemove(t)

ReadNext(t) ==
    \/ \E n \in Namespace, d \in Digest :
          \/ GetOpen(t, n, d)
          \/ \E last \in 0 .. MaxLength : GetRangeOpen(t, n, d, last)
    \/ ReadEnds(t)

FsNext ==
    \/ \E t \in Thread : PutNext(t) \/ SessionNext(t) \/ ReadNext(t)
    \/ \E n \in Namespace, u \in Upload : InitiateBlobUpload(n, u)
    \/ \E n \in Namespace, d \in Digest : DeleteBlob(n, d)
    \/ \E f \in File : Sweep(f)
    \/ Crash

FsSpec == FsInit /\ [][FsNext]_fsVars

-----------------------------------------------------------------------------
(* What is at a blob path, and what a thread reads that opened it there, are     *)
(* the bytes of the digest, whatever threads append to other files, sweep or     *)
(* delete meanwhile (FinalizeBlobUpload hashes, and links in a later step).       *)
CommittedContent ==
    /\ \A k \in Key : blobs[k] # NoFile => bytes[blobs[k]] = Content[k[2]]
    /\ \A t \in Thread : At(t, "read", "read") => bytes[call[t].file] = Content[call[t].key[2]]

(* The bytes of a blob stored by PutBlob are on the disk before it can be found. *)
PutDurable ==
    \A k \in Key : blobs[k] \in Temp => synced[blobs[k]] = Len(bytes[blobs[k]])

(* PutBlob removes its temporary file on every path out, successful or not:      *)
(* one that is still there belongs to a call that runs, or could not be removed. *)
TempFilesOwned ==
    \A f \in Temp : staging[f] = "there" =>
        f \in left \/ \E t \in Thread : call[t].op = "put" /\ call[t].file = f

(* An offset AppendBlobChunk returns is the size of the session at that moment.  *)
AppendAnswers ==
    [][\A t \in Thread :
          call[t].op = "append" /\ call'[t].reply = "ok"
             => call'[t].size = Len(bytes'[call[t].file])]_fsVars

-----------------------------------------------------------------------------
(* Seen through BlobStore, a PutBlob or a commit takes effect at its link, or    *)
(* where the link finds the blob there. From then on the session is gone, also   *)
(* while its staging name is still to be removed.                                *)
Session(u) ==
    LET open == staging[u] = "there" /\ u \notin ended
    IN  [state |-> IF staging[u] = "unused" THEN "unused" ELSE IF open THEN "open" ELSE "gone",
         ns |-> home[u],
         data |-> IF open THEN bytes[u] ELSE <<>>]

Abstract == INSTANCE BlobStore WITH
    files <- {k \in Key : blobs[k] # NoFile},
    uploads <- [u \in Upload |-> Session(u)],
    MaxUploadLength <- MaxLength

(* Each call of the store, in its several steps, has the effect the contract     *)
(* gives it in one, at one moment.                                               *)
ImplementsBlobStore == Abstract!BlobSpec
=============================================================================
