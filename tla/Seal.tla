-------------------------------- MODULE Seal --------------------------------
(***************************************************************************)
(* At-rest sealing of a folder's memory (loomground_lock/seal.py).         *)
(*                                                                         *)
(* A folder's memory is its log directory (events.jsonl, appended to by    *)
(* the host under an advisory flock) plus the knowledge sinks under the    *)
(* folder itself.  seal_folder packs both into one encrypted blob next to  *)
(* the log directory and removes the plaintext; unseal_folder does the     *)
(* reverse.  Both are modelled call by call, one action per file-system    *)
(* operation another process can observe, with any number of callers, the  *)
(* host's appenders running beside them, and a crash between any two       *)
(* steps.                                                                  *)
(*                                                                         *)
(* Abstractions.  A file's bytes are the set of records it holds.  The log *)
(* directory's other files are sealed and restored the way events.jsonl    *)
(* is, and are represented by it; .versum and grounding are one set of     *)
(* sink records.  Encryption is symbolic: a blob opens for the key it was  *)
(* made with.  A wrong passphrase, a refused marker or an I/O error before *)
(* a step has the effect of Abort.  The host is POSIX: an open file may be *)
(* unlinked, and its lock lives on the inode.                              *)
(***************************************************************************)
EXTENDS FiniteSets

CONSTANTS
    Procs,      \* calls of seal_folder / unseal_folder that may overlap
    Writers,    \* the host's appenders to events.jsonl
    Records,    \* what can be remembered
    Erasable,   \* the records a pending-erasure marker may name
    Inodes,     \* file identities; one is reused once nothing refers to it
    Keys,       \* derived AES keys; nothing in this module turns on which
    Primary,    \* log directory named by folder_hash(folder)
    Legacy,     \* log directory named by legacy_folder_hash(folder)
    None

Slots == {Primary, Legacy}

ASSUME NoneAssumption ==
    /\ None \notin Slots \cup Inodes \cup Procs \cup Records
    /\ None \notin [key : Keys, logged : BOOLEAN, log : SUBSET Records, sinks : SUBSET Records]

ASSUME ErasableAssumption == Erasable \subseteq Records

VARIABLES
    \* the disk
    dir,        \* slot -> does the log directory exist?
    events,     \* slot -> inode linked as events.jsonl, or None
    data,       \* inode -> records written to it
    sinks,      \* records in the folder's knowledge sinks (non-empty = exists)
    blob,       \* slot -> the .sealed envelope, or None
    tmp,        \* slot -> the .sealed.tmp envelope, or None
    pending,    \* records named by the host's pending-erasure markers
    \* the kernel
    flock,      \* inode -> the call that holds its advisory lock, or None
    \* maintenance calls in progress
    pc, slot, fd, man, marks,
    \* the host's appenders
    wfd, wrec,
    \* history
    acked,      \* records whose write returned to the host
    erased      \* records the host asked to erase and pending_erase_apply removed

disk  == <<dir, events, data, sinks, blob, tmp, pending>>
calls == <<pc, slot, fd, man, marks>>
host  == <<wfd, wrec>>
vars  == <<disk, flock, calls, host, acked, erased>>

-----------------------------------------------------------------------------
\* What a blob opens to; logged: does it have an events.jsonl entry?
Manifest == [key : Keys, logged : BOOLEAN, log : SUBSET Records, sinks : SUBSET Records]

SealSteps   == {"open", "lock", "snapshot", "write_tmp", "publish",
                "unlink_log", "rmdir", "rm_sinks"}
UnsealSteps == {"verify", "decrypt", "mkdir", "restore_log", "restore_sinks",
                "unlink_blob", "apply_markers"}
\* Steps taken inside "with _file_lock(lock_fh, exclusive=True)".
LockedSteps == {"snapshot", "write_tmp", "publish", "unlink_log", "rmdir", "rm_sinks"}
\* Steps taken with a snapshot or a decrypted manifest in hand.
ManifestSteps == (LockedSteps \ {"snapshot"}) \cup
                 (UnsealSteps \ {"verify", "decrypt"})

DiskType ==
    /\ dir \in [Slots -> BOOLEAN]
    /\ events \in [Slots -> Inodes \cup {None}]
    /\ data \in [Inodes -> SUBSET Records]
    /\ sinks \in SUBSET Records
    /\ blob \in [Slots -> Manifest \cup {None}]
    /\ tmp \in [Slots -> Manifest \cup {None}]
    /\ pending \in SUBSET Records

\* With the types, what a call holds by where it is.
CallType ==
    /\ flock \in [Inodes -> Procs \cup {None}]
    /\ pc \in [Procs -> {"idle"} \cup SealSteps \cup UnsealSteps]
    /\ slot \in [Procs -> Slots \cup {None}]
    /\ fd \in [Procs -> Inodes \cup {None}]
    /\ man \in [Procs -> Manifest \cup {None}]
    /\ marks \in [Procs -> SUBSET Records]
    /\ \A p \in Procs :
          /\ pc[p] # "idle" => slot[p] \in Slots
          /\ fd[p] # None <=> pc[p] \in LockedSteps \cup {"lock"}
          /\ man[p] # None <=> pc[p] \in ManifestSteps
          /\ \A i \in Inodes : flock[i] = p <=> pc[p] \in LockedSteps /\ fd[p] = i

HostType ==
    /\ wfd \in [Writers -> Inodes \cup {None}]
    /\ wrec \in [Writers -> Records \cup {None}]
    /\ \A w \in Writers : wfd[w] = None <=> wrec[w] = None
    /\ acked \in SUBSET Records
    /\ erased \in SUBSET Records

TypeOK == DiskType /\ CallType /\ HostType

Contents(m) == IF m = None THEN {} ELSE m.log \cup m.sinks

LiveLog(s)  == IF events[s] = None THEN {} ELSE data[events[s]]
LiveLogs    == UNION {LiveLog(s) : s \in Slots}
Plaintext   == LiveLogs \cup sinks
Ciphertext  == UNION {Contents(blob[s]) : s \in Slots}

\* _resolve_log_dir: the current directory if it exists, else the legacy one.
Resolve == IF ~dir[Primary] /\ dir[Legacy] THEN Legacy ELSE Primary

IsSealed == blob[Resolve] # None

\* The path's file as open(..., "a+") finds it: an existing inode, or a new one.
FreeInodes == {i \in Inodes : /\ \A s \in Slots : events[s] # i
                              /\ \A p \in Procs : fd[p] # i
                              /\ \A w \in Writers : wfd[w] # i}

OpenEvents(s, i) ==
    IF events[s] # None
    THEN i = events[s] /\ UNCHANGED <<events, data>>
    ELSE /\ i \in FreeInodes
         /\ events' = [events EXCEPT ![s] = i]
         /\ data' = [data EXCEPT ![i] = {}]

\* A folder with no memory yet, or with the directory an older version named.
Init ==
    /\ \E old \in BOOLEAN : dir = [s \in Slots |-> old /\ s = Legacy]
    /\ events = [s \in Slots |-> None]
    /\ data = [i \in Inodes |-> {}]
    /\ sinks = {}
    /\ blob = [s \in Slots |-> None]
    /\ tmp = [s \in Slots |-> None]
    /\ pending = {}
    /\ flock = [i \in Inodes |-> None]
    /\ pc = [p \in Procs |-> "idle"]
    /\ slot = [p \in Procs |-> None]
    /\ fd = [p \in Procs |-> None]
    /\ man = [p \in Procs |-> None]
    /\ marks = [p \in Procs |-> {}]
    /\ wfd = [w \in Writers |-> None]
    /\ wrec = [w \in Writers |-> None]
    /\ acked = {}
    /\ erased = {}

-----------------------------------------------------------------------------
(* Control of a call. *)

At(p, here)    == pc[p] = here
Goto(p, there) == pc' = [pc EXCEPT ![p] = there]

\* Mutant of Leave: the lock outlives the call.
LeaveLocked(p) ==
    /\ Goto(p, "idle")
    /\ slot' = [slot EXCEPT ![p] = None]
    /\ fd' = [fd EXCEPT ![p] = None]
    /\ man' = [man EXCEPT ![p] = None]
    /\ marks' = [marks EXCEPT ![p] = {}]
    /\ UNCHANGED flock

\* The call ends: its file object is closed, which drops the flock with it.
Leave(p) ==
    /\ Goto(p, "idle")
    /\ slot' = [slot EXCEPT ![p] = None]
    /\ fd' = [fd EXCEPT ![p] = None]
    /\ man' = [man EXCEPT ![p] = None]
    /\ marks' = [marks EXCEPT ![p] = {}]
    /\ flock' = [i \in Inodes |-> IF flock[i] = p THEN None ELSE flock[i]]

-----------------------------------------------------------------------------
(* seal_folder *)

\* Mutant of SealCheck: no "already sealed" refusal.
SealCheckUnguarded(p) ==
    /\ At(p, "idle")
    /\ dir[Resolve]
    /\ slot' = [slot EXCEPT ![p] = Resolve]
    /\ Goto(p, "open")
    /\ UNCHANGED <<disk, flock, fd, man, marks, host, acked, erased>>

SealCheck(p) ==
    /\ At(p, "idle")
    /\ blob[Resolve] = None
    /\ dir[Resolve]
    /\ slot' = [slot EXCEPT ![p] = Resolve]
    /\ Goto(p, "open")
    /\ UNCHANGED <<disk, flock, fd, man, marks, host, acked, erased>>

SealOpen(p) ==
    /\ At(p, "open")
    /\ dir[slot[p]]
    /\ \E i \in Inodes : /\ OpenEvents(slot[p], i)
                         /\ fd' = [fd EXCEPT ![p] = i]
    /\ Goto(p, "lock")
    /\ UNCHANGED <<dir, sinks, blob, tmp, pending, flock, slot, man, marks, host, acked, erased>>

\* Mutant of SealLock: goes on without the appenders' lock.
SealLockNotTaken(p) ==
    /\ At(p, "lock")
    /\ Goto(p, "snapshot")
    /\ UNCHANGED <<disk, flock, slot, fd, man, marks, host, acked, erased>>

SealLock(p) ==
    /\ At(p, "lock")
    /\ flock[fd[p]] = None
    /\ flock' = [flock EXCEPT ![fd[p]] = p]
    /\ Goto(p, "snapshot")
    /\ UNCHANGED <<disk, slot, fd, man, marks, host, acked, erased>>

\* rglob walks the path, not the locked file; a directory that is gone yields
\* nothing and is no error.
SealSnapshot(p) ==
    /\ At(p, "snapshot")
    /\ \E k \in Keys :
          man' = [man EXCEPT ![p] =
                    [key    |-> k,
                     logged |-> events[slot[p]] # None,
                     log    |-> LiveLog(slot[p]),
                     sinks  |-> sinks]]
    /\ Goto(p, "write_tmp")
    /\ UNCHANGED <<disk, flock, slot, fd, marks, host, acked, erased>>

\* Mutant of SealWriteTmp: the plaintext is deleted before the blob is in place.
SealWriteTmpDeleteFirst(p) ==
    /\ At(p, "write_tmp")
    /\ tmp' = [tmp EXCEPT ![slot[p]] = man[p]]
    /\ Goto(p, "unlink_log")
    /\ UNCHANGED <<dir, events, data, sinks, blob, pending, flock, slot, fd, man, marks,
                   host, acked, erased>>

SealWriteTmp(p) ==
    /\ At(p, "write_tmp")
    /\ tmp' = [tmp EXCEPT ![slot[p]] = man[p]]
    /\ Goto(p, "publish")
    /\ UNCHANGED <<dir, events, data, sinks, blob, pending, flock, slot, fd, man, marks,
                   host, acked, erased>>

\* os.replace overwrites: the "already sealed" check is not repeated here.
SealPublish(p) ==
    /\ At(p, "publish")
    /\ tmp[slot[p]] # None
    /\ blob' = [blob EXCEPT ![slot[p]] = tmp[slot[p]]]
    /\ tmp' = [tmp EXCEPT ![slot[p]] = None]
    /\ Goto(p, "unlink_log")
    /\ UNCHANGED <<dir, events, data, sinks, pending, flock, slot, fd, man, marks,
                   host, acked, erased>>

\* shutil.rmtree(log_dir), first its files and then the directory itself.
SealUnlinkLog(p) ==
    /\ At(p, "unlink_log")
    /\ dir[slot[p]]
    /\ events' = [events EXCEPT ![slot[p]] = None]
    /\ Goto(p, "rmdir")
    /\ UNCHANGED <<dir, data, sinks, blob, tmp, pending, flock, slot, fd, man, marks,
                   host, acked, erased>>

SealRmdir(p) ==
    /\ At(p, "rmdir")
    /\ dir[slot[p]]
    /\ events[slot[p]] = None
    /\ dir' = [dir EXCEPT ![slot[p]] = FALSE]
    /\ Goto(p, "rm_sinks")
    /\ UNCHANGED <<events, data, sinks, blob, tmp, pending, flock, slot, fd, man, marks,
                   host, acked, erased>>

\* Only the sinks seen by the snapshot; rmtree(ignore_errors=True) may leave any
\* of their files behind.
SealRmSinks(p) ==
    /\ At(p, "rm_sinks")
    /\ \E left \in SUBSET sinks :
          /\ man[p].sinks = {} => left = sinks
          /\ sinks' = left
    /\ Leave(p)
    /\ UNCHANGED <<dir, events, data, blob, tmp, pending, host, acked, erased>>

-----------------------------------------------------------------------------
(* unseal_folder.  It takes no lock. *)

UnsealCheck(p) ==
    /\ At(p, "idle")
    /\ blob[Resolve] # None
    /\ ~dir[Resolve]
    /\ sinks = {}
    /\ slot' = [slot EXCEPT ![p] = Resolve]
    /\ Goto(p, "verify")
    /\ UNCHANGED <<disk, flock, fd, man, marks, host, acked, erased>>

UnsealVerify(p) ==
    /\ At(p, "verify")
    /\ marks' = [marks EXCEPT ![p] = pending]
    /\ Goto(p, "decrypt")
    /\ UNCHANGED <<disk, flock, slot, fd, man, host, acked, erased>>

UnsealDecrypt(p) ==
    /\ At(p, "decrypt")
    /\ blob[slot[p]] # None
    /\ man' = [man EXCEPT ![p] = blob[slot[p]]]
    /\ Goto(p, "mkdir")
    /\ UNCHANGED <<disk, flock, slot, fd, marks, host, acked, erased>>

UnsealMkdir(p) ==
    /\ At(p, "mkdir")
    /\ dir' = [dir EXCEPT ![slot[p]] = TRUE]
    /\ Goto(p, "restore_log")
    /\ UNCHANGED <<events, data, sinks, blob, tmp, pending, flock, slot, fd, man, marks,
                   host, acked, erased>>

\* write_bytes truncates a file that is already there, whoever has it open or
\* locked.
UnsealRestoreLog(p) ==
    /\ At(p, "restore_log")
    /\ \/ ~man[p].logged /\ UNCHANGED <<dir, events, data>>
       \/ /\ man[p].logged
          /\ dir' = [dir EXCEPT ![slot[p]] = TRUE]
          /\ \E i \in Inodes :
                /\ i = events[slot[p]] \/ (events[slot[p]] = None /\ i \in FreeInodes)
                /\ events' = [events EXCEPT ![slot[p]] = i]
                /\ data' = [data EXCEPT ![i] = man[p].log]
    /\ Goto(p, "restore_sinks")
    /\ UNCHANGED <<sinks, blob, tmp, pending, flock, slot, fd, man, marks, host, acked, erased>>

\* Mutant of UnsealRestoreSinks: the sinks are forgotten.
UnsealRestoreNoSinks(p) ==
    /\ At(p, "restore_sinks")
    /\ Goto(p, "unlink_blob")
    /\ UNCHANGED <<disk, flock, slot, fd, man, marks, host, acked, erased>>

\* A sink file that appeared meanwhile survives only where no restored file has
\* its name.
UnsealRestoreSinks(p) ==
    /\ At(p, "restore_sinks")
    /\ \E kept \in SUBSET sinks : sinks' = kept \cup man[p].sinks
    /\ Goto(p, "unlink_blob")
    /\ UNCHANGED <<dir, events, data, blob, tmp, pending, flock, slot, fd, man, marks,
                   host, acked, erased>>

\* Mutant of UnsealUnlink: with markers to apply, the blob is left where it is.
UnsealUnlinkNotIfMarked(p) ==
    /\ At(p, "unlink_blob")
    /\ blob[slot[p]] # None
    /\ IF marks[p] = {}
       THEN Leave(p) /\ blob' = [blob EXCEPT ![slot[p]] = None]
       ELSE Goto(p, "apply_markers") /\ UNCHANGED <<blob, flock, slot, fd, man, marks>>
    /\ UNCHANGED <<dir, events, data, sinks, tmp, pending, host, acked, erased>>

UnsealUnlink(p) ==
    /\ At(p, "unlink_blob")
    /\ blob[slot[p]] # None
    /\ blob' = [blob EXCEPT ![slot[p]] = None]
    /\ IF marks[p] = {}
       THEN Leave(p)
       ELSE Goto(p, "apply_markers") /\ UNCHANGED <<flock, slot, fd, man, marks>>
    /\ UNCHANGED <<dir, events, data, sinks, tmp, pending, host, acked, erased>>

\* The host's pending_erase_apply hook drops the marked records from the live
\* memory and retires their markers.
UnsealApply(p) ==
    /\ At(p, "apply_markers")
    /\ data' = [i \in Inodes |-> IF i = events[slot[p]] THEN data[i] \ marks[p] ELSE data[i]]
    /\ sinks' = sinks \ marks[p]
    /\ pending' = pending \ marks[p]
    /\ erased' = erased \cup marks[p]
    /\ Leave(p)
    /\ UNCHANGED <<dir, events, blob, tmp, host, acked>>

-----------------------------------------------------------------------------
(* Failing calls. *)

\* A step that finds the disk other than it needs raises, and the call ends
\* where it is: nothing already done is undone.
Raises(p) ==
    LET s == slot[p] IN
    \/ At(p, "open") /\ ~dir[s]
    \/ At(p, "publish") /\ tmp[s] = None
    \/ At(p, "unlink_log") /\ ~dir[s]
    \/ At(p, "rmdir") /\ (~dir[s] \/ events[s] # None)
    \/ At(p, "decrypt") /\ blob[s] = None
    \/ At(p, "unlink_blob") /\ blob[s] = None

Raise(p) ==
    /\ Raises(p)
    /\ Leave(p)
    /\ UNCHANGED <<disk, host, acked, erased>>

\* The process dies, or an I/O error, a wrong passphrase or a refused marker
\* ends the call: to the disk it is the same.
Crash(p) ==
    /\ ~At(p, "idle")
    /\ Leave(p)
    /\ UNCHANGED <<disk, host, acked, erased>>

-----------------------------------------------------------------------------
(* The host, as seal.py relies on it: it appends to events.jsonl under the   *)
(* same flock, writes the sinks without one, and records erasure requests   *)
(* for a sealed folder as pending markers.                                  *)

Unused(r) == r \notin acked /\ \A w \in Writers : wrec[w] # r

WriterOpen(w, r) ==
    /\ wfd[w] = None
    /\ Unused(r)
    /\ dir[Resolve] \/ ~IsSealed
    /\ dir' = [dir EXCEPT ![Resolve] = TRUE]
    /\ \E i \in Inodes : /\ OpenEvents(Resolve, i)
                         /\ wfd' = [wfd EXCEPT ![w] = i]
    /\ wrec' = [wrec EXCEPT ![w] = r]
    /\ UNCHANGED <<sinks, blob, tmp, pending, flock, calls, acked, erased>>

\* Lock, append, unlock, close: one step, for the file it opened.
WriterAppend(w) ==
    /\ wfd[w] # None
    /\ flock[wfd[w]] = None
    /\ data' = [data EXCEPT ![wfd[w]] = @ \cup {wrec[w]}]
    /\ acked' = acked \cup {wrec[w]}
    /\ wfd' = [wfd EXCEPT ![w] = None]
    /\ wrec' = [wrec EXCEPT ![w] = None]
    /\ UNCHANGED <<dir, events, sinks, blob, tmp, pending, flock, calls, erased>>

SinkWrite(r) ==
    /\ Unused(r)
    /\ sinks' = sinks \cup {r}
    /\ acked' = acked \cup {r}
    /\ UNCHANGED <<dir, events, data, blob, tmp, pending, flock, calls, host, erased>>

MarkErase(r) ==
    /\ IsSealed
    /\ r \in (Erasable \cap acked) \ (erased \cup pending)
    /\ pending' = pending \cup {r}
    /\ UNCHANGED <<dir, events, data, sinks, blob, tmp, flock, calls, host, acked, erased>>

-----------------------------------------------------------------------------
SealStep(p) ==
    \/ SealCheck(p) \/ SealOpen(p) \/ SealLock(p) \/ SealSnapshot(p) \/ SealWriteTmp(p)
    \/ SealPublish(p) \/ SealUnlinkLog(p) \/ SealRmdir(p) \/ SealRmSinks(p)

UnsealStep(p) ==
    \/ UnsealCheck(p) \/ UnsealVerify(p) \/ UnsealDecrypt(p) \/ UnsealMkdir(p)
    \/ UnsealRestoreLog(p) \/ UnsealRestoreSinks(p) \/ UnsealUnlink(p) \/ UnsealApply(p)

CallStep == \E p \in Procs : SealStep(p) \/ UnsealStep(p) \/ Raise(p) \/ Crash(p)

HostStep ==
    \/ \E w \in Writers : WriterAppend(w) \/ \E r \in Records : WriterOpen(w, r)
    \/ \E r \in Records : SinkWrite(r) \/ MarkErase(r)

Next == CallStep \/ HostStep

Spec == Init /\ [][Next]_vars

\* How a host may use the module.  seal.py has no lock of its own around a call:
\* it is for the host to run one at a time (Serial), or also to keep its writers
\* off the folder meanwhile (Quiet).
OneCall     == \A p, q \in Procs : p # q => At(p, "idle") \/ At(q, "idle")
CallsIdle   == \A p \in Procs : At(p, "idle")
WritersIdle == \A w \in Writers : wfd[w] = None

SerialNext == Next /\ OneCall'
SerialSpec == Init /\ [][SerialNext]_vars

QuietNext == ((CallStep /\ WritersIdle) \/ (HostStep /\ CallsIdle)) /\ OneCall'
QuietSpec == Init /\ [][QuietNext]_vars

\* A call that can move does; and the kernel grants a waiting flock in turn.
Progress(p) == (SealStep(p) \/ UnsealStep(p) \/ Raise(p)) /\ ~At(p, "idle")
FairSpec ==
    /\ Spec
    /\ \A p \in Procs : WF_vars(Progress(p)) /\ SF_vars(SealLock(p))

-----------------------------------------------------------------------------
(* What sealing promises. *)

\* Whatever the host was told is written is somewhere it can be had from, until
\* the host erases it: the blob replaces the plaintext and the plaintext the
\* blob, and no crash between two file operations of seal_folder or
\* unseal_folder leaves a record in neither.
NothingLost == acked \ erased \subseteq Plaintext \cup Ciphertext

\* unseal_folder gives up the blob only when everything in it is back on disk,
\* the sinks as well as the log.
BlobRemovedOnlyAfterRestore ==
    [][\A s \in Slots : blob[s] # None /\ blob'[s] = None
            => Contents(blob[s]) \subseteq Plaintext]_vars

\* rmtree takes an events.jsonl away only when the blob holds every record in
\* it, also those appended while seal_folder was waiting for the lock.
DeleteOnlySealed ==
    [][\A s \in Slots : events[s] # None /\ events'[s] = None
            => data[events[s]] \subseteq Contents(blob[s])]_vars

\* A record whose pending-erasure marker was applied does not come back, not
\* from a later unseal and not from a temporary file of a seal that failed.
ErasureIsFinal ==
    erased \cap (Plaintext \cup Ciphertext \cup UNION {Contents(tmp[s]) : s \in Slots}) = {}

\* Every call of seal_folder or unseal_folder comes to an end: none waits
\* forever for the appenders' lock or for a lock another call leaves behind.
CallsReturn == \A p \in Procs : ~At(p, "idle") ~> At(p, "idle")

-----------------------------------------------------------------------------
(* Claims of the documentation that the code does not keep; each has a run    *)
(* whose counterexample shows how.                                           *)

\* "already sealed" is refused: no second seal puts a blob in place of one whose
\* records it does not have.  The check and the os.replace are far apart, and the
\* lock between them is on a file that a finished seal has already unlinked.
SealNotReplaced ==
    [][\A s \in Slots : blob[s] # None /\ blob'[s] # None
            => Contents(blob[s]) \subseteq Contents(blob'[s])]_vars

\* Seal and append serialise: an append that waited for seal_folder to finish
\* reaches the folder's memory, and not a file nobody can open any more.
AppendReachesMemory ==
    [][acked' \ acked \subseteq Plaintext' \cup Ciphertext']_vars

\* A folder with a sealed blob is found sealed, also when the blob is named by
\* the legacy hash.
SealedIsFound ==
    CallsIdle => \A s \in Slots : Contents(blob[s]) # {} => Resolve = s
=============================================================================
