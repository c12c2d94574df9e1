------------------------- MODULE SealQuietProofs -------------------------
(***************************************************************************)
(* TLAPS proofs about a quiet host: it loses nothing (QuietInv is           *)
(* inductive), and it implements Vault.                                     *)
(***************************************************************************)
EXTENDS SealProofs

-----------------------------------------------------------------------------
(* Where a record is held, without the unions. *)

InLog(r)  == \E s \in Slots : events[s] # None /\ r \in data[events[s]]
InBlob(r) == \E s \in Slots : blob[s] # None /\ r \in blob[s].log \cup blob[s].sinks
Held(r)   == r \in sinks \/ InLog(r) \/ InBlob(r)

LEMMA PlainIs ==
    /\ \A r : r \in Plaintext <=> r \in sinks \/ InLog(r)
    /\ \A r : r \in Plaintext' <=> r \in sinks' \/ InLog(r)'
<1>1. \A r : r \in LiveLogs <=> \E s \in Slots : r \in LiveLog(s)
  <2> HIDE DEF Slots
  <2> QED
      BY DEF LiveLogs
<1>2. \A r : r \in LiveLogs' <=> \E s \in Slots : r \in LiveLog(s)'
  <2> HIDE DEF Slots
  <2> QED
      BY DEF LiveLogs
<1>3. \A s : \A r : r \in LiveLog(s) <=> events[s] # None /\ r \in data[events[s]]
    BY DEF LiveLog
<1>4. \A s : \A r : r \in LiveLog(s)' <=> events'[s] # None /\ r \in data'[events'[s]]
    BY DEF LiveLog
<1> QED
    BY <1>1, <1>2, <1>3, <1>4 DEF Plaintext, InLog

LEMMA CipherIs ==
    /\ \A r : r \in Ciphertext <=> InBlob(r)
    /\ \A r : r \in Ciphertext' <=> InBlob(r)'
BY DEF Ciphertext, Contents, InBlob

LEMMA HeldIs == \A r : r \in Plaintext \cup Ciphertext <=> Held(r)
BY PlainIs, CipherIs DEF Held

LEMMA HeldIsNext == \A r : r \in Plaintext' \cup Ciphertext' <=> Held(r)'
BY PlainIs, CipherIs DEF Held

LEMMA LostNothing ==
    ASSUME NothingLost, acked' = acked, erased \subseteq erased',
           \A r : Held(r) /\ r \notin erased' => Held(r)'
    PROVE  NothingLost'
BY HeldIs, HeldIsNext DEF NothingLost

-----------------------------------------------------------------------------
(* A step of one call finds every other call idle, and leaves it so. *)

AnyStep(p) == SealStep(p) \/ UnsealStep(p) \/ Raise(p) \/ Crash(p)

LEMMA StepMovesOne ==
    ASSUME CallType, NEW p \in Procs, AnyStep(p)
    PROVE  /\ \A q \in Procs : q # p => pc'[q] = pc[q]
           /\ pc[p] = "idle" => pc'[p] # "idle"
           /\ wfd' = wfd
<1> USE DEF At, Goto, Leave, CallType, host
<1>1. CASE SealStep(p)
    BY <1>1 DEF SealStep, SealCheck, SealOpen, SealLock, SealSnapshot, SealWriteTmp,
                SealPublish, SealUnlinkLog, SealRmdir, SealRmSinks
<1>2. CASE UnsealStep(p)
    BY <1>2 DEF UnsealStep, UnsealCheck, UnsealVerify, UnsealDecrypt, UnsealMkdir,
                UnsealRestoreLog, UnsealRestoreSinks, UnsealUnlink, UnsealApply
<1>3. CASE Raise(p) \/ Crash(p)
    BY <1>3 DEF Raise, Raises, Crash
<1> QED
    BY <1>1, <1>2, <1>3 DEF AnyStep

LEMMA StepAlone ==
    ASSUME CallType, Alone, WritersIdle, NEW p \in Procs, AnyStep(p), OneCall'
    PROVE  /\ \A q \in Procs : q # p => pc'[q] = "idle"
           /\ Alone' /\ WritersLinked'
<1>1. \A q \in Procs : q # p => pc'[q] = "idle"
    BY StepMovesOne DEF Alone, OneCall, At
<1>2. WritersIdle'
    BY StepMovesOne DEF WritersIdle
<1> QED
    BY <1>1, <1>2 DEF Alone, WritersLinked, WritersIdle

LEMMA LeaveKeeps ==
    ASSUME CallType, NEW p \in Procs, Leave(p)
    PROVE  /\ SealProgress(p)' /\ UnsealProgress(p)'
           /\ \A q \in Procs : man'[q] \in {man[q], None}
<1>1. pc'[p] = "idle"
    BY DEF CallType, Leave, Goto
<1>2. \A q \in Procs : man'[q] \in {man[q], None}
    BY DEF CallType, Leave
<1> QED
    BY <1>1, <1>2 DEF SealProgress, UnsealProgress

-----------------------------------------------------------------------------
LEMMA QuietInit == Init => QuietInv
<1> SUFFICES ASSUME Init PROVE QuietInv
    OBVIOUS
<1>1. TypeOK
    BY TypeInit
<1>2. LogsApart /\ ManifestsWhole /\ Alone /\ WritersLinked
    BY DEF Init, LogsApart, ManifestsWhole, Alone, OneCall, At, WritersLinked
<1>3. \A p \in Procs : SealProgress(p) /\ UnsealProgress(p)
    BY DEF Init, SealProgress, UnsealProgress
<1>4. NothingLost
    BY DEF Init, NothingLost
<1> QED
    BY <1>1, <1>2, <1>3, <1>4 DEF QuietInv

\* What is left to show of one call's step.
StepKeeps(p) ==
    /\ LogsApart'
    /\ ManifestsWhole'
    /\ SealProgress(p)' /\ UnsealProgress(p)'
    /\ NothingLost'

LEMMA SealCheckKeeps ==
    ASSUME QuietInv, NEW p \in Procs, SealCheck(p), TypeOK'
    PROVE  StepKeeps(p)
<1> USE DEF QuietInv, TypeOK, At, Goto, disk, SealCheck
<1>1. LogsApart'
    BY DEF LogsApart, DiskType
<1>2. ManifestsWhole'
    BY DEF ManifestsWhole, DiskType, CallType
<1>3. SealProgress(p)' /\ UnsealProgress(p)'
    BY DEF SealProgress, UnsealProgress, LiveLog, DiskType, CallType
<1>4. NothingLost'
  <2>1. \A r : Held(r) /\ r \notin erased' => Held(r)'
      BY DEF Held, InLog, InBlob, DiskType, CallType
  <2> QED
      BY <2>1, LostNothing
<1> QED
    BY <1>1, <1>2, <1>3, <1>4 DEF StepKeeps

LEMMA SealOpenKeeps ==
    ASSUME QuietInv, NEW p \in Procs, SealOpen(p), TypeOK'
    PROVE  StepKeeps(p)
<1> USE DEF QuietInv, TypeOK, At, Goto, disk, SealOpen
<1>0. PICK i \in Inodes : OpenEvents(slot[p], i)
    OBVIOUS
<1>s. slot[p] \in Slots
    BY DEF CallType
<1>5. \/ UNCHANGED <<events, data>>
      \/ /\ i \in FreeInodes
         /\ events[slot[p]] = None
         /\ events' = [events EXCEPT ![slot[p]] = i]
         /\ data' = [data EXCEPT ![i] = {}]
    BY <1>0 DEF OpenEvents
<1>1. LogsApart'
    BY <1>5, <1>s DEF LogsApart, DiskType, FreeInodes
<1>2. ManifestsWhole'
    BY DEF ManifestsWhole, DiskType, CallType
<1>3. SealProgress(p)' /\ UnsealProgress(p)'
    BY DEF SealProgress, UnsealProgress, LiveLog, DiskType, CallType
<1>4. NothingLost'
  <2>1. \A s \in Slots : events[s] # None => /\ events'[s] = events[s]
                                              /\ data'[events[s]] = data[events[s]]
      BY <1>5, <1>s DEF DiskType, FreeInodes
  <2>2. \A r : Held(r) /\ r \notin erased' => Held(r)'
      BY <2>1 DEF Held, InLog, InBlob
  <2> QED
      BY <2>2, LostNothing
<1> QED
    BY <1>1, <1>2, <1>3, <1>4 DEF StepKeeps

LEMMA SealLockKeeps ==
    ASSUME QuietInv, NEW p \in Procs, SealLock(p), TypeOK'
    PROVE  StepKeeps(p)
<1> USE DEF QuietInv, TypeOK, At, Goto, disk, SealLock
<1>1. LogsApart'
    BY DEF LogsApart, DiskType
<1>2. ManifestsWhole'
    BY DEF ManifestsWhole, DiskType, CallType
<1>3. SealProgress(p)' /\ UnsealProgress(p)'
    BY DEF SealProgress, UnsealProgress, LiveLog, DiskType, CallType
<1>4. NothingLost'
  <2>1. \A r : Held(r) /\ r \notin erased' => Held(r)'
      BY DEF Held, InLog, InBlob, DiskType, CallType
  <2> QED
      BY <2>1, LostNothing
<1> QED
    BY <1>1, <1>2, <1>3, <1>4 DEF StepKeeps

LEMMA SealSnapshotKeeps ==
    ASSUME QuietInv, NEW p \in Procs, SealSnapshot(p), TypeOK'
    PROVE  StepKeeps(p)
<1> USE DEF QuietInv, TypeOK, At, Goto, disk, SealSnapshot
<1>1. LogsApart'
    BY DEF LogsApart, DiskType
<1>2. ManifestsWhole'
  <2>1. \A q \in Procs : q # p => man'[q] = man[q]
      BY DEF CallType
  <2>2. man'[p].logged = (events[slot[p]] # None) /\ man'[p].log = LiveLog(slot[p])
      BY DEF CallType
  <2>3. ~man'[p].logged => man'[p].log = {}
      BY <2>2 DEF LiveLog
  <2> QED
      BY <2>1, <2>3 DEF ManifestsWhole
<1>3. SealProgress(p)' /\ UnsealProgress(p)'
    BY DEF SealProgress, UnsealProgress, LiveLog, DiskType, CallType
<1>4. NothingLost'
  <2>1. \A r : Held(r) /\ r \notin erased' => Held(r)'
      BY DEF Held, InLog, InBlob, DiskType, CallType
  <2> QED
      BY <2>1, LostNothing
<1> QED
    BY <1>1, <1>2, <1>3, <1>4 DEF StepKeeps

LEMMA SealWriteTmpKeeps ==
    ASSUME QuietInv, NEW p \in Procs, SealWriteTmp(p), TypeOK'
    PROVE  StepKeeps(p)
<1> USE DEF QuietInv, TypeOK, At, Goto, disk, SealWriteTmp
<1>1. LogsApart'
    BY DEF LogsApart, DiskType
<1>2. ManifestsWhole'
    BY DEF ManifestsWhole, DiskType, CallType
<1>3. SealProgress(p)' /\ UnsealProgress(p)'
    BY DEF SealProgress, UnsealProgress, LiveLog, DiskType, CallType
<1>4. NothingLost'
  <2>1. \A r : Held(r) /\ r \notin erased' => Held(r)'
      BY DEF Held, InLog, InBlob, DiskType, CallType
  <2> QED
      BY <2>1, LostNothing
<1> QED
    BY <1>1, <1>2, <1>3, <1>4 DEF StepKeeps

LEMMA SealPublishKeeps ==
    ASSUME QuietInv, NEW p \in Procs, SealPublish(p), TypeOK'
    PROVE  StepKeeps(p)
<1> USE DEF QuietInv, TypeOK, At, Goto, disk, SealPublish
<1>1. LogsApart'
    BY DEF LogsApart, DiskType
<1>2. ManifestsWhole'
    BY DEF ManifestsWhole, DiskType, CallType
<1>3. SealProgress(p)' /\ UnsealProgress(p)'
    BY DEF SealProgress, UnsealProgress, LiveLog, DiskType, CallType
<1>4. NothingLost'
  <2>1. blob[slot[p]] = None /\ slot[p] \in Slots
      BY DEF SealProgress, CallType
  <2>2. \A s \in Slots : blob[s] # None => blob'[s] = blob[s]
      BY <2>1 DEF DiskType
  <2>3. \A r : Held(r) /\ r \notin erased' => Held(r)'
      BY <2>2 DEF Held, InLog, InBlob
  <2> QED
      BY <2>3, LostNothing
<1> QED
    BY <1>1, <1>2, <1>3, <1>4 DEF StepKeeps

LEMMA SealUnlinkLogKeeps ==
    ASSUME QuietInv, NEW p \in Procs, SealUnlinkLog(p), TypeOK'
    PROVE  StepKeeps(p)
<1> USE DEF QuietInv, TypeOK, At, Goto, disk, SealUnlinkLog
<1>1. LogsApart'
    BY DEF LogsApart, DiskType
<1>2. ManifestsWhole'
    BY DEF ManifestsWhole, DiskType, CallType
<1>3. SealProgress(p)' /\ UnsealProgress(p)'
    BY DEF SealProgress, UnsealProgress, LiveLog, DiskType, CallType
<1>4. NothingLost'
  <2>1. /\ blob[slot[p]] = man[p] /\ man[p] # None /\ slot[p] \in Slots
        /\ LiveLog(slot[p]) = man[p].log
      BY DEF SealProgress, CallType, ManifestSteps, LockedSteps
  <2>2. \A s \in Slots : s # slot[p] => events'[s] = events[s]
      BY <2>1 DEF DiskType
  <2>3. \A r : Held(r) /\ r \notin erased' => Held(r)'
      BY <2>1, <2>2 DEF Held, InLog, InBlob, LiveLog
  <2> QED
      BY <2>3, LostNothing
<1> QED
    BY <1>1, <1>2, <1>3, <1>4 DEF StepKeeps

LEMMA SealRmdirKeeps ==
    ASSUME QuietInv, NEW p \in Procs, SealRmdir(p), TypeOK'
    PROVE  StepKeeps(p)
<1> USE DEF QuietInv, TypeOK, At, Goto, disk, SealRmdir
<1>1. LogsApart'
    BY DEF LogsApart, DiskType
<1>2. ManifestsWhole'
    BY DEF ManifestsWhole, DiskType, CallType
<1>3. SealProgress(p)' /\ UnsealProgress(p)'
    BY DEF SealProgress, UnsealProgress, LiveLog, DiskType, CallType
<1>4. NothingLost'
  <2>1. \A r : Held(r) /\ r \notin erased' => Held(r)'
      BY DEF Held, InLog, InBlob, DiskType, CallType
  <2> QED
      BY <2>1, LostNothing
<1> QED
    BY <1>1, <1>2, <1>3, <1>4 DEF StepKeeps

LEMMA SealRmSinksKeeps ==
    ASSUME QuietInv, NEW p \in Procs, SealRmSinks(p), TypeOK'
    PROVE  StepKeeps(p)
<1> USE DEF QuietInv, TypeOK, At, Goto, disk, SealRmSinks
<1>1. LogsApart'
    BY DEF LogsApart, DiskType
<1>2. ManifestsWhole'
    BY LeaveKeeps DEF ManifestsWhole
<1>3. SealProgress(p)' /\ UnsealProgress(p)'
    BY LeaveKeeps
<1>4. NothingLost'
  <2>1. /\ blob[slot[p]] = man[p] /\ man[p] # None /\ slot[p] \in Slots
        /\ sinks = man[p].sinks
      BY DEF SealProgress, CallType, ManifestSteps, LockedSteps
  <2>2. \A r : Held(r) /\ r \notin erased' => Held(r)'
      BY <2>1 DEF Held, InLog, InBlob
  <2> QED
      BY <2>2, LostNothing
<1> QED
    BY <1>1, <1>2, <1>3, <1>4 DEF StepKeeps

LEMMA UnsealCheckKeeps ==
    ASSUME QuietInv, NEW p \in Procs, UnsealCheck(p), TypeOK'
    PROVE  StepKeeps(p)
<1> USE DEF QuietInv, TypeOK, At, Goto, disk, UnsealCheck
<1>1. LogsApart'
    BY DEF LogsApart, DiskType
<1>2. ManifestsWhole'
    BY DEF ManifestsWhole, DiskType, CallType
<1>3. SealProgress(p)' /\ UnsealProgress(p)'
  <2>1. /\ pc'[p] = "verify" /\ slot'[p] = Resolve /\ Resolve \in Slots
        /\ ~dir[Resolve]
      BY ResolveType DEF CallType
  <2>2. events[Resolve] = None
      BY <2>1 DEF LogsApart
  <2> QED
      BY <2>1, <2>2 DEF SealProgress, UnsealProgress
<1>4. NothingLost'
  <2>1. \A r : Held(r) /\ r \notin erased' => Held(r)'
      BY DEF Held, InLog, InBlob, DiskType, CallType
  <2> QED
      BY <2>1, LostNothing
<1> QED
    BY <1>1, <1>2, <1>3, <1>4 DEF StepKeeps

LEMMA UnsealVerifyKeeps ==
    ASSUME QuietInv, NEW p \in Procs, UnsealVerify(p), TypeOK'
    PROVE  StepKeeps(p)
<1> USE DEF QuietInv, TypeOK, At, Goto, disk, UnsealVerify
<1>1. LogsApart'
    BY DEF LogsApart, DiskType
<1>2. ManifestsWhole'
    BY DEF ManifestsWhole, DiskType, CallType
<1>3. SealProgress(p)' /\ UnsealProgress(p)'
    BY DEF SealProgress, UnsealProgress, LiveLog, DiskType, CallType
<1>4. NothingLost'
  <2>1. \A r : Held(r) /\ r \notin erased' => Held(r)'
      BY DEF Held, InLog, InBlob, DiskType, CallType
  <2> QED
      BY <2>1, LostNothing
<1> QED
    BY <1>1, <1>2, <1>3, <1>4 DEF StepKeeps

LEMMA UnsealDecryptKeeps ==
    ASSUME QuietInv, NEW p \in Procs, UnsealDecrypt(p), TypeOK'
    PROVE  StepKeeps(p)
<1> USE DEF QuietInv, TypeOK, At, Goto, disk, UnsealDecrypt
<1>1. LogsApart'
    BY DEF LogsApart, DiskType
<1>2. ManifestsWhole'
    BY DEF ManifestsWhole, DiskType, CallType
<1>3. SealProgress(p)' /\ UnsealProgress(p)'
    BY DEF SealProgress, UnsealProgress, LiveLog, DiskType, CallType
<1>4. NothingLost'
  <2>1. \A r : Held(r) /\ r \notin erased' => Held(r)'
      BY DEF Held, InLog, InBlob, DiskType, CallType
  <2> QED
      BY <2>1, LostNothing
<1> QED
    BY <1>1, <1>2, <1>3, <1>4 DEF StepKeeps

LEMMA UnsealMkdirKeeps ==
    ASSUME QuietInv, NEW p \in Procs, UnsealMkdir(p), TypeOK'
    PROVE  StepKeeps(p)
<1> USE DEF QuietInv, TypeOK, At, Goto, disk, UnsealMkdir
<1>1. LogsApart'
    BY DEF LogsApart, DiskType
<1>2. ManifestsWhole'
    BY DEF ManifestsWhole, DiskType, CallType
<1>3. SealProgress(p)' /\ UnsealProgress(p)'
    BY DEF SealProgress, UnsealProgress, LiveLog, DiskType, CallType
<1>4. NothingLost'
  <2>1. \A r : Held(r) /\ r \notin erased' => Held(r)'
      BY DEF Held, InLog, InBlob, DiskType, CallType
  <2> QED
      BY <2>1, LostNothing
<1> QED
    BY <1>1, <1>2, <1>3, <1>4 DEF StepKeeps

LEMMA UnsealRestoreLogKeeps ==
    ASSUME QuietInv, NEW p \in Procs, UnsealRestoreLog(p), TypeOK'
    PROVE  StepKeeps(p)
<1> USE DEF QuietInv, TypeOK, At, Goto, disk, UnsealRestoreLog
<1>0. /\ slot[p] \in Slots /\ events[slot[p]] = None
      /\ blob[slot[p]] = man[p] /\ man[p] # None
    BY DEF CallType, UnsealProgress, ManifestSteps, LockedSteps, UnsealSteps
<1>5. \/ /\ ~man[p].logged
         /\ UNCHANGED <<dir, events, data>>
      \/ /\ dir' = [dir EXCEPT ![slot[p]] = TRUE]
         /\ \E i \in FreeInodes : /\ events' = [events EXCEPT ![slot[p]] = i]
                                   /\ data' = [data EXCEPT ![i] = man[p].log]
    BY <1>0, NoneAssumption
<1>6. \A i \in FreeInodes : i \in Inodes /\ \A s \in Slots : events[s] # i
    BY DEF FreeInodes
<1>1. LogsApart'
    BY <1>0, <1>5, <1>6 DEF LogsApart, DiskType
<1>2. ManifestsWhole'
    BY DEF ManifestsWhole, DiskType, CallType
<1>3. SealProgress(p)' /\ UnsealProgress(p)'
  <2>1. LiveLog(slot[p])' = man[p].log
    <3>1. CASE ~man[p].logged /\ UNCHANGED <<dir, events, data>>
        BY <1>0, <3>1 DEF LiveLog, ManifestsWhole
    <3>2. ASSUME NEW i \in FreeInodes,
                 events' = [events EXCEPT ![slot[p]] = i],
                 data' = [data EXCEPT ![i] = man[p].log]
          PROVE  LiveLog(slot[p])' = man[p].log
        BY <1>0, <1>6, <3>2, NoneAssumption DEF LiveLog, DiskType
    <3> QED
        BY <1>5, <3>1, <3>2
  <2>2. pc'[p] = "restore_sinks"
      BY DEF CallType
  <2> QED
      BY <2>1, <2>2, <1>0 DEF SealProgress, UnsealProgress, LiveLog
<1>4. NothingLost'
  <2>1. \A s \in Slots : events[s] # None => /\ events'[s] = events[s]
                                              /\ data'[events[s]] = data[events[s]]
      BY <1>0, <1>5, <1>6 DEF DiskType
  <2>2. \A r : Held(r) /\ r \notin erased' => Held(r)'
      BY <2>1 DEF Held, InLog, InBlob
  <2> QED
      BY <2>2, LostNothing
<1> QED
    BY <1>1, <1>2, <1>3, <1>4 DEF StepKeeps

LEMMA UnsealRestoreSinksKeeps ==
    ASSUME QuietInv, NEW p \in Procs, UnsealRestoreSinks(p), TypeOK'
    PROVE  StepKeeps(p)
<1> USE DEF QuietInv, TypeOK, At, Goto, disk, UnsealRestoreSinks
<1>1. LogsApart'
    BY DEF LogsApart, DiskType
<1>2. ManifestsWhole'
    BY DEF ManifestsWhole, DiskType, CallType
<1>3. SealProgress(p)' /\ UnsealProgress(p)'
    BY DEF SealProgress, UnsealProgress, LiveLog, DiskType, CallType
<1>4. NothingLost'
  <2>1. sinks = {}
      BY DEF UnsealProgress
  <2>2. \A r : Held(r) /\ r \notin erased' => Held(r)'
      BY <2>1 DEF Held, InLog, InBlob
  <2> QED
      BY <2>2, LostNothing
<1> QED
    BY <1>1, <1>2, <1>3, <1>4 DEF StepKeeps

LEMMA UnsealUnlinkKeeps ==
    ASSUME QuietInv, NEW p \in Procs, UnsealUnlink(p), TypeOK'
    PROVE  StepKeeps(p)
<1> USE DEF QuietInv, TypeOK, At, Goto, disk, UnsealUnlink
<1>1. LogsApart'
    BY DEF LogsApart, DiskType
<1>2. ManifestsWhole'
  <2>1. \A q \in Procs : man'[q] \in {man[q], None}
      BY LeaveKeeps
  <2> QED
      BY <2>1 DEF ManifestsWhole, DiskType, CallType
<1>3. SealProgress(p)' /\ UnsealProgress(p)'
  <2>1. CASE Leave(p)
      BY <2>1, LeaveKeeps
  <2>2. CASE Goto(p, "apply_markers")
      BY <2>2 DEF SealProgress, UnsealProgress, CallType
  <2> QED
      BY <2>1, <2>2
<1>4. NothingLost'
  <2>1. /\ blob[slot[p]] = man[p] /\ slot[p] \in Slots
        /\ LiveLog(slot[p]) = man[p].log
        /\ sinks = man[p].sinks
      BY DEF UnsealProgress, CallType
  <2>2. \A s \in Slots : s # slot[p] => blob'[s] = blob[s]
      BY <2>1 DEF DiskType
  <2>3. \A r : Held(r) /\ r \notin erased' => Held(r)'
      BY <2>1, <2>2 DEF Held, InLog, InBlob, LiveLog
  <2> QED
      BY <2>3, LostNothing
<1> QED
    BY <1>1, <1>2, <1>3, <1>4 DEF StepKeeps

LEMMA UnsealApplyKeeps ==
    ASSUME QuietInv, NEW p \in Procs, UnsealApply(p), TypeOK'
    PROVE  StepKeeps(p)
<1> USE DEF QuietInv, TypeOK, At, Goto, disk, UnsealApply
<1>1. LogsApart'
    BY DEF LogsApart, DiskType
<1>2. ManifestsWhole'
    BY LeaveKeeps DEF ManifestsWhole
<1>3. SealProgress(p)' /\ UnsealProgress(p)'
    BY LeaveKeeps
<1>4. NothingLost'
  <2>1. \A r : Held(r) /\ r \notin erased' => Held(r)'
      BY DEF Held, InLog, InBlob, DiskType, CallType
  <2> QED
      BY <2>1, LostNothing
<1> QED
    BY <1>1, <1>2, <1>3, <1>4 DEF StepKeeps

LEMMA FailKeeps ==
    ASSUME QuietInv, NEW p \in Procs, Raise(p) \/ Crash(p), TypeOK'
    PROVE  StepKeeps(p)
<1> USE DEF QuietInv, TypeOK, disk, Raise, Crash
<1>1. LogsApart'
    BY DEF LogsApart
<1>2. ManifestsWhole'
    BY LeaveKeeps DEF ManifestsWhole
<1>3. SealProgress(p)' /\ UnsealProgress(p)'
    BY LeaveKeeps
<1>4. NothingLost'
  <2>1. \A r : Held(r) /\ r \notin erased' => Held(r)'
      BY DEF Held, InLog, InBlob
  <2> QED
      BY <2>1, LostNothing
<1> QED
    BY <1>1, <1>2, <1>3, <1>4 DEF StepKeeps

LEMMA CallKeeps ==
    ASSUME QuietInv, TypeOK', WritersIdle, OneCall', NEW p \in Procs, AnyStep(p)
    PROVE  QuietInv'
<1>1. StepKeeps(p)
  <2>1. CASE SealStep(p)
      BY <2>1, SealCheckKeeps, SealOpenKeeps, SealLockKeeps, SealSnapshotKeeps,
         SealWriteTmpKeeps, SealPublishKeeps, SealUnlinkLogKeeps, SealRmdirKeeps,
         SealRmSinksKeeps
         DEF SealStep
  <2>2. CASE UnsealStep(p)
      BY <2>2, UnsealCheckKeeps, UnsealVerifyKeeps, UnsealDecryptKeeps, UnsealMkdirKeeps,
         UnsealRestoreLogKeeps, UnsealRestoreSinksKeeps, UnsealUnlinkKeeps,
         UnsealApplyKeeps
         DEF UnsealStep
  <2>3. CASE Raise(p) \/ Crash(p)
      BY <2>3, FailKeeps
  <2> QED
      BY <2>1, <2>2, <2>3 DEF AnyStep
<1>2. Alone' /\ WritersLinked' /\ \A q \in Procs : q # p => pc'[q] = "idle"
    BY StepAlone DEF QuietInv, TypeOK
<1>3. \A q \in Procs : SealProgress(q)' /\ UnsealProgress(q)'
  <2>1. ASSUME NEW q \in Procs, q # p
        PROVE  SealProgress(q)' /\ UnsealProgress(q)'
      BY <1>2, <2>1 DEF SealProgress, UnsealProgress
  <2> QED
      BY <1>1, <2>1 DEF StepKeeps
<1> QED
    BY <1>1, <1>2, <1>3 DEF QuietInv, StepKeeps

-----------------------------------------------------------------------------
(* The host moves only while every call is idle. *)

LEMMA HostKeeps ==
    ASSUME QuietInv, TypeOK', HostStep, CallsIdle
    PROVE  QuietInv'
<1> USE DEF QuietInv, TypeOK, calls, host
<1>1. UNCHANGED <<pc, man, blob, tmp>>
    BY DEF HostStep, WriterAppend, WriterOpen, SinkWrite, MarkErase
<1>2. ManifestsWhole'
    BY <1>1 DEF ManifestsWhole
<1>3. Alone' /\ \A p \in Procs : SealProgress(p)' /\ UnsealProgress(p)'
    BY <1>1 DEF CallsIdle, Alone, OneCall, At, SealProgress, UnsealProgress
<1>4. CASE \E w \in Writers, r \in Records : WriterOpen(w, r)
  <2>0. PICK w \in Writers, r \in Records : WriterOpen(w, r)
      BY <1>4
  <2>1. PICK i \in Inodes : OpenEvents(Resolve, i) /\ wfd' = [wfd EXCEPT ![w] = i]
      BY <2>0 DEF WriterOpen
  <2>2. dir' = [dir EXCEPT ![Resolve] = TRUE] /\ UNCHANGED <<sinks, acked, erased>>
      BY <1>4 DEF WriterOpen
  <2>3. \/ UNCHANGED <<events, data>>
        \/ /\ i \in FreeInodes
           /\ events[Resolve] = None
           /\ events' = [events EXCEPT ![Resolve] = i]
           /\ data' = [data EXCEPT ![i] = {}]
      BY <2>1 DEF OpenEvents
  <2>4. LogsApart'
      BY <2>2, <2>3, ResolveType DEF LogsApart, DiskType, FreeInodes
  <2>5. \A s \in Slots : events[s] # None => /\ events'[s] = events[s]
                                             /\ data'[events[s]] = data[events[s]]
      BY <2>3, ResolveType DEF DiskType, FreeInodes
  <2>6. \A x : Held(x) => Held(x)'
      BY <1>1, <2>2, <2>5 DEF Held, InLog, InBlob
  <2>7. NothingLost'
      BY <2>2, <2>6, LostNothing
  <2>8. WritersLinked'
    <3>1. events'[Resolve] = i
        BY <2>1, <2>3, ResolveType DEF OpenEvents, DiskType
    <3> QED
        BY <2>1, <2>5, <3>1, ResolveType, NoneAssumption DEF WritersLinked, HostType
  <2> QED
      BY <1>2, <1>3, <2>4, <2>7, <2>8
<1>5. CASE \E w \in Writers : WriterAppend(w)
  <2>1. PICK w \in Writers : WriterAppend(w)
      BY <1>5
  <2>2. LogsApart'
      BY <2>1 DEF LogsApart, WriterAppend
  <2>3. \A r : Held(r) => Held(r)'
      BY <1>1, <2>1 DEF Held, InLog, InBlob, WriterAppend, DiskType, HostType
  <2>4. PICK s \in Slots : events[s] = wfd[w]
      BY <2>1 DEF WriterAppend, WritersLinked
  <2>r. PICK r \in Records : r = wrec[w]
      BY <2>1 DEF WriterAppend, HostType
  <2>5. Held(r)'
    <3>1. /\ events'[s] = wfd[w] /\ wfd[w] # None
          /\ data'[wfd[w]] = data[wfd[w]] \cup {r}
        BY <2>1, <2>4, <2>r DEF WriterAppend, DiskType, HostType
    <3> QED
        BY <3>1 DEF Held, InLog
  <2>6. acked' = acked \cup {r} /\ erased' = erased
      BY <2>1, <2>r DEF WriterAppend
  <2>7. NothingLost'
      BY <2>3, <2>5, <2>6, HeldIs, HeldIsNext DEF NothingLost
  <2>8. WritersLinked'
      BY <2>1 DEF WritersLinked, WriterAppend, HostType
  <2> QED
      BY <1>2, <1>3, <2>2, <2>7, <2>8
<1>6. CASE \E r \in Records : SinkWrite(r)
  <2>1. PICK r \in Records : SinkWrite(r)
      BY <1>6
  <2>2. LogsApart'
      BY <2>1 DEF LogsApart, SinkWrite
  <2>3. \A q : Held(q) => Held(q)'
      BY <1>1, <2>1 DEF Held, InLog, InBlob, SinkWrite
  <2>4. Held(r)'
      BY <2>1 DEF Held, SinkWrite
  <2>5. acked' = acked \cup {r} /\ erased' = erased
      BY <2>1 DEF SinkWrite
  <2>6. NothingLost'
      BY <2>3, <2>4, <2>5, HeldIs, HeldIsNext DEF NothingLost
  <2>7. WritersLinked'
      BY <2>1 DEF WritersLinked, SinkWrite
  <2> QED
      BY <1>2, <1>3, <2>2, <2>6, <2>7
<1>7. CASE \E r \in Records : MarkErase(r)
  <2>1. LogsApart'
      BY <1>7 DEF LogsApart, MarkErase
  <2>2. \A r : Held(r) => Held(r)'
      BY <1>7 DEF Held, InLog, InBlob, MarkErase
  <2>3. NothingLost'
      BY <1>7, <2>2, LostNothing DEF MarkErase
  <2>4. WritersLinked'
      BY <1>7 DEF WritersLinked, MarkErase
  <2> QED
      BY <1>2, <1>3, <2>1, <2>3, <2>4
<1> QED
    BY <1>4, <1>5, <1>6, <1>7 DEF HostStep

-----------------------------------------------------------------------------
LEMMA QuietStep == QuietInv /\ [QuietNext]_vars => QuietInv'
<1> SUFFICES ASSUME QuietInv, [QuietNext]_vars PROVE QuietInv'
    OBVIOUS
<1>1. TypeOK'
    BY TypeNext DEF QuietInv, QuietNext, Next
<1>2. CASE CallStep /\ WritersIdle /\ OneCall'
    BY <1>1, <1>2, CallKeeps DEF CallStep, AnyStep
<1>3. CASE HostStep /\ CallsIdle
    BY <1>1, <1>3, HostKeeps
<1>4. CASE UNCHANGED vars
  <2> USE <1>4 DEF vars, disk, calls, host, QuietInv
  <2>1. LogsApart' /\ ManifestsWhole' /\ Alone' /\ WritersLinked'
      BY DEF LogsApart, ManifestsWhole, Alone, OneCall, At, WritersIdle, WritersLinked
  <2>2. \A p \in Procs : SealProgress(p)' /\ UnsealProgress(p)'
      BY DEF SealProgress, UnsealProgress, LiveLog
  <2>3. \A r : Held(r) => Held(r)'
      BY DEF Held, InLog, InBlob
  <2>4. NothingLost'
      BY <2>3, LostNothing
  <2> QED
      BY <1>1, <2>1, <2>2, <2>4
<1> QED
    BY <1>2, <1>3, <1>4 DEF QuietNext

\* On a host that runs one call at a time and keeps its writers off the folder
\* meanwhile, every record it was told is written can be had from the plaintext
\* or the blob until it is erased, however many calls crash wherever they are.
THEOREM QuietLosesNothing == QuietSpec => []NothingLost
<1>1. QuietSpec => []QuietInv
    BY QuietInit, QuietStep, PTL DEF QuietSpec
<1>2. QuietInv => NothingLost
    BY DEF QuietInv
<1> QED
    BY <1>1, <1>2, PTL

\* Where writers keep off while a call runs, seal and append do serialise: what is
\* appended reaches the folder's memory. (The run of orphan has an appender that waits.)
THEOREM QuietAppendsReach == QuietSpec => AppendReachesMemory
<1>1. QuietInv /\ [QuietNext]_vars => [acked' \ acked \subseteq Plaintext' \cup Ciphertext']_vars
  <2> SUFFICES ASSUME QuietInv, QuietNext
               PROVE  acked' \ acked \subseteq Plaintext' \cup Ciphertext'
      OBVIOUS
  <2> USE DEF QuietInv, TypeOK
  <2>1. ASSUME NEW w \in Writers, WriterAppend(w)
        PROVE  acked' \ acked \subseteq Plaintext'
    <3>1. PICK s \in Slots : events[s] = wfd[w]
        BY <2>1 DEF WriterAppend, WritersLinked
    <3>2. events[s] # None /\ events'[s] = events[s] /\ wrec[w] \in data'[events[s]]
        BY <2>1, <3>1 DEF WriterAppend, HostType, DiskType
    <3>3. wrec[w] \in Plaintext'
        BY <3>2, PlainIs DEF InLog
    <3> QED
        BY <2>1, <3>3 DEF WriterAppend
  <2>2. ASSUME NEW r \in Records, SinkWrite(r) PROVE acked' \ acked \subseteq Plaintext'
      BY <2>2, PlainIs DEF SinkWrite
  <2>3. CASE UNCHANGED acked
      BY <2>3
  <2>4. ASSUME CallStep PROVE UNCHANGED acked
      BY <2>4 DEF CallStep, SealStep, UnsealStep, SealCheck, SealOpen, SealLock, SealSnapshot,
                  SealWriteTmp, SealPublish, SealUnlinkLog, SealRmdir, SealRmSinks, UnsealCheck,
                  UnsealVerify, UnsealDecrypt, UnsealMkdir, UnsealRestoreLog, UnsealRestoreSinks,
                  UnsealUnlink, UnsealApply, Raise, Crash
  <2> QED
      BY <2>1, <2>2, <2>3, <2>4 DEF QuietNext, HostStep, WriterOpen, MarkErase
<1> QED
    BY <1>1, QuietInit, QuietStep, PTL DEF QuietSpec, AppendReachesMemory

-----------------------------------------------------------------------------
(* A quiet host's Seal implements Vault: each of its steps copies records, gives up a *)
(* copy that is not the only one, or is the host's own write or erasure.              *)

\* What a call may erase is what the host marked, and while it does so the blob it
\* restored is gone.
Marked ==
    /\ pending \subseteq Erasable
    /\ \A p \in Procs : /\ marks[p] \subseteq Erasable
                        /\ pc[p] = "apply_markers" => blob[slot[p]] = None

VaultInv == QuietInv /\ Marked

-----------------------------------------------------------------------------
LEMMA CopiesAreRecords ==
    /\ TypeOK => Plaintext \subseteq Records /\ Ciphertext \subseteq Records
    /\ TypeOK' => Plaintext' \subseteq Records /\ Ciphertext' \subseteq Records
BY PlainIs, CipherIs DEF TypeOK, DiskType, InLog, InBlob, Manifest

-----------------------------------------------------------------------------
(* The steps of Vault, by what they do to the two copies. *)

LEMMA Unmoved ==
    ASSUME UNCHANGED <<Plaintext, Ciphertext>>
    PROVE  V!Next
<1>1. V!Restore({})
    BY DEF V!Restore
<1> QED
    BY <1>1 DEF V!Next

LEMMA Restored ==
    ASSUME TypeOK, TypeOK', Ciphertext' = Ciphertext,
           Plaintext \subseteq Plaintext', Plaintext' \subseteq Plaintext \cup Ciphertext
    PROVE  V!Next
<1>1. V!Restore(Plaintext' \ Plaintext)
    BY DEF V!Restore
<1> QED
    BY <1>1, CopiesAreRecords DEF V!Next

LEMMA Remembered ==
    ASSUME TypeOK, TypeOK', Ciphertext' = Ciphertext,
           NEW r \in Records, Plaintext' = Plaintext \cup {r}
    PROVE  V!Next
<1>1. CASE r \in Plaintext \cup Ciphertext
    BY <1>1, Restored
<1>2. CASE r \notin Plaintext \cup Ciphertext
  <2>1. V!Remember(r)
      BY <1>2 DEF V!Remember
  <2> QED
      BY <2>1 DEF V!Next
<1> QED
    BY <1>1, <1>2

LEMMA Shed ==
    ASSUME TypeOK, Ciphertext' = Ciphertext,
           Plaintext' \subseteq Plaintext, Plaintext \ Plaintext' \subseteq Ciphertext
    PROVE  V!Next
<1>1. V!Shed(Plaintext \ Plaintext')
    BY DEF V!Shed
<1> QED
    BY <1>1, CopiesAreRecords DEF V!Next

LEMMA Protected ==
    ASSUME TypeOK, TypeOK', Plaintext' = Plaintext,
           Ciphertext \subseteq Ciphertext', Ciphertext' \ Ciphertext \subseteq Plaintext
    PROVE  V!Next
<1>1. V!Protect(Ciphertext' \ Ciphertext)
    BY DEF V!Protect
<1> QED
    BY <1>1, CopiesAreRecords DEF V!Next

LEMMA Released ==
    ASSUME TypeOK, Plaintext' = Plaintext,
           Ciphertext' \subseteq Ciphertext, Ciphertext \ Ciphertext' \subseteq Plaintext
    PROVE  V!Next
<1>1. V!Release(Ciphertext \ Ciphertext')
    BY DEF V!Release
<1> QED
    BY <1>1, CopiesAreRecords DEF V!Next

LEMMA Erased ==
    ASSUME TypeOK, Ciphertext' = Ciphertext, Plaintext' \subseteq Plaintext,
           Plaintext \ Plaintext' \subseteq Erasable \ Ciphertext
    PROVE  V!Next
<1>1. V!Erase(Plaintext \ Plaintext')
    BY DEF V!Erase
<1> QED
    BY <1>1, CopiesAreRecords DEF V!Next

-----------------------------------------------------------------------------
(* Each step of a call. *)

LEMMA QuietCallSteps ==
    ASSUME VaultInv, NEW p \in Procs,
           \/ SealCheck(p) \/ SealLock(p) \/ SealSnapshot(p) \/ SealWriteTmp(p)
           \/ SealRmdir(p) \/ UnsealCheck(p) \/ UnsealVerify(p) \/ UnsealDecrypt(p)
           \/ UnsealMkdir(p) \/ Raise(p) \/ Crash(p)
    PROVE  V!Next
<1>1. UNCHANGED <<events, data, sinks, blob>>
    BY DEF SealCheck, SealLock, SealSnapshot, SealWriteTmp, SealRmdir, UnsealCheck,
           UnsealVerify, UnsealDecrypt, UnsealMkdir, Raise, Crash, disk
<1>2. UNCHANGED <<Plaintext, Ciphertext>>
    BY <1>1, PlainIs, CipherIs DEF InLog, InBlob
<1> QED
    BY <1>2, Unmoved DEF VaultInv, QuietInv

\* The file OpenEvents makes is empty.
LEMMA OpenKeepsCopies ==
    ASSUME TypeOK, NEW s \in Slots, NEW i \in Inodes, OpenEvents(s, i),
           UNCHANGED <<sinks, blob>>
    PROVE  UNCHANGED <<Plaintext, Ciphertext>>
<1>1. \A r : InLog(r)' <=> InLog(r)
    BY NoneAssumption DEF InLog, OpenEvents, FreeInodes, TypeOK, DiskType
<1> QED
    BY <1>1, PlainIs, CipherIs DEF InBlob

LEMMA SealOpenCopies ==
    ASSUME VaultInv, NEW p \in Procs, SealOpen(p)
    PROVE  V!Next
<1>1. UNCHANGED <<Plaintext, Ciphertext>>
    BY OpenKeepsCopies DEF VaultInv, QuietInv, TypeOK, CallType, SealOpen, At
<1> QED
    BY <1>1, Unmoved DEF VaultInv, QuietInv

LEMMA SealPublishCopies ==
    ASSUME VaultInv, TypeOK', NEW p \in Procs, SealPublish(p)
    PROVE  V!Next
<1> USE DEF VaultInv, QuietInv, TypeOK
<1>1. /\ slot[p] \in Slots /\ blob[slot[p]] = None /\ man[p] # None
      /\ blob' = [blob EXCEPT ![slot[p]] = man[p]]
      /\ LiveLog(slot[p]) = man[p].log /\ sinks = man[p].sinks
    BY DEF SealPublish, At, SealProgress, CallType, ManifestSteps, LockedSteps
<1>2. UNCHANGED <<events, data, sinks>>
    BY DEF SealPublish
<1>3. Plaintext' = Plaintext
    BY <1>2, PlainIs DEF InLog
<1>4. Ciphertext \subseteq Ciphertext'
    BY <1>1, CipherIs DEF InBlob, DiskType
<1>5. man[p].log \cup man[p].sinks \subseteq Plaintext
    BY <1>1, PlainIs DEF InLog, LiveLog
<1>6. Ciphertext' \ Ciphertext \subseteq man[p].log \cup man[p].sinks
    BY <1>1, CipherIs DEF InBlob, DiskType
<1> QED
    BY <1>3, <1>4, <1>5, <1>6, Protected

LEMMA SealUnlinkLogCopies ==
    ASSUME VaultInv, NEW p \in Procs, SealUnlinkLog(p)
    PROVE  V!Next
<1> USE DEF VaultInv, QuietInv, TypeOK
<1>1. /\ slot[p] \in Slots /\ blob[slot[p]] = man[p] /\ man[p] # None
      /\ LiveLog(slot[p]) = man[p].log
    BY DEF SealUnlinkLog, At, SealProgress, CallType, ManifestSteps, LockedSteps
<1>2. UNCHANGED <<data, sinks, blob>> /\ events' = [events EXCEPT ![slot[p]] = None]
    BY DEF SealUnlinkLog
<1>3. Ciphertext' = Ciphertext
    BY <1>2, CipherIs DEF InBlob
<1>4. \A r : InLog(r)' => InLog(r)
    BY <1>2 DEF InLog, DiskType
<1>5. \A r : InLog(r) /\ ~InLog(r)' => r \in LiveLog(slot[p])
    BY <1>2 DEF InLog, LiveLog, DiskType
<1>6. \A r \in LiveLog(slot[p]) : InBlob(r)
    BY <1>1 DEF InBlob
<1> QED
    BY <1>2, <1>3, <1>4, <1>5, <1>6, PlainIs, CipherIs, Shed

LEMMA SealRmSinksCopies ==
    ASSUME VaultInv, NEW p \in Procs, SealRmSinks(p)
    PROVE  V!Next
<1> USE DEF VaultInv, QuietInv, TypeOK
<1>1. /\ slot[p] \in Slots /\ blob[slot[p]] = man[p] /\ man[p] # None
      /\ sinks = man[p].sinks
    BY DEF SealRmSinks, At, SealProgress, CallType, ManifestSteps, LockedSteps
<1>2. UNCHANGED <<events, data, blob>> /\ sinks' \subseteq sinks
    BY DEF SealRmSinks
<1>3. Ciphertext' = Ciphertext /\ \A r : InLog(r)' <=> InLog(r)
    BY <1>2, CipherIs DEF InBlob, InLog
<1>4. \A r \in sinks : InBlob(r)
    BY <1>1 DEF InBlob
<1> QED
    BY <1>2, <1>3, <1>4, PlainIs, CipherIs, Shed

LEMMA UnsealRestoreLogCopies ==
    ASSUME VaultInv, TypeOK', NEW p \in Procs, UnsealRestoreLog(p)
    PROVE  V!Next
<1> USE DEF VaultInv, QuietInv, TypeOK
<1>1. /\ slot[p] \in Slots /\ events[slot[p]] = None
      /\ blob[slot[p]] = man[p] /\ man[p] # None
    BY DEF UnsealRestoreLog, At, CallType, UnsealProgress, ManifestSteps, LockedSteps, UnsealSteps
<1>2. \/ UNCHANGED <<events, data>>
      \/ \E i \in FreeInodes : /\ events' = [events EXCEPT ![slot[p]] = i]
                               /\ data' = [data EXCEPT ![i] = man[p].log]
    BY <1>1, NoneAssumption DEF UnsealRestoreLog
<1>3. UNCHANGED <<sinks, blob>>
    BY DEF UnsealRestoreLog
<1>4. Ciphertext' = Ciphertext
    BY <1>3, CipherIs DEF InBlob
<1>5. \A r : InLog(r) => InLog(r)'
    BY <1>1, <1>2 DEF InLog, FreeInodes, DiskType
<1>6. \A r : InLog(r)' => InLog(r) \/ r \in man[p].log
    BY <1>1, <1>2 DEF InLog, FreeInodes, DiskType
<1>7. \A r \in man[p].log : InBlob(r)
    BY <1>1 DEF InBlob
<1> QED
    BY <1>3, <1>4, <1>5, <1>6, <1>7, PlainIs, CipherIs, Restored

LEMMA UnsealRestoreSinksCopies ==
    ASSUME VaultInv, TypeOK', NEW p \in Procs, UnsealRestoreSinks(p)
    PROVE  V!Next
<1> USE DEF VaultInv, QuietInv, TypeOK
<1>1. /\ slot[p] \in Slots /\ sinks = {}
      /\ blob[slot[p]] = man[p] /\ man[p] # None
    BY DEF UnsealRestoreSinks, At, CallType, UnsealProgress, ManifestSteps, LockedSteps, UnsealSteps
<1>2. UNCHANGED <<events, data, blob>> /\ sinks' = man[p].sinks
    BY <1>1 DEF UnsealRestoreSinks
<1>3. Ciphertext' = Ciphertext /\ \A r : InLog(r)' <=> InLog(r)
    BY <1>2, CipherIs DEF InBlob, InLog
<1>4. \A r \in man[p].sinks : InBlob(r)
    BY <1>1 DEF InBlob
<1> QED
    BY <1>1, <1>2, <1>3, <1>4, PlainIs, CipherIs, Restored

LEMMA UnsealUnlinkCopies ==
    ASSUME VaultInv, NEW p \in Procs, UnsealUnlink(p)
    PROVE  V!Next
<1> USE DEF VaultInv, QuietInv, TypeOK
<1>1. /\ slot[p] \in Slots /\ blob[slot[p]] = man[p] /\ man[p] # None
      /\ LiveLog(slot[p]) = man[p].log /\ sinks = man[p].sinks
    BY DEF UnsealUnlink, At, UnsealProgress, CallType, ManifestSteps, LockedSteps, UnsealSteps
<1>2. UNCHANGED <<events, data, sinks>> /\ blob' = [blob EXCEPT ![slot[p]] = None]
    BY DEF UnsealUnlink
<1>3. Plaintext' = Plaintext
    BY <1>2, PlainIs DEF InLog
<1>4. \A r : InBlob(r)' => InBlob(r)
    BY <1>1, <1>2 DEF InBlob, DiskType
<1>5. \A r : InBlob(r) /\ ~InBlob(r)' => r \in man[p].log \cup man[p].sinks
    BY <1>1, <1>2 DEF InBlob, DiskType
<1>6. man[p].log \cup man[p].sinks \subseteq Plaintext
    BY <1>1, PlainIs DEF InLog, LiveLog
<1> QED
    BY <1>3, <1>4, <1>5, <1>6, CipherIs, Released

\* The one step that takes a record away for good: with nothing under an old name there is
\* no blob left then.
LEMMA UnsealApplyCopies ==
    ASSUME VaultInv, Erasable = {} \/ OneNamed, NEW p \in Procs, UnsealApply(p)
    PROVE  V!Next
<1> USE DEF VaultInv, QuietInv, TypeOK
<1>1. slot[p] \in Slots /\ blob[slot[p]] = None /\ marks[p] \subseteq Erasable
    BY DEF UnsealApply, At, Marked, CallType
<1>2. /\ UNCHANGED <<events, blob>> /\ sinks' = sinks \ marks[p]
      /\ data' = [i \in Inodes |-> IF i = events[slot[p]] THEN data[i] \ marks[p] ELSE data[i]]
    BY DEF UnsealApply
<1>3. Ciphertext' = Ciphertext
    BY <1>2, CipherIs DEF InBlob
<1>4. \A r : InLog(r)' => InLog(r)
    BY <1>2 DEF InLog, DiskType
<1>5. \A r : InLog(r) /\ ~InLog(r)' => r \in marks[p]
    BY <1>2 DEF InLog, DiskType
<1>6. Plaintext' \subseteq Plaintext /\ Plaintext \ Plaintext' \subseteq marks[p]
    BY <1>2, <1>4, <1>5, PlainIs
<1>7. marks[p] = {} \/ Ciphertext = {}
  <2>1. CASE Erasable = {}
      BY <1>1, <2>1
  <2>2. CASE OneNamed
    <3>1. slot[p] = Primary
        BY <1>1, <2>2, NoneAssumption DEF OneNamed
    <3>2. \A s \in Slots : blob[s] = None
        BY <1>1, <2>2, <3>1 DEF OneNamed
    <3> QED
        BY <3>2, CipherIs DEF InBlob
  <2> QED
      BY <2>1, <2>2
<1> QED
    BY <1>1, <1>3, <1>6, <1>7, Erased

-----------------------------------------------------------------------------
LEMMA CallCopies ==
    ASSUME VaultInv, TypeOK', Erasable = {} \/ OneNamed,
           NEW p \in Procs, AnyStep(p)
    PROVE  V!Next
BY QuietCallSteps, SealOpenCopies, SealPublishCopies, SealUnlinkLogCopies, SealRmSinksCopies,
   UnsealRestoreLogCopies, UnsealRestoreSinksCopies, UnsealUnlinkCopies, UnsealApplyCopies
   DEF AnyStep, SealStep, UnsealStep

LEMMA HostCopies ==
    ASSUME VaultInv, TypeOK', HostStep
    PROVE  V!Next
<1> USE DEF VaultInv, QuietInv, TypeOK
<1>1. CASE \E w \in Writers, r \in Records : WriterOpen(w, r)
  <2>1. UNCHANGED <<Plaintext, Ciphertext>>
      BY <1>1, ResolveType, OpenKeepsCopies DEF WriterOpen
  <2> QED
      BY <2>1, Unmoved
<1>2. CASE \E w \in Writers : WriterAppend(w)
  <2>1. PICK w \in Writers : WriterAppend(w)
      BY <1>2
  <2>2. PICK s \in Slots : events[s] = wfd[w] /\ wfd[w] \in Inodes /\ wfd[w] # None
      BY <2>1 DEF WriterAppend, WritersLinked, HostType
  <2>3. PICK r \in Records : r = wrec[w]
      BY <2>1 DEF WriterAppend, HostType
  <2>4. /\ UNCHANGED <<events, sinks, blob>>
        /\ data' = [data EXCEPT ![events[s]] = @ \cup {r}]
      BY <2>1, <2>2, <2>3 DEF WriterAppend
  <2>5. \A q : InLog(q)' <=> InLog(q) \/ q = r
      BY <2>2, <2>4 DEF InLog, DiskType
  <2>6. Ciphertext' = Ciphertext /\ Plaintext' = Plaintext \cup {r}
      BY <2>4, <2>5, PlainIs, CipherIs DEF InBlob
  <2> QED
      BY <2>6, Remembered
<1>3. CASE \E r \in Records : SinkWrite(r)
  <2>1. PICK r \in Records : SinkWrite(r)
      BY <1>3
  <2>2. Ciphertext' = Ciphertext /\ Plaintext' = Plaintext \cup {r}
      BY <2>1, PlainIs, CipherIs DEF SinkWrite, InLog, InBlob
  <2> QED
      BY <2>2, Remembered
<1>4. CASE \E r \in Records : MarkErase(r)
  <2>1. UNCHANGED <<Plaintext, Ciphertext>>
      BY <1>4, PlainIs, CipherIs DEF MarkErase, InLog, InBlob
  <2> QED
      BY <2>1, Unmoved
<1> QED
    BY <1>1, <1>2, <1>3, <1>4 DEF HostStep

-----------------------------------------------------------------------------
LEMMA CallMarks ==
    ASSUME VaultInv, TypeOK', WritersIdle, OneCall', NEW p \in Procs, AnyStep(p)
    PROVE  Marked'
<1> USE DEF VaultInv, QuietInv, TypeOK, Marked
<1>1. /\ pending' \subseteq pending
      /\ \A q \in Procs : marks'[q] \subseteq marks[q] \cup pending
  <2> USE DEF CallType, Leave, disk
  <2>1. CASE SealStep(p)
      BY <2>1 DEF SealStep, SealCheck, SealOpen, SealLock, SealSnapshot, SealWriteTmp,
                  SealPublish, SealUnlinkLog, SealRmdir, SealRmSinks
  <2>2. CASE UnsealStep(p)
      BY <2>2 DEF UnsealStep, UnsealCheck, UnsealVerify, UnsealDecrypt, UnsealMkdir,
                  UnsealRestoreLog, UnsealRestoreSinks, UnsealUnlink, UnsealApply
  <2>3. CASE Raise(p) \/ Crash(p)
      BY <2>3 DEF Raise, Crash
  <2> QED
      BY <2>1, <2>2, <2>3 DEF AnyStep
<1>2. \A q \in Procs : q # p => pc'[q] = "idle"
    BY StepAlone
<1>3. pc'[p] = "apply_markers" => blob'[slot'[p]] = None
  <2> USE DEF At, Goto, Leave, CallType, DiskType
  <2>1. CASE SealStep(p)
      BY <2>1 DEF SealStep, SealCheck, SealOpen, SealLock, SealSnapshot, SealWriteTmp,
                  SealPublish, SealUnlinkLog, SealRmdir, SealRmSinks
  <2>2. CASE UnsealUnlink(p)
      BY <2>2 DEF UnsealUnlink
  <2>3. CASE UnsealStep(p) /\ ~UnsealUnlink(p)
      BY <2>3 DEF UnsealStep, UnsealCheck, UnsealVerify, UnsealDecrypt, UnsealMkdir,
                  UnsealRestoreLog, UnsealRestoreSinks, UnsealApply
  <2>4. CASE Raise(p) \/ Crash(p)
      BY <2>4 DEF Raise, Crash
  <2> QED
      BY <2>1, <2>2, <2>3, <2>4 DEF AnyStep
<1> QED
    BY <1>1, <1>2, <1>3

LEMMA HostMarks == ASSUME Marked, HostStep PROVE Marked'
BY DEF Marked, HostStep, WriterOpen, WriterAppend, SinkWrite, MarkErase, calls

LEMMA VaultInit == Init => VaultInv /\ V!Init
<1>1. ASSUME Init PROVE Marked
    BY <1>1 DEF Init, Marked
<1>2. ASSUME Init PROVE V!Init
  <2>1. \A r : r \notin Plaintext /\ r \notin Ciphertext
      BY <1>2, PlainIs, CipherIs DEF Init, InLog, InBlob
  <2> QED
      BY <2>1 DEF V!Init
<1> QED
    BY <1>1, <1>2, QuietInit DEF VaultInv

LEMMA VaultStep ==
    ASSUME Erasable = {} \/ OneNamed, VaultInv, [QuietNext]_vars
    PROVE  VaultInv' /\ [V!Next]_V!vars
<1>1. QuietInv' /\ TypeOK'
    BY QuietStep DEF VaultInv, QuietInv
<1>2. CASE CallStep /\ WritersIdle /\ OneCall'
    BY <1>1, <1>2, CallCopies, CallMarks DEF CallStep, AnyStep, VaultInv
<1>3. CASE HostStep /\ CallsIdle
    BY <1>1, <1>3, HostCopies, HostMarks DEF VaultInv
<1>4. CASE UNCHANGED vars
  <2> USE <1>4 DEF vars, disk, calls
  <2>1. Marked'
      BY DEF VaultInv, Marked
  <2>2. UNCHANGED <<Plaintext, Ciphertext>>
      BY PlainIs, CipherIs DEF InLog, InBlob
  <2> QED
      BY <1>1, <2>1, <2>2 DEF VaultInv, V!vars
<1> QED
    BY <1>2, <1>3, <1>4 DEF QuietNext

\* On a quiet host sealing is a vault, for any number of records, files, keys and
\* writers and with a crash anywhere, in a folder that no older version has named, or
\* where nothing is erased: a record erased under the new name may be in a blob of the
\* old one.
THEOREM QuietImplementsVault ==
    QuietSpec /\ (Erasable = {} \/ NewFolder) => ImplementsVault
<1> DEFINE Named == Erasable = {} \/ OneNamed
<1>1. Init /\ (Erasable = {} \/ NewFolder) => VaultInv /\ Named /\ V!Init
    BY VaultInit, OneNamedInit
<1>2. VaultInv /\ Named /\ [QuietNext]_vars => VaultInv' /\ Named' /\ [V!Next]_V!vars
  <2> SUFFICES ASSUME VaultInv, Named, [QuietNext]_vars
               PROVE  VaultInv' /\ Named' /\ [V!Next]_V!vars
      OBVIOUS
  <2>1. [Next]_vars /\ TypeOK
      BY DEF QuietNext, Next, VaultInv, QuietInv
  <2>2. Named'
      BY <2>1, OneNamedStep
  <2> QED
      BY <2>2, VaultStep
<1> HIDE DEF Named
<1> QED
    BY <1>1, <1>2, PTL DEF QuietSpec, ImplementsVault, V!Spec

\* A record that one of the copies has and that the host may not erase.
Kept == \A r \in Records \ Erasable :
            r \in Plaintext \cup Ciphertext => r \in Plaintext' \cup Ciphertext'

\* What being a vault buys, whoever is one.
LEMMA VaultsKeep == ImplementsVault => [][Kept]_vars
<1>1. [V!Next]_V!vars => [Kept]_vars
  <2> USE DEF V!vars, Kept
  <2> SUFFICES ASSUME [V!Next]_V!vars, NEW r \in Records \ Erasable,
                      r \in Plaintext \cup Ciphertext
               PROVE  r \in Plaintext' \cup Ciphertext'
      OBVIOUS
  <2>1. CASE \E q \in Records : V!Remember(q)
      BY <2>1 DEF V!Remember
  <2>2. CASE \E R \in SUBSET Records :
                V!Protect(R) \/ V!Shed(R) \/ V!Restore(R) \/ V!Release(R) \/ V!Erase(R)
      BY <2>2 DEF V!Protect, V!Shed, V!Restore, V!Release, V!Erase
  <2> QED
      BY <2>1, <2>2 DEF V!Next
<1> QED
    BY <1>1, PTL DEF ImplementsVault, V!Spec
\* No step of a quiet host, nor a crash between two, takes the last copy of a record that
\* may not be erased, whether or not its write has returned.
THEOREM QuietKeepsRecords ==
    QuietSpec /\ (Erasable = {} \/ NewFolder) => [][Kept]_vars
BY QuietImplementsVault, VaultsKeep, PTL
===========================================================================
