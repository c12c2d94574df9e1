---------------------------- MODULE SealProofs ----------------------------
(***************************************************************************)
(* TLAPS proofs about Seal: types in every behaviour; the one name of a     *)
(* folder without a legacy directory; and what is erased and what is        *)
(* removed where the host runs one call at a time (SerialSpec).             *)
(***************************************************************************)
EXTENDS SealInv, TLAPS

USE NoneAssumption, ErasableAssumption DEF Slots

-----------------------------------------------------------------------------
(* Type correctness, under no assumption on the host. *)

LEMMA ResolveType == Resolve \in Slots
BY DEF Resolve

LEMMA ManifestNotNone == None \notin Manifest
BY NoneAssumption DEF Manifest

LEMMA LeaveType ==
    ASSUME CallType, NEW p \in Procs, Leave(p)
    PROVE  CallType'
<1>1. pc' \in [Procs -> {"idle"} \cup SealSteps \cup UnsealSteps]
    BY DEF CallType, Leave, Goto
<1>2. flock' \in [Inodes -> Procs \cup {None}]
    BY DEF CallType, Leave
<1>3. /\ slot' \in [Procs -> Slots \cup {None}]
      /\ fd' \in [Procs -> Inodes \cup {None}]
      /\ man' \in [Procs -> Manifest \cup {None}]
      /\ marks' \in [Procs -> SUBSET Records]
    BY DEF CallType, Leave
<1>4. ASSUME NEW q \in Procs, NEW i \in Inodes
      PROVE  flock'[i] = q <=> pc'[q] \in LockedSteps /\ fd'[q] = i
    BY DEF CallType, Leave, Goto, LockedSteps
<1>5. ASSUME NEW q \in Procs
      PROVE  /\ pc'[q] # "idle" => slot'[q] \in Slots
             /\ fd'[q] # None <=> pc'[q] \in LockedSteps \cup {"lock"}
             /\ man'[q] # None <=> pc'[q] \in ManifestSteps
    BY DEF CallType, Leave, Goto, LockedSteps, ManifestSteps, UnsealSteps
<1> QED
    BY <1>1, <1>2, <1>3, <1>4, <1>5 DEF CallType

LEMMA TypeInit == Init => TypeOK
<1> SUFFICES ASSUME Init PROVE TypeOK
    OBVIOUS
<1> QED
    BY
       DEF Init, TypeOK, DiskType, CallType, HostType, LockedSteps, ManifestSteps,
           UnsealSteps, Manifest

LEMMA TypeNext == TypeOK /\ [Next]_vars => TypeOK'
<1> SUFFICES ASSUME TypeOK, [Next]_vars PROVE TypeOK'
    OBVIOUS
<1> USE ResolveType DEF At, Goto, disk, calls, host
<1>1. ASSUME NEW p \in Procs, SealStep(p) PROVE TypeOK'
  <2>1. CASE SealCheck(p)
    BY <2>1
       DEF TypeOK, DiskType, CallType, HostType, SealCheck, Manifest, SealSteps,
           UnsealSteps, LockedSteps, ManifestSteps
  <2>2. CASE SealOpen(p)
    BY <2>2
       DEF TypeOK, DiskType, CallType, HostType, SealOpen, OpenEvents, Manifest, SealSteps,
           UnsealSteps, LockedSteps, ManifestSteps
  <2>3. CASE SealLock(p)
    BY <2>3
       DEF TypeOK, DiskType, CallType, HostType, SealLock, Manifest, SealSteps,
           UnsealSteps, LockedSteps, ManifestSteps
  <2>4. CASE SealSnapshot(p)
    <3>1. PICK k \in Keys :
             man' = [man EXCEPT ![p] = [key    |-> k,
                                        logged |-> events[slot[p]] # None,
                                        log    |-> LiveLog(slot[p]),
                                        sinks  |-> sinks]]
        BY <2>4 DEF SealSnapshot
    <3>2. slot[p] \in Slots
        BY <2>4 DEF TypeOK, CallType, SealSnapshot
    <3>3. LiveLog(slot[p]) \in SUBSET Records
        BY <3>2 DEF TypeOK, DiskType, LiveLog
    <3>4. man'[p] \in Manifest
        BY <3>1, <3>3 DEF TypeOK, DiskType, CallType, Manifest
    <3>5. /\ man' \in [Procs -> Manifest \cup {None}]
          /\ \A q \in Procs : q # p => man'[q] = man[q]
        BY <3>1, <3>4 DEF TypeOK, CallType
    <3> QED
        BY <2>4, <3>4, <3>5, ManifestNotNone
           DEF TypeOK, DiskType, CallType, HostType, SealSnapshot, SealSteps, UnsealSteps,
               LockedSteps, ManifestSteps
  <2>5. CASE SealWriteTmp(p)
    BY <2>5
       DEF TypeOK, DiskType, CallType, HostType, SealWriteTmp, Manifest, SealSteps,
           UnsealSteps, LockedSteps, ManifestSteps
  <2>6. CASE SealPublish(p)
    BY <2>6
       DEF TypeOK, DiskType, CallType, HostType, SealPublish, Manifest, SealSteps,
           UnsealSteps, LockedSteps, ManifestSteps
  <2>7. CASE SealUnlinkLog(p)
    BY <2>7
       DEF TypeOK, DiskType, CallType, HostType, SealUnlinkLog, Manifest, SealSteps,
           UnsealSteps, LockedSteps, ManifestSteps
  <2>8. CASE SealRmdir(p)
    BY <2>8
       DEF TypeOK, DiskType, CallType, HostType, SealRmdir, Manifest, SealSteps,
           UnsealSteps, LockedSteps, ManifestSteps
  <2>9. CASE SealRmSinks(p)
    <3>1. CallType'
        BY <2>9, LeaveType DEF SealRmSinks, TypeOK
    <3> QED
        BY <2>9, <3>1 DEF TypeOK, DiskType, HostType, SealRmSinks
  <2> QED
    BY <1>1, <2>1, <2>2, <2>3, <2>4, <2>5, <2>6, <2>7, <2>8, <2>9 DEF SealStep
<1>2. ASSUME NEW p \in Procs, UnsealStep(p) PROVE TypeOK'
  <2>1. CASE UnsealCheck(p)
    BY <2>1
       DEF TypeOK, DiskType, CallType, HostType, UnsealCheck, Manifest, SealSteps,
           UnsealSteps, LockedSteps, ManifestSteps
  <2>2. CASE UnsealVerify(p)
    BY <2>2
       DEF TypeOK, DiskType, CallType, HostType, UnsealVerify, Manifest, SealSteps,
           UnsealSteps, LockedSteps, ManifestSteps
  <2>3. CASE UnsealDecrypt(p)
    BY <2>3
       DEF TypeOK, DiskType, CallType, HostType, UnsealDecrypt, Manifest, SealSteps,
           UnsealSteps, LockedSteps, ManifestSteps
  <2>4. CASE UnsealMkdir(p)
    BY <2>4
       DEF TypeOK, DiskType, CallType, HostType, UnsealMkdir, Manifest, SealSteps,
           UnsealSteps, LockedSteps, ManifestSteps
  <2>5. CASE UnsealRestoreLog(p)
    <3>1. /\ man[p] \in Manifest
          /\ slot[p] \in Slots
        BY <2>5 DEF TypeOK, CallType, UnsealRestoreLog, ManifestSteps, LockedSteps, UnsealSteps
    <3>2. man[p].log \in SUBSET Records
        BY <3>1 DEF Manifest
    <3>3. /\ dir' \in [Slots -> BOOLEAN]
          /\ events' \in [Slots -> Inodes \cup {None}]
          /\ data' \in [Inodes -> SUBSET Records]
      <4>1. CASE ~man[p].logged
          BY <2>5, <4>1 DEF TypeOK, DiskType, UnsealRestoreLog
      <4>2. CASE man[p].logged
        <5>1. PICK i \in Inodes :
                 /\ dir' = [dir EXCEPT ![slot[p]] = TRUE]
                 /\ events' = [events EXCEPT ![slot[p]] = i]
                 /\ data' = [data EXCEPT ![i] = man[p].log]
            BY <2>5, <4>2 DEF UnsealRestoreLog
        <5> QED
            BY <3>1, <3>2, <5>1 DEF TypeOK, DiskType
      <4> QED
          BY <4>1, <4>2
    <3>4. DiskType'
        BY <2>5, <3>3 DEF TypeOK, DiskType, UnsealRestoreLog
    <3>5. CallType'
        BY <2>5 DEF TypeOK, CallType, UnsealRestoreLog, SealSteps, UnsealSteps, LockedSteps,
                    ManifestSteps
    <3> QED
        BY <2>5, <3>4, <3>5 DEF TypeOK, HostType, UnsealRestoreLog
  <2>6. CASE UnsealRestoreSinks(p)
    <3>1. man[p] \in Manifest
        BY <2>6 DEF TypeOK, CallType, UnsealRestoreSinks, ManifestSteps, LockedSteps, UnsealSteps
    <3>2. sinks' \in SUBSET Records
        BY <2>6, <3>1 DEF TypeOK, DiskType, UnsealRestoreSinks, Manifest
    <3> QED
        BY <2>6, <3>2
           DEF TypeOK, DiskType, CallType, HostType, UnsealRestoreSinks, SealSteps,
               UnsealSteps, LockedSteps, ManifestSteps
  <2>7. CASE UnsealUnlink(p)
    <3>1. CASE Leave(p)
      <4>1. CallType'
          BY <3>1, LeaveType DEF TypeOK
      <4> QED
          BY <2>7, <4>1 DEF TypeOK, DiskType, HostType, UnsealUnlink, Manifest
    <3>2. CASE Goto(p, "apply_markers") /\ UNCHANGED <<flock, slot, fd, man, marks>>
        BY <2>7, <3>2 DEF TypeOK, DiskType, CallType, HostType, UnsealUnlink, Manifest,
                          SealSteps, UnsealSteps, LockedSteps, ManifestSteps
    <3> QED
        BY <2>7, <3>1, <3>2 DEF UnsealUnlink
  <2>8. CASE UnsealApply(p)
    <3>1. CallType'
        BY <2>8, LeaveType DEF UnsealApply, TypeOK
    <3>2. marks[p] \in SUBSET Records
        BY DEF TypeOK, CallType
    <3>3. data' \in [Inodes -> SUBSET Records]
        BY <2>8 DEF TypeOK, DiskType, UnsealApply
    <3>4. DiskType'
        BY <2>8, <3>3 DEF TypeOK, DiskType, UnsealApply
    <3>5. HostType'
        BY <2>8, <3>2 DEF TypeOK, HostType, UnsealApply
    <3> QED
        BY <3>1, <3>4, <3>5 DEF TypeOK
  <2> QED
    BY <1>2, <2>1, <2>2, <2>3, <2>4, <2>5, <2>6, <2>7, <2>8 DEF UnsealStep
<1>3. ASSUME NEW p \in Procs, Raise(p) \/ Crash(p) PROVE TypeOK'
  <2>1. CallType'
      BY <1>3, LeaveType DEF Raise, Crash, TypeOK
  <2> QED
      BY <1>3, <2>1 DEF TypeOK, DiskType, HostType, Raise, Crash
<1>4. ASSUME NEW w \in Writers, NEW r \in Records, WriterOpen(w, r) PROVE TypeOK'
    BY <1>4 DEF TypeOK, DiskType, CallType, HostType, WriterOpen, OpenEvents
<1>5. ASSUME NEW w \in Writers, WriterAppend(w) PROVE TypeOK'
    BY <1>5 DEF TypeOK, DiskType, CallType, HostType, WriterAppend
<1>6. ASSUME NEW r \in Records, SinkWrite(r) \/ MarkErase(r) PROVE TypeOK'
    BY <1>6 DEF TypeOK, DiskType, CallType, HostType, SinkWrite, MarkErase
<1>7. CASE UNCHANGED vars
    BY <1>7 DEF TypeOK, DiskType, CallType, HostType, vars
<1> QED
    BY <1>1, <1>2, <1>3, <1>4, <1>5, <1>6, <1>7 DEF Next, CallStep, HostStep

\* Every variable keeps its type, and a call holds a lock, a file and a manifest
\* exactly at the steps where seal.py has them in hand.
THEOREM TypeCorrect == Spec => []TypeOK
BY TypeInit, TypeNext, PTL DEF Spec

-----------------------------------------------------------------------------
(* Erasure, with appenders beside a call (SerialSpec). *)

\* A blob and a temporary file are never of the same folder, and a call that erases
\* has neither left.
Unmixed ==
    /\ \A s \in Slots : blob[s] # None => tmp[s] = None
    /\ \A p \in Procs :
          /\ pc[p] \in {"open", "lock", "snapshot", "write_tmp", "publish"}
                => blob[slot[p]] = None
          /\ pc[p] \in UnsealSteps => tmp[slot[p]] = None
          /\ pc[p] = "apply_markers" => blob[slot[p]] = None

\* What is or will be erased has been written, and what is still to be written has not.
Written ==
    /\ \A p \in Procs : marks[p] \subseteq acked
    /\ pending \subseteq acked
    /\ erased \subseteq acked
    /\ \A w \in Writers : wrec[w] # None => wrec[w] \notin acked
    /\ \A v, w \in Writers : v # w /\ wrec[v] # None => wrec[v] # wrec[w]

\* Where the log directory has two names, only a folder under the new one is ever found
\* without its directory: by the first unseal, and so by the first erasure, nothing is
\* under the old name any more, and no call works there.
Renamed ==
    Primary # Legacy /\ (erased # {} \/ \E p \in Procs : pc[p] \in UnsealSteps) =>
        /\ ~dir[Legacy]
        /\ \A p \in Procs : pc[p] # "idle" => slot[p] = Primary

\* No file under the new name has a record that was erased, nor has a call in progress.
Gone ==
    /\ erased \cap sinks = {}
    /\ erased \cap LiveLog(Primary) = {}
    /\ erased \cap Contents(blob[Primary]) = {} /\ erased \cap Contents(tmp[Primary]) = {}
    /\ \A p \in Procs : erased \cap Contents(man[p]) = {}

EraseInv == TypeOK /\ OneCall /\ Unmixed /\ Written /\ Renamed /\ Gone

LEMMA EraseInit == Init => EraseInv
<1> SUFFICES ASSUME Init PROVE EraseInv
    OBVIOUS
<1>1. TypeOK
    BY TypeInit
<1> QED
    BY <1>1 DEF Init, EraseInv, OneCall, At, Unmixed, Written, Renamed, Gone, UnsealSteps,
                LiveLog, Contents, Slots

LEMMA LeaveMan ==
    ASSUME CallType, NEW p \in Procs, Leave(p)
    PROVE  /\ \A q \in Procs : man'[q] \in {man[q], None} /\ marks'[q] \in {marks[q], {}}
           /\ pc'[p] = "idle" /\ \A q \in Procs : q # p => pc'[q] = pc[q] /\ slot'[q] = slot[q]
BY DEF CallType, Leave, Goto

LEMMA WhereErased ==
    ASSUME EraseInv
    PROVE  /\ Primary \in Slots /\ Legacy \in Slots
           /\ \A p \in Procs : pc[p] \in UnsealSteps => slot[p] = Primary
           /\ \A p \in Procs : erased # {} /\ pc[p] # "idle" => slot[p] = Primary
           /\ erased # {} => Resolve = Primary
BY DEF EraseInv, TypeOK, CallType, Renamed, Resolve, Slots, UnsealSteps

\* A step of a call that is under way: it goes on under its name, makes no other
\* directory, and erases only in an unseal.
LEMMA CallGoesOn ==
    ASSUME TypeOK, NEW p \in Procs, pc[p] # "idle",
           SealStep(p) \/ UnsealStep(p) \/ Raise(p) \/ Crash(p)
    PROVE  /\ \A q \in Procs : q # p => pc'[q] = pc[q] /\ slot'[q] = slot[q]
           /\ pc'[p] # "idle" => slot'[p] = slot[p]
           /\ pc'[p] \in UnsealSteps => pc[p] \in UnsealSteps
           /\ erased' # erased => pc[p] \in UnsealSteps
           /\ \A s \in Slots : s # slot[p] /\ ~dir[s] => ~dir'[s]
           /\ pc[p] \notin UnsealSteps => \A s \in Slots : ~dir[s] => ~dir'[s]
<1> USE DEF TypeOK, At, Goto, Leave, CallType, DiskType, disk, UnsealSteps
<1>1. CASE SealStep(p)
    BY <1>1 DEF SealStep, SealCheck, SealOpen, SealLock, SealSnapshot, SealWriteTmp,
                SealPublish, SealUnlinkLog, SealRmdir, SealRmSinks
<1>2. CASE UnsealStep(p)
    BY <1>2 DEF UnsealStep, UnsealCheck, UnsealVerify, UnsealDecrypt, UnsealMkdir,
                UnsealRestoreLog, UnsealRestoreSinks, UnsealUnlink, UnsealApply
<1>3. CASE Raise(p) \/ Crash(p)
    BY <1>3 DEF Raise, Crash
<1> QED
    BY <1>1, <1>2, <1>3

\* No step makes a directory of the old name where there is none.
LEMMA RenamedStays ==
    ASSUME EraseInv, SerialNext
    PROVE  Renamed'
<1> USE DEF EraseInv
<1> SUFFICES ASSUME Primary # Legacy PROVE Renamed'
    BY DEF Renamed
<1>0. Primary \in Slots /\ Legacy \in Slots
    BY DEF Slots
<1>1. ASSUME NEW p \in Procs, SealCheck(p) \/ UnsealCheck(p)
      PROVE  Renamed'
  <2>1. /\ UNCHANGED <<dir, erased>> /\ slot'[p] = Resolve
        /\ pc'[p] \in UnsealSteps => ~dir[Resolve]
        /\ pc'[p] # "idle"
      BY <1>1 DEF SealCheck, UnsealCheck, At, Goto, disk, TypeOK, CallType, UnsealSteps
  <2>2. \A q \in Procs : q # p => pc'[q] = "idle"
      BY <2>1 DEF SerialNext, OneCall, At
  <2>3. /\ ~dir[Legacy] => Resolve = Primary
        /\ pc'[p] \in UnsealSteps => ~dir[Legacy]
      BY <2>1 DEF Resolve
  <2> QED
      BY <2>1, <2>2, <2>3 DEF Renamed, UnsealSteps
<1>2. ASSUME NEW p \in Procs, pc[p] # "idle",
             SealStep(p) \/ UnsealStep(p) \/ Raise(p) \/ Crash(p)
      PROVE  Renamed'
    BY <1>0, <1>2, CallGoesOn DEF Renamed
<1>3. CASE CallStep
  <2>1. ASSUME NEW p \in Procs, SealStep(p) \/ UnsealStep(p) \/ Raise(p) \/ Crash(p), pc[p] = "idle"
        PROVE  SealCheck(p) \/ UnsealCheck(p)
      BY <2>1 DEF SealStep, SealOpen, SealLock, SealSnapshot, SealWriteTmp, SealPublish,
                  SealUnlinkLog, SealRmdir, SealRmSinks, UnsealStep, UnsealVerify, UnsealDecrypt,
                  UnsealMkdir, UnsealRestoreLog, UnsealRestoreSinks, UnsealUnlink, UnsealApply,
                  Raise, Raises, Crash, At
  <2> QED
      BY <1>1, <1>2, <1>3, <2>1 DEF CallStep
<1>4. CASE HostStep
  <2>1. UNCHANGED <<pc, slot, erased>> /\ (~dir[Legacy] => ~dir'[Legacy])
      BY <1>0, <1>4 DEF HostStep, WriterAppend, WriterOpen, SinkWrite, MarkErase, calls, Resolve,
                        TypeOK, DiskType
  <2> QED
      BY <2>1 DEF Renamed
<1> QED
    BY <1>3, <1>4 DEF SerialNext, Next

LEMMA SealKeepsErased ==
    ASSUME EraseInv, NEW p \in Procs, SealStep(p), TypeOK'
    PROVE  Unmixed' /\ Written' /\ Gone'
<1> USE DEF EraseInv, TypeOK, At, Goto, disk, host
<1>1. CASE SealCheck(p)
    BY <1>1, ResolveType DEF SealCheck, DiskType, CallType, Unmixed, Written, Gone, LiveLog, UnsealSteps
<1>2. CASE SealOpen(p)
  <2>1. PICK i \in Inodes : OpenEvents(slot[p], i)
      BY <1>2 DEF SealOpen
  <2>2. slot[p] \in Slots
      BY <1>2 DEF SealOpen, CallType
  <2>3. \A s \in Slots : LiveLog(s)' \in {LiveLog(s), {}}
      BY <2>1, <2>2 DEF OpenEvents, FreeInodes, LiveLog, DiskType
  <2> QED
      BY <1>2, <2>3 DEF SealOpen, CallType, Unmixed, Written, Gone, UnsealSteps
<1>3. CASE SealLock(p)
    BY <1>3 DEF SealLock, DiskType, CallType, Unmixed, Written, Gone, LiveLog, UnsealSteps
<1>4. CASE SealSnapshot(p)
  <2>1. slot[p] \in Slots
      BY <1>4 DEF SealSnapshot, CallType
  <2>2. Contents(man'[p]) = LiveLog(slot[p]) \cup sinks
      BY <1>4, ManifestNotNone DEF SealSnapshot, CallType, Contents, ManifestSteps, LockedSteps
  <2>3. \A q \in Procs : q # p => man'[q] = man[q]
      BY <1>4 DEF SealSnapshot, CallType
  <2>4. Gone'
    <3>1. erased # {} => slot[p] = Primary
        BY <1>4, WhereErased DEF SealSnapshot
    <3>2. erased \cap Contents(man'[p]) = {}
        BY <2>2, <3>1 DEF Gone
    <3> QED
        BY <1>4, <2>3, <3>2 DEF SealSnapshot, Gone, LiveLog
  <2> QED
      BY <1>4, <2>4 DEF SealSnapshot, CallType, Unmixed, Written, UnsealSteps
<1>5. CASE SealWriteTmp(p)
    BY <1>5 DEF SealWriteTmp, DiskType, CallType, Unmixed, Written, Gone, LiveLog, UnsealSteps, OneCall
<1>6. CASE SealPublish(p)
    BY <1>6 DEF SealPublish, DiskType, CallType, Unmixed, Written, Gone, LiveLog, UnsealSteps, OneCall,
                Contents
<1>7. CASE SealUnlinkLog(p)
    BY <1>7 DEF SealUnlinkLog, DiskType, CallType, Unmixed, Written, Gone, LiveLog, UnsealSteps
<1>8. CASE SealRmdir(p)
    BY <1>8 DEF SealRmdir, DiskType, CallType, Unmixed, Written, Gone, LiveLog, UnsealSteps
<1>9. CASE SealRmSinks(p)
    BY <1>9, LeaveMan DEF SealRmSinks, DiskType, Unmixed, Written, Gone, LiveLog, UnsealSteps, Contents
<1> QED
    BY <1>1, <1>2, <1>3, <1>4, <1>5, <1>6, <1>7, <1>8, <1>9 DEF SealStep

LEMMA UnsealKeepsErased ==
    ASSUME EraseInv, NEW p \in Procs, UnsealStep(p), TypeOK'
    PROVE  Unmixed' /\ Written' /\ Gone'
<1> USE DEF EraseInv, TypeOK, At, Goto, disk, host
<1>1. CASE UnsealCheck(p)
    BY <1>1, ResolveType DEF UnsealCheck, DiskType, CallType, Unmixed, Written, Gone, LiveLog, UnsealSteps
<1>2. CASE UnsealVerify(p)
    BY <1>2 DEF UnsealVerify, DiskType, CallType, Unmixed, Written, Gone, LiveLog, UnsealSteps
<1>3. CASE UnsealDecrypt(p)
  <2>1. slot[p] = Primary
      BY <1>3, WhereErased DEF UnsealDecrypt, UnsealSteps
  <2> QED
      BY <1>3, <2>1 DEF UnsealDecrypt, DiskType, CallType, Unmixed, Written, Gone, LiveLog, UnsealSteps
<1>4. CASE UnsealMkdir(p)
    BY <1>4 DEF UnsealMkdir, DiskType, CallType, Unmixed, Written, Gone, LiveLog, UnsealSteps
<1>5. CASE UnsealRestoreLog(p)
  <2>1. slot[p] \in Slots /\ man[p] # None
      BY <1>5 DEF UnsealRestoreLog, CallType, ManifestSteps, LockedSteps, UnsealSteps
  <2>2. \A s \in Slots : \A r \in LiveLog(s)' : r \in LiveLog(s) \/ r \in man[p].log
      BY <1>5, <2>1 DEF UnsealRestoreLog, LiveLog, DiskType
  <2>3. erased \cap man[p].log = {}
      BY <2>1 DEF Gone, Contents
  <2>4. Gone'
      BY <1>5, <2>2, <2>3 DEF UnsealRestoreLog, Gone
  <2> QED
      BY <1>5, <2>4 DEF UnsealRestoreLog, CallType, Unmixed, Written, UnsealSteps
<1>6. CASE UnsealRestoreSinks(p)
  <2>1. man[p] # None
      BY <1>6 DEF UnsealRestoreSinks, CallType, ManifestSteps, LockedSteps, UnsealSteps
  <2>2. erased \cap man[p].sinks = {}
      BY <2>1 DEF Gone, Contents
  <2>3. Gone'
      BY <1>6, <2>2 DEF UnsealRestoreSinks, Gone, LiveLog
  <2> QED
      BY <1>6, <2>3 DEF UnsealRestoreSinks, CallType, Unmixed, Written, UnsealSteps
<1>7. CASE UnsealUnlink(p)
  <2>1. /\ \A s \in Slots : blob'[s] \in {blob[s], None}
        /\ \A q \in Procs : /\ man'[q] \in {man[q], None} /\ marks'[q] \in {marks[q], {}}
                            /\ q # p => pc'[q] = pc[q] /\ slot'[q] = slot[q]
        /\ blob'[slot[p]] = None
        /\ pc'[p] = "idle" \/ (pc'[p] = "apply_markers" /\ slot'[p] = slot[p])
        /\ UNCHANGED <<events, data, sinks, tmp, pending, wrec, acked, erased>>
      BY <1>7, LeaveMan DEF UnsealUnlink, DiskType, CallType
  <2>2. tmp[slot[p]] = None /\ slot[p] \in Slots
      BY <1>7 DEF UnsealUnlink, Unmixed, UnsealSteps, CallType
  <2>o. \A q \in Procs : q # p => pc[q] = "idle"
      BY <1>7 DEF UnsealUnlink, OneCall
  <2>3. Unmixed'
      BY <2>1, <2>2, <2>o DEF Unmixed, UnsealSteps
  <2>4. Written'
      BY <2>1 DEF Written
  <2>5. Gone'
      BY <2>1 DEF Gone, LiveLog, Contents
  <2> QED
      BY <2>3, <2>4, <2>5
<1>8. CASE UnsealApply(p)
  <2>1. Unmixed'
      BY <1>8, LeaveMan DEF UnsealApply, Unmixed, UnsealSteps
  <2>2. Written'
      BY <1>8, LeaveMan DEF UnsealApply, Written
  <2>0. pc[p] = "apply_markers"
      BY <1>8 DEF UnsealApply
  <2>3. slot[p] = Primary
      BY <2>0, WhereErased DEF UnsealSteps
  <2>4. blob'[Primary] = None /\ tmp'[Primary] = None
    <3>1. blob[slot[p]] = None /\ tmp[slot[p]] = None
        BY <2>0 DEF Unmixed, UnsealSteps
    <3>2. UNCHANGED <<blob, tmp>>
        BY <1>8 DEF UnsealApply
    <3> QED
        BY <2>3, <3>1, <3>2
  <2>5. LiveLog(Primary)' = LiveLog(Primary) \ marks[p]
    <3>1. data' = [i \in Inodes |-> IF i = events[slot[p]] THEN data[i] \ marks[p] ELSE data[i]]
        BY <1>8 DEF UnsealApply
    <3>2. events' = events /\ events \in [Slots -> Inodes \cup {None}]
        BY <1>8 DEF UnsealApply, DiskType
    <3> QED
        BY <2>3, <3>1, <3>2, WhereErased DEF LiveLog
  <2>6. \A q \in Procs : man'[q] = None
      BY <1>8 DEF UnsealApply, Leave, CallType, OneCall, ManifestSteps, LockedSteps, UnsealSteps
  <2>7. Gone'
      BY <1>8, <2>4, <2>5, <2>6 DEF UnsealApply, Gone, Contents
  <2> QED
      BY <2>1, <2>2, <2>7
<1> QED
    BY <1>1, <1>2, <1>3, <1>4, <1>5, <1>6, <1>7, <1>8 DEF UnsealStep

LEMMA HostKeepsErased ==
    ASSUME EraseInv, HostStep, TypeOK'
    PROVE  Unmixed' /\ Written' /\ Gone'
<1> USE DEF EraseInv, TypeOK, disk, calls, host
<1>1. Unmixed'
    BY DEF HostStep, WriterAppend, WriterOpen, SinkWrite, MarkErase, Unmixed
<1>2. ASSUME NEW w \in Writers, NEW r \in Records, WriterOpen(w, r) PROVE Written' /\ Gone'
  <2>1. PICK i \in Inodes : OpenEvents(Resolve, i)
      BY <1>2 DEF WriterOpen
  <2>2. \A s \in Slots : LiveLog(s)' \in {LiveLog(s), {}}
      BY <2>1, ResolveType DEF OpenEvents, FreeInodes, LiveLog, DiskType
  <2> QED
      BY <1>2, <2>2 DEF WriterOpen, Unused, HostType, Written, Gone
<1>3. ASSUME NEW w \in Writers, WriterAppend(w) PROVE Written' /\ Gone'
  <2>1. wrec[w] # None /\ wrec[w] \notin acked
      BY <1>3 DEF WriterAppend, HostType, Written
  <2>2. \A s \in Slots : LiveLog(s)' \subseteq LiveLog(s) \cup {wrec[w]}
      BY <1>3 DEF WriterAppend, HostType, DiskType, LiveLog
  <2> QED
      BY <1>3, <2>1, <2>2 DEF WriterAppend, HostType, Written, Gone
<1>4. ASSUME NEW r \in Records, SinkWrite(r) \/ MarkErase(r) PROVE Written' /\ Gone'
    BY <1>4 DEF SinkWrite, MarkErase, Unused, Written, Gone, LiveLog
<1> QED
    BY <1>1, <1>2, <1>3, <1>4 DEF HostStep

LEMMA EraseStep ==
    ASSUME EraseInv, [SerialNext]_vars
    PROVE  EraseInv'
<1>1. TypeOK'
    BY TypeNext DEF EraseInv, SerialNext
<1>2. ASSUME NEW p \in Procs, Raise(p) \/ Crash(p) PROVE Unmixed' /\ Written' /\ Gone'
    BY <1>2, LeaveMan DEF EraseInv, TypeOK, Raise, Crash, disk, host, Unmixed, Written, Gone,
                          LiveLog, Contents, UnsealSteps
<1>3. CASE UNCHANGED vars
  <2>1. OneCall'
      BY <1>3 DEF vars, calls, EraseInv, OneCall, At
  <2>2. Unmixed' /\ Written'
      BY <1>3 DEF vars, disk, calls, host, EraseInv, Unmixed, Written
  <2>3. Gone' /\ Renamed'
      BY <1>3 DEF vars, disk, calls, EraseInv, Gone, LiveLog, Renamed
  <2> QED
      BY <1>1, <2>1, <2>2, <2>3 DEF EraseInv
<1>4. CASE SerialNext
  <2>1. Unmixed' /\ Written' /\ Gone'
      BY <1>1, <1>2, <1>4, SealKeepsErased, UnsealKeepsErased, HostKeepsErased
         DEF SerialNext, Next, CallStep
  <2> QED
      BY <1>1, <1>4, <2>1, RenamedStays DEF EraseInv, SerialNext
<1> QED
    BY <1>3, <1>4

-----------------------------------------------------------------------------
(* A folder that no older version has named keeps to the new name. *)

NewFolder == Primary = Legacy \/ ~dir[Legacy]

\* Only under the new name is there anything, and only there does a call work.
OneNamed ==
    /\ \A s \in Slots \ {Primary} :
          ~dir[s] /\ events[s] = None /\ blob[s] = None /\ tmp[s] = None
    /\ \A p \in Procs : slot[p] \in {Primary, None}

LEMMA OneNamedResolves == ASSUME OneNamed PROVE Resolve = Primary /\ Primary \in Slots
BY DEF OneNamed, Resolve, Slots

LEMMA OneNamedInit == Init /\ NewFolder => OneNamed
BY DEF Init, NewFolder, OneNamed, Slots

LEMMA SealKeepsName ==
    ASSUME TypeOK, OneNamed, NEW p \in Procs, SealStep(p)
    PROVE  OneNamed'
<1> USE OneNamedResolves DEF OneNamed, TypeOK, DiskType, CallType, At, Goto, disk
<1>1. CASE SealCheck(p)
    BY <1>1 DEF SealCheck
<1>2. CASE SealOpen(p)
    BY <1>2 DEF SealOpen, OpenEvents
<1>3. CASE SealLock(p) \/ SealSnapshot(p)
    BY <1>3 DEF SealLock, SealSnapshot
<1>4. CASE SealWriteTmp(p) \/ SealPublish(p)
    BY <1>4 DEF SealWriteTmp, SealPublish
<1>5. CASE SealUnlinkLog(p) \/ SealRmdir(p)
    BY <1>5 DEF SealUnlinkLog, SealRmdir
<1>6. CASE SealRmSinks(p)
    BY <1>6 DEF SealRmSinks, Leave
<1> QED
    BY <1>1, <1>2, <1>3, <1>4, <1>5, <1>6 DEF SealStep

LEMMA UnsealKeepsName ==
    ASSUME TypeOK, OneNamed, NEW p \in Procs, UnsealStep(p)
    PROVE  OneNamed'
<1> USE OneNamedResolves DEF OneNamed, TypeOK, DiskType, CallType, At, Goto, disk
<1>1. CASE UnsealCheck(p)
    BY <1>1 DEF UnsealCheck
<1>2. CASE UnsealVerify(p) \/ UnsealDecrypt(p) \/ UnsealRestoreSinks(p)
    BY <1>2 DEF UnsealVerify, UnsealDecrypt, UnsealRestoreSinks
<1>3. CASE UnsealMkdir(p)
    BY <1>3 DEF UnsealMkdir
<1>4. CASE UnsealRestoreLog(p)
    BY <1>4 DEF UnsealRestoreLog
<1>5. CASE UnsealUnlink(p)
    BY <1>5 DEF UnsealUnlink, Leave
<1>6. CASE UnsealApply(p)
    BY <1>6 DEF UnsealApply, Leave
<1> QED
    BY <1>1, <1>2, <1>3, <1>4, <1>5, <1>6 DEF UnsealStep

LEMMA OneNamedStep == TypeOK /\ OneNamed /\ [Next]_vars => OneNamed'
<1> SUFFICES ASSUME TypeOK, OneNamed, [Next]_vars PROVE OneNamed'
    OBVIOUS
<1>1. ASSUME NEW p \in Procs, Raise(p) \/ Crash(p) PROVE OneNamed'
    BY <1>1 DEF OneNamed, Raise, Crash, Leave, disk, TypeOK, CallType
<1>2. CASE HostStep
  <2>1. ASSUME NEW w \in Writers, NEW r \in Records, WriterOpen(w, r) PROVE OneNamed'
      BY <2>1, OneNamedResolves DEF OneNamed, WriterOpen, OpenEvents, calls, TypeOK, DiskType
  <2>2. ASSUME \/ \E w \in Writers : WriterAppend(w)
               \/ \E r \in Records : SinkWrite(r) \/ MarkErase(r)
        PROVE  OneNamed'
      BY <2>2 DEF OneNamed, WriterAppend, SinkWrite, MarkErase, calls
  <2> QED
      BY <1>2, <2>1, <2>2 DEF HostStep
<1>3. CASE UNCHANGED vars
    BY <1>3 DEF OneNamed, vars, disk, calls
<1> QED
    BY <1>1, <1>2, <1>3, SealKeepsName, UnsealKeepsName DEF Next, CallStep

LEMMA GoneIsFinal ==
    ASSUME OneNamed, EraseInv
    PROVE  ErasureIsFinal
<1>1. \A r : r \in LiveLogs <=> \E s \in Slots : r \in LiveLog(s)
  <2> HIDE DEF Slots
  <2> QED
      BY DEF LiveLogs
<1>2. \A r : r \in Ciphertext <=> \E s \in Slots : r \in Contents(blob[s])
    BY DEF Ciphertext
<1>3. \A r : r \in UNION {Contents(tmp[s]) : s \in Slots} <=> \E s \in Slots : r \in Contents(tmp[s])
    OBVIOUS
<1>4. \A s \in Slots : s # Primary =>
          LiveLog(s) = {} /\ Contents(blob[s]) = {} /\ Contents(tmp[s]) = {}
    BY DEF OneNamed, LiveLog, Contents
<1> QED
    BY <1>1, <1>2, <1>3, <1>4 DEF EraseInv, Gone, ErasureIsFinal, Plaintext

\* In a folder that no older version has named, a record that unseal_folder erased does not
\* come back, for any number of records, appenders, keys and files, with crashes anywhere
\* and appends between any two steps of a call.
THEOREM ErasuresAreFinal == SerialSpec /\ NewFolder => []ErasureIsFinal
<1>1. Init /\ NewFolder => EraseInv /\ OneNamed
    BY EraseInit, OneNamedInit
<1>2. EraseInv /\ OneNamed /\ [SerialNext]_vars => EraseInv' /\ OneNamed'
    BY EraseStep, OneNamedStep DEF EraseInv, SerialNext
<1> QED
    BY <1>1, <1>2, GoneIsFinal, PTL DEF SerialSpec

-----------------------------------------------------------------------------
(* What a call removes, with appenders beside it (SerialSpec). *)

\* seal_folder: the file it has locked is the folder's log until it unlinks it, and what it
\* packed is all that is in the file, since appenders wait for the lock.
SealsWhole(p) ==
    /\ pc[p] \in {"lock", "snapshot", "write_tmp", "publish", "unlink_log"}
          => events[slot[p]] = fd[p]
    /\ pc[p] \in {"write_tmp", "publish", "unlink_log"} => man[p].log = data[fd[p]]
    /\ pc[p] = "publish" => tmp[slot[p]] = man[p]
    /\ pc[p] = "unlink_log" => blob[slot[p]] = man[p]

\* unseal_folder: the blob is the one it decrypted, and what it has restored of it may have
\* grown, but is still there.
RestoresWhole(p) ==
    /\ pc[p] \in {"mkdir", "restore_log", "restore_sinks", "unlink_blob"}
          => blob[slot[p]] = man[p]
    /\ pc[p] \in {"restore_sinks", "unlink_blob"} => man[p].log \subseteq LiveLog(slot[p])
    /\ pc[p] = "unlink_blob" => man[p].sinks \subseteq sinks

SerialInv ==
    /\ TypeOK /\ OneCall /\ ManifestsWhole
    /\ \A p \in Procs : SealsWhole(p) /\ RestoresWhole(p)

LEMMA SerialInit == Init => SerialInv
<1> SUFFICES ASSUME Init PROVE SerialInv
    OBVIOUS
<1>1. TypeOK
    BY TypeInit
<1> QED
    BY <1>1 DEF Init, SerialInv, OneCall, At, ManifestsWhole, SealsWhole, RestoresWhole

LEMMA SealsSerially ==
    ASSUME SerialInv, NEW p \in Procs, SealStep(p)
    PROVE  ManifestsWhole' /\ SealsWhole(p)' /\ RestoresWhole(p)'
<1> USE DEF SerialInv, TypeOK, At, Goto, disk
<1>1. CASE SealCheck(p)
    BY <1>1 DEF SealCheck, CallType, ManifestsWhole, SealsWhole, RestoresWhole
<1>2. CASE SealOpen(p)
  <2>1. PICK i \in Inodes : OpenEvents(slot[p], i) /\ fd' = [fd EXCEPT ![p] = i]
      BY <1>2 DEF SealOpen
  <2>2. slot[p] \in Slots
      BY <1>2 DEF SealOpen, CallType
  <2>3. events'[slot[p]] = i /\ fd'[p] = i
      BY <2>1, <2>2 DEF OpenEvents, DiskType, CallType
  <2> QED
      BY <1>2, <2>3 DEF SealOpen, CallType, ManifestsWhole, SealsWhole, RestoresWhole
<1>3. CASE SealLock(p)
    BY <1>3 DEF SealLock, CallType, ManifestsWhole, SealsWhole, RestoresWhole
<1>4. CASE SealSnapshot(p)
  <2>1. events[slot[p]] = fd[p] /\ fd[p] # None
      BY <1>4 DEF SealSnapshot, SealsWhole, CallType, LockedSteps
  <2>2. man'[p].log = data[fd[p]] /\ man'[p].logged
    <3>1. PICK k \in Keys : man' = [man EXCEPT ![p] = [key    |-> k,
                                                      logged |-> events[slot[p]] # None,
                                                      log    |-> LiveLog(slot[p]),
                                                      sinks  |-> sinks]]
        BY <1>4 DEF SealSnapshot
    <3>2. LiveLog(slot[p]) = data[fd[p]]
        BY <2>1 DEF LiveLog
    <3>3. man \in [Procs -> Manifest \cup {None}]
        BY DEF CallType
    <3>4. man'[p] = [key    |-> k,
                     logged |-> events[slot[p]] # None,
                     log    |-> LiveLog(slot[p]),
                     sinks  |-> sinks]
        BY <3>1, <3>3
    <3>5. man'[p].log = LiveLog(slot[p]) /\ man'[p].logged = (events[slot[p]] # None)
        BY <3>4
    <3> QED
        BY <2>1, <3>2, <3>5
  <2>3. \A q \in Procs : q # p => man'[q] = man[q]
      BY <1>4 DEF SealSnapshot, CallType
  <2> QED
      BY <1>4, <2>1, <2>2, <2>3 DEF SealSnapshot, CallType, ManifestsWhole, SealsWhole, RestoresWhole
<1>5. CASE SealWriteTmp(p)
    BY <1>5 DEF SealWriteTmp, DiskType, CallType, ManifestsWhole, SealsWhole, RestoresWhole
<1>6. CASE SealPublish(p)
    BY <1>6 DEF SealPublish, DiskType, CallType, ManifestsWhole, SealsWhole, RestoresWhole
<1>7. CASE SealUnlinkLog(p)
    BY <1>7 DEF SealUnlinkLog, CallType, ManifestsWhole, SealsWhole, RestoresWhole
<1>8. CASE SealRmdir(p)
    BY <1>8 DEF SealRmdir, CallType, ManifestsWhole, SealsWhole, RestoresWhole
<1>9. CASE SealRmSinks(p)
    BY <1>9, LeaveMan DEF SealRmSinks, ManifestsWhole, SealsWhole, RestoresWhole
<1> QED
    BY <1>1, <1>2, <1>3, <1>4, <1>5, <1>6, <1>7, <1>8, <1>9 DEF SealStep

LEMMA UnsealsSerially ==
    ASSUME SerialInv, NEW p \in Procs, UnsealStep(p)
    PROVE  ManifestsWhole' /\ SealsWhole(p)' /\ RestoresWhole(p)'
<1> USE DEF SerialInv, TypeOK, At, Goto, disk
<1>1. CASE UnsealCheck(p)
    BY <1>1 DEF UnsealCheck, CallType, ManifestsWhole, SealsWhole, RestoresWhole
<1>2. CASE UnsealVerify(p)
    BY <1>2 DEF UnsealVerify, CallType, ManifestsWhole, SealsWhole, RestoresWhole
<1>3. CASE UnsealDecrypt(p)
    BY <1>3 DEF UnsealDecrypt, CallType, ManifestsWhole, SealsWhole, RestoresWhole
<1>4. CASE UnsealMkdir(p)
    BY <1>4 DEF UnsealMkdir, CallType, ManifestsWhole, SealsWhole, RestoresWhole
<1>5. CASE UnsealRestoreLog(p)
  <2>1. slot[p] \in Slots /\ man[p] # None
      BY <1>5 DEF UnsealRestoreLog, CallType, ManifestSteps, LockedSteps, UnsealSteps
  <2>2. man[p].log \subseteq LiveLog(slot[p])'
    <3>1. CASE ~man[p].logged
        BY <2>1, <3>1 DEF ManifestsWhole
    <3>2. CASE man[p].logged
      <4>1. PICK i \in Inodes : /\ events' = [events EXCEPT ![slot[p]] = i]
                                /\ data' = [data EXCEPT ![i] = man[p].log]
          BY <1>5, <3>2 DEF UnsealRestoreLog
      <4>2. events'[slot[p]] = i /\ data'[i] = man[p].log
          BY <2>1, <4>1 DEF DiskType
      <4>3. i # None
          BY NoneAssumption
      <4>4. slot' = slot
          BY <1>5 DEF UnsealRestoreLog
      <4> QED
          BY <4>2, <4>3, <4>4 DEF LiveLog
    <3> QED
        BY <3>1, <3>2
  <2>3. UNCHANGED <<blob, tmp, man, slot>> /\ pc'[p] = "restore_sinks" /\ blob[slot[p]] = man[p]
      BY <1>5 DEF UnsealRestoreLog, CallType, RestoresWhole
  <2> QED
      BY <2>2, <2>3 DEF ManifestsWhole, SealsWhole, RestoresWhole
<1>6. CASE UnsealRestoreSinks(p)
    BY <1>6 DEF UnsealRestoreSinks, CallType, ManifestsWhole, SealsWhole, RestoresWhole, LiveLog
<1>7. CASE UnsealUnlink(p)
  <2>1. pc'[p] \in {"idle", "apply_markers"}
      BY <1>7, LeaveMan DEF UnsealUnlink, CallType
  <2>2. \A q \in Procs : man'[q] \in {man[q], None}
      BY <1>7, LeaveMan DEF UnsealUnlink, CallType
  <2>3. tmp' = tmp /\ \A s \in Slots : blob'[s] \in {blob[s], None}
      BY <1>7 DEF UnsealUnlink, DiskType
  <2> QED
      BY <2>1, <2>2, <2>3 DEF ManifestsWhole, SealsWhole, RestoresWhole
<1>8. CASE UnsealApply(p)
    BY <1>8, LeaveMan DEF UnsealApply, ManifestsWhole, SealsWhole, RestoresWhole
<1> QED
    BY <1>1, <1>2, <1>3, <1>4, <1>5, <1>6, <1>7, <1>8 DEF UnsealStep

\* An appender is kept from the file of a seal_folder, and only adds to that of an
\* unseal_folder.
LEMMA HostSerially ==
    ASSUME SerialInv, HostStep, NEW p \in Procs
    PROVE  SealsWhole(p)' /\ RestoresWhole(p)'
<1> USE DEF SerialInv, TypeOK, calls
<1>1. UNCHANGED <<blob, tmp, pc, slot, fd, man, flock>> /\ sinks \subseteq sinks'
    BY DEF HostStep, WriterOpen, WriterAppend, SinkWrite, MarkErase
<1>3. ASSUME NEW w \in Writers, NEW r \in Records, WriterOpen(w, r)
      PROVE  SealsWhole(p)' /\ RestoresWhole(p)'
  <2>1. PICK i \in Inodes : OpenEvents(Resolve, i)
      BY <1>3 DEF WriterOpen
  <2>2. \A s \in Slots : events[s] # None => events'[s] = events[s] /\ data'[events[s]] = data[events[s]]
      BY <2>1, ResolveType DEF OpenEvents, FreeInodes, DiskType
  <2>3. \A s \in Slots : LiveLog(s) \subseteq LiveLog(s)'
      BY <2>2 DEF LiveLog
  <2>4. pc[p] # "idle" => slot[p] \in Slots
      BY DEF CallType
  <2>5. pc[p] \in {"lock", "snapshot", "write_tmp", "publish", "unlink_log"} => fd[p] # None
      BY DEF CallType, LockedSteps
  <2>6. SealsWhole(p)'
      BY <1>1, <2>2, <2>4, <2>5 DEF SealsWhole
  <2>7. RestoresWhole(p)'
      BY <1>1, <2>3, <2>4 DEF RestoresWhole
  <2> QED
      BY <2>6, <2>7
<1>4. ASSUME NEW w \in Writers, WriterAppend(w)
      PROVE  SealsWhole(p)' /\ RestoresWhole(p)'
  <2>1. data' = [data EXCEPT ![wfd[w]] = @ \cup {wrec[w]}] /\ events' = events
      BY <1>4 DEF WriterAppend
  <2>2. pc[p] \in {"write_tmp", "publish", "unlink_log"} => wfd[w] # fd[p]
    <3>1. flock[wfd[w]] = None /\ wfd[w] \in Inodes
        BY <1>4 DEF WriterAppend, HostType
    <3> QED
        BY <3>1, NoneAssumption DEF CallType, LockedSteps
  <2>3. \A s \in Slots : LiveLog(s) \subseteq LiveLog(s)'
      BY <2>1 DEF LiveLog, DiskType
  <2>4. SealsWhole(p)'
      BY <1>1, <2>1, <2>2 DEF SealsWhole, DiskType, CallType, LockedSteps
  <2>5. pc[p] # "idle" => slot[p] \in Slots
      BY DEF CallType
  <2>6. RestoresWhole(p)'
      BY <1>1, <2>3, <2>5 DEF RestoresWhole
  <2> QED
      BY <2>4, <2>6
<1>5. ASSUME NEW r \in Records, SinkWrite(r) \/ MarkErase(r)
      PROVE  SealsWhole(p)' /\ RestoresWhole(p)'
  <2>1. UNCHANGED <<events, data>>
      BY <1>5 DEF SinkWrite, MarkErase
  <2> QED
      BY <1>1, <2>1 DEF SealsWhole, RestoresWhole, LiveLog
<1> QED
    BY <1>3, <1>4, <1>5 DEF HostStep

LEMMA SerialStep == SerialInv /\ [SerialNext]_vars => SerialInv'
<1> SUFFICES ASSUME SerialInv, [SerialNext]_vars PROVE SerialInv'
    OBVIOUS
<1>1. TypeOK'
    BY TypeNext DEF SerialInv, SerialNext
<1>2. ASSUME NEW p \in Procs, SealStep(p) \/ UnsealStep(p) \/ Raise(p) \/ Crash(p), SerialNext
      PROVE  SerialInv'
  <2>1. ManifestsWhole' /\ SealsWhole(p)' /\ RestoresWhole(p)'
    <3>1. CASE Raise(p) \/ Crash(p)
        BY <3>1, LeaveMan DEF SerialInv, TypeOK, Raise, Crash, disk, ManifestsWhole, SealsWhole,
                              RestoresWhole
    <3> QED
        BY <1>2, <3>1, SealsSerially, UnsealsSerially
  <2>2. ASSUME NEW q \in Procs, q # p PROVE SealsWhole(q)' /\ RestoresWhole(q)'
    <3>1. pc[q] = "idle"
      <4>1. pc[p] # "idle" => pc[q] = "idle"
          BY <2>2 DEF SerialInv, OneCall, At
      <4>2. CASE pc[p] = "idle"
        <5>1. pc'[p] # "idle" /\ pc'[q] = pc[q]
            BY <1>2, <2>2, <4>2
               DEF SealStep, SealCheck, SealOpen, SealLock, SealSnapshot, SealWriteTmp,
                   SealPublish, SealUnlinkLog, SealRmdir, SealRmSinks, UnsealStep, UnsealCheck,
                   UnsealVerify, UnsealDecrypt, UnsealMkdir, UnsealRestoreLog,
                   UnsealRestoreSinks, UnsealUnlink, UnsealApply, Raise, Raises, Crash, At,
                   Goto, SerialInv, TypeOK, CallType
        <5> QED
            BY <1>2, <2>2, <5>1 DEF SerialNext, OneCall, At
      <4> QED
          BY <4>1, <4>2
    <3>2. pc'[q] = pc[q]
        BY <1>2, <2>2
           DEF SealStep, SealCheck, SealOpen, SealLock, SealSnapshot, SealWriteTmp,
               SealPublish, SealUnlinkLog, SealRmdir, SealRmSinks, UnsealStep, UnsealCheck,
               UnsealVerify, UnsealDecrypt, UnsealMkdir, UnsealRestoreLog,
               UnsealRestoreSinks, UnsealUnlink, UnsealApply, Raise, Crash, Leave,
               Goto, SerialInv, TypeOK, CallType
    <3> QED
        BY <3>1, <3>2 DEF SealsWhole, RestoresWhole
  <2> QED
      BY <1>1, <1>2, <2>1, <2>2 DEF SerialInv, SerialNext
<1>3. CASE SerialNext /\ HostStep
  <2>1. ManifestsWhole'
      BY <1>3 DEF HostStep, WriterOpen, WriterAppend, SinkWrite, MarkErase, calls, SerialInv,
                  ManifestsWhole
  <2> QED
      BY <1>1, <1>3, <2>1, HostSerially DEF SerialInv, SerialNext
<1>4. CASE UNCHANGED vars
    BY <1>1, <1>4 DEF vars, disk, calls, SerialInv, OneCall, At, ManifestsWhole, SealsWhole,
                      RestoresWhole, LiveLog
<1> QED
    BY <1>2, <1>3, <1>4 DEF SerialNext, Next, CallStep

\* Only these two steps take a blob or a log away.
LEMMA OnlyUnlinks ==
    ASSUME TypeOK, [Next]_vars, NEW s \in Slots
    PROVE  /\ blob[s] # None /\ blob'[s] = None =>
                \E p \in Procs : UnsealUnlink(p) /\ slot[p] = s
           /\ events[s] # None /\ events'[s] = None =>
                \E p \in Procs : SealUnlinkLog(p) /\ slot[p] = s
<1> USE ResolveType DEF TypeOK, DiskType, disk, calls
<1>1. ASSUME NEW p \in Procs, SealStep(p), ~SealUnlinkLog(p)
      PROVE  (blob[s] # None => blob'[s] # None) /\ (events[s] # None => events'[s] # None)
  <2>1. CASE SealPublish(p)
      BY <2>1 DEF SealPublish
  <2>2. CASE SealOpen(p)
      BY <2>2 DEF SealOpen, OpenEvents
  <2> QED
      BY <1>1, <2>1, <2>2 DEF SealStep, SealCheck, SealLock, SealSnapshot, SealWriteTmp,
                              SealRmdir, SealRmSinks
<1>2. ASSUME NEW p \in Procs, UnsealStep(p), ~UnsealUnlink(p)
      PROVE  (blob[s] # None => blob'[s] # None) /\ (events[s] # None => events'[s] # None)
    BY <1>2 DEF UnsealStep, UnsealCheck, UnsealVerify, UnsealDecrypt, UnsealMkdir,
                UnsealRestoreLog, UnsealRestoreSinks, UnsealApply
<1>3. ASSUME NEW p \in Procs, SealUnlinkLog(p)
      PROVE  blob' = blob /\ (events[s] # None /\ events'[s] = None => slot[p] = s)
    BY <1>3 DEF SealUnlinkLog
<1>4. ASSUME NEW p \in Procs, UnsealUnlink(p)
      PROVE  events' = events /\ (blob[s] # None /\ blob'[s] = None => slot[p] = s)
    BY <1>4 DEF UnsealUnlink
<1>5. ASSUME NEW p \in Procs, Raise(p) \/ Crash(p) PROVE UNCHANGED <<blob, events>>
    BY <1>5 DEF Raise, Crash
<1>6. CASE HostStep
    BY <1>6 DEF HostStep, WriterOpen, OpenEvents, WriterAppend, SinkWrite, MarkErase
<1>7. CASE UNCHANGED vars
    BY <1>7 DEF vars
<1> QED
    BY <1>1, <1>2, <1>3, <1>4, <1>5, <1>6, <1>7 DEF Next, CallStep

\* With one call at a time and appenders anywhere beside it, rmtree takes away only a log
\* of which the blob holds every record, also those appended while the call waited.
THEOREM DeletesOnlySealed == SerialSpec => DeleteOnlySealed
<1>1. SerialInv /\ [SerialNext]_vars =>
        [\A s \in Slots : events[s] # None /\ events'[s] = None
              => data[events[s]] \subseteq Contents(blob[s])]_vars
  <2> SUFFICES ASSUME SerialInv, SerialNext, NEW s \in Slots, events[s] # None, events'[s] = None
               PROVE  data[events[s]] \subseteq Contents(blob[s])
      OBVIOUS
  <2>1. PICK p \in Procs : SealUnlinkLog(p) /\ slot[p] = s
      BY OnlyUnlinks DEF SerialInv, SerialNext
  <2>2. pc[p] = "unlink_log" /\ man[p] # None
      BY <2>1 DEF SealUnlinkLog, At, SerialInv, TypeOK, CallType, ManifestSteps, LockedSteps
  <2>3. blob[s] = man[p] /\ man[p].log = data[events[s]]
      BY <2>1, <2>2 DEF SerialInv, SealsWhole
  <2> QED
      BY <2>2, <2>3 DEF Contents
<1> QED
    BY <1>1, SerialInit, SerialStep, PTL DEF SerialSpec, DeleteOnlySealed

\* ... and unseal_folder takes the blob away only when all that is in it is back.
THEOREM RemovesBlobLast == SerialSpec => BlobRemovedOnlyAfterRestore
<1>1. SerialInv /\ [SerialNext]_vars =>
        [\A s \in Slots : blob[s] # None /\ blob'[s] = None
              => Contents(blob[s]) \subseteq Plaintext]_vars
  <2> SUFFICES ASSUME SerialInv, SerialNext, NEW s \in Slots, blob[s] # None, blob'[s] = None
               PROVE  Contents(blob[s]) \subseteq Plaintext
      OBVIOUS
  <2>1. PICK p \in Procs : UnsealUnlink(p) /\ slot[p] = s
      BY OnlyUnlinks DEF SerialInv, SerialNext
  <2>2. pc[p] = "unlink_blob"
      BY <2>1 DEF UnsealUnlink, At
  <2>3. blob[s] = man[p] /\ man[p].log \subseteq LiveLog(s) /\ man[p].sinks \subseteq sinks
      BY <2>1, <2>2 DEF SerialInv, RestoresWhole
  <2>4. LiveLog(s) \subseteq LiveLogs
    <3> HIDE DEF Slots
    <3> QED
        BY DEF LiveLogs
  <2> QED
      BY <2>3, <2>4 DEF Contents, Plaintext
<1> QED
    BY <1>1, SerialInit, SerialStep, PTL DEF SerialSpec, BlobRemovedOnlyAfterRestore

-----------------------------------------------------------------------------
(* Where what seal_folder's text says does hold. *)

\* One call at a time is enough for "already sealed": there is no blob any more where a
\* seal_folder, which found none, puts its own. (The run of overlap has two calls.)
THEOREM SerialSealsOnce == SerialSpec => SealNotReplaced
<1>1. EraseInv /\ [SerialNext]_vars =>
        [\A s \in Slots : blob[s] # None /\ blob'[s] # None
              => Contents(blob[s]) \subseteq Contents(blob'[s])]_vars
  <2> SUFFICES ASSUME EraseInv, SerialNext, NEW s \in Slots, blob[s] # None, blob'[s] # None
               PROVE  blob'[s] = blob[s]
      OBVIOUS
  <2> USE DEF EraseInv, TypeOK, DiskType, disk
  <2>1. ASSUME NEW p \in Procs, SealPublish(p) PROVE blob'[s] = blob[s]
    <3>1. blob[slot[p]] = None
        BY <2>1 DEF SealPublish, At, Unmixed
    <3> QED
        BY <2>1, <3>1 DEF SealPublish
  <2>2. ASSUME NEW p \in Procs, SealStep(p), ~SealPublish(p) PROVE blob'[s] = blob[s]
      BY <2>2 DEF SealStep, SealCheck, SealOpen, SealLock, SealSnapshot, SealWriteTmp,
                  SealUnlinkLog, SealRmdir, SealRmSinks
  <2>3. ASSUME NEW p \in Procs, UnsealStep(p) PROVE blob'[s] = blob[s]
      BY <2>3 DEF UnsealStep, UnsealCheck, UnsealVerify, UnsealDecrypt, UnsealMkdir,
                  UnsealRestoreLog, UnsealRestoreSinks, UnsealUnlink, UnsealApply
  <2>4. ASSUME NEW p \in Procs, Raise(p) \/ Crash(p) PROVE blob'[s] = blob[s]
      BY <2>4 DEF Raise, Crash
  <2>5. CASE HostStep
      BY <2>5 DEF HostStep, WriterOpen, WriterAppend, SinkWrite, MarkErase
  <2> QED
      BY <2>1, <2>2, <2>3, <2>4, <2>5 DEF SerialNext, Next, CallStep
<1> QED
    BY <1>1, EraseInit, EraseStep, PTL DEF SerialSpec, SealNotReplaced

\* A folder that no older version has named is found sealed, however calls and appenders
\* interleave. (The run of legacy has one with an older name.)
THEOREM NewFoldersAreFound == Spec /\ NewFolder => []SealedIsFound
<1>1. Init /\ NewFolder => TypeOK /\ OneNamed
    BY TypeInit, OneNamedInit
<1>2. TypeOK /\ OneNamed /\ [Next]_vars => TypeOK' /\ OneNamed'
    BY TypeNext, OneNamedStep
<1>3. OneNamed => SealedIsFound
    BY OneNamedResolves DEF OneNamed, SealedIsFound, Contents
<1> QED
    BY <1>1, <1>2, <1>3, PTL DEF Spec
=============================================================================
