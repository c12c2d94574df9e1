------------------------ MODULE SealBindingProofs ------------------------
(***************************************************************************)
(* TLAPS proofs of what a served read has: nothing erased and, in a folder *)
(* that has no legacy directory, all of the memory; and that the readers   *)
(* take nothing from what sealing promises.                                *)
(***************************************************************************)
EXTENDS SealBinding, SealQuietProofs

-----------------------------------------------------------------------------
(* The readers beside the host: they change nothing of Seal's. *)

LEMMA BindIsQuiet == [BindNext]_allVars => [QuietNext]_vars
BY DEF BindNext, allVars

LEMMA BindSpecIsQuiet == BindSpec => QuietSpec
<1>1. BindInit => Init
    BY DEF BindInit
<1> QED
    BY <1>1, BindIsQuiet, PTL DEF BindSpec, QuietSpec

\* Beside any number of readers that unlock, lock, read and exit, a quiet host still
\* loses nothing it was told is written.
THEOREM ReadersLoseNothing == BindSpec => []NothingLost
BY BindSpecIsQuiet, QuietLosesNothing, PTL

\* ... and what they leave of sealing is still a vault, in a folder that no older version
\* has named or where nothing is erased.
THEOREM ReadersBesideVault ==
    BindSpec /\ (Erasable = {} \/ NewFolder) => ImplementsVault
BY BindSpecIsQuiet, QuietImplementsVault, PTL

-----------------------------------------------------------------------------
(* What a reader holds by where it is. *)

LEMMA NoKeys == [s \in Slots |-> None] \in [Slots -> Keys \cup {None}]
OBVIOUS

LEMMA BindTypeInit == BindInit => BindTypeOK
<1> SUFFICES ASSUME BindInit PROVE BindTypeOK
    OBVIOUS
<1>1. session \in [Readers -> [Slots -> Keys \cup {None}]]
    BY NoKeys DEF BindInit
<1>2. /\ rpc \in [Readers -> RPcs]
      /\ rslot \in [Readers -> Slots \cup {None}]
      /\ rkey \in [Readers -> Keys \cup {None}]
      /\ store \in [Readers -> Stores \cup {None}]
      /\ answer \in [Readers -> (SUBSET Records) \cup {None}]
      /\ due \in [Readers -> SUBSET Records]
      /\ wiped \in [Readers -> SUBSET Records]
  <2>1. rpc \in [Readers -> RPcs]
      BY DEF BindInit, RPcs
  <2>2. /\ rslot \in [Readers -> Slots \cup {None}]
        /\ rkey \in [Readers -> Keys \cup {None}]
      BY DEF BindInit
  <2>3. /\ store \in [Readers -> Stores \cup {None}]
        /\ answer \in [Readers -> (SUBSET Records) \cup {None}]
      BY DEF BindInit
  <2>4. due \in [Readers -> SUBSET Records] /\ wiped \in [Readers -> SUBSET Records]
      BY DEF BindInit
  <2> QED
      BY <2>1, <2>2, <2>3, <2>4
<1>3. ASSUME NEW q \in Readers
      PROVE  /\ rpc[q] = "idle" /\ rslot[q] = None /\ rkey[q] = None
             /\ store[q] = None /\ answer[q] = None /\ due[q] = {} /\ wiped[q] = {}
    BY DEF BindInit
<1> QED
    BY <1>1, <1>2, <1>3 DEF BindTypeOK

LEMMA FoundTypes ==
    ASSUME TypeOK
    PROVE  /\ Resolve \in Slots /\ Resolve # None
           /\ LiveLog(Resolve) \in SUBSET Records
           /\ acked \ erased \in SUBSET Records /\ erased \in SUBSET Records
           /\ sinks \in SUBSET Records
           /\ \A s \in Slots : blob[s] # None => blob[s] \in Manifest
<1>1. Resolve \in Slots /\ Resolve # None
    BY ResolveType, NoneAssumption
<1> QED
    BY <1>1 DEF TypeOK, DiskType, HostType, LiveLog

LEMMA UnlockKeepsTypes ==
    ASSUME TypeOK, BindTypeOK, NEW q \in Readers,
           UnlockFind(q) \/ UnlockRead(q) \/ UnlockCache(q) \/ Lock(q) \/ LockAll(q)
    PROVE  BindTypeOK'
<1> USE FoundTypes, NoAnswerAssumption DEF BindTypeOK, RPcs, Step, call, history
<1>1. CASE UnlockFind(q)
    BY <1>1 DEF UnlockFind
<1>2. CASE UnlockRead(q)
  <2>1. blob[rslot[q]].key \in Keys
      BY <1>2 DEF UnlockRead, Manifest
  <2> QED
      BY <1>2, <2>1 DEF UnlockRead
<1>3. CASE UnlockCache(q)
    BY <1>3 DEF UnlockCache, Done
<1>4. CASE Lock(q) \/ LockAll(q)
  <2>1. session' \in [Readers -> [Slots -> Keys \cup {None}]]
    <3>1. CASE Lock(q)
        BY <3>1 DEF Lock
    <3>2. CASE LockAll(q)
        BY <3>2, NoKeys DEF LockAll
    <3> QED
        BY <1>4, <3>1, <3>2
  <2>2. UNCHANGED <<rpc, rslot, rkey, store, answer, due, wiped>>
      BY <1>4 DEF Lock, LockAll
  <2> QED
      BY <2>1, <2>2
<1> QED
    BY <1>1, <1>2, <1>3, <1>4

LEMMA ServeKeepsTypes ==
    ASSUME TypeOK, BindTypeOK, NEW q \in Readers,
           ServeCheck(q) \/ ServeDisk(q) \/ ServeKey(q) \/ ServeFind(q) \/ ServeOpen(q)
    PROVE  BindTypeOK'
<1> USE FoundTypes, NoAnswerAssumption DEF BindTypeOK, RPcs, Step, history
<1>1. CASE ServeCheck(q)
  <2>1. /\ due' \in [Readers -> SUBSET Records] /\ wiped' \in [Readers -> SUBSET Records]
        /\ \A u \in Readers : u # q => due'[u] = due[u] /\ wiped'[u] = wiped[u]
      BY <1>1 DEF ServeCheck, Begin
  <2> QED
      BY <1>1, <2>1 DEF ServeCheck
<1>2. CASE ServeDisk(q)
  <2>1. [log |-> LiveLog(Resolve), sinks |-> {}] \in Stores
      BY DEF Stores
  <2>2. /\ rpc' = [rpc EXCEPT ![q] = "pairs"] /\ rpc[q] = "disk"
        /\ store' = [store EXCEPT ![q] = [log |-> LiveLog(Resolve), sinks |-> {}]]
        /\ UNCHANGED <<session, rslot, rkey, answer, due, wiped>>
      BY <1>2 DEF ServeDisk
  <2>3. store' \in [Readers -> Stores \cup {None}] /\ store'[q] # None
      BY <2>1, <2>2
  <2> QED
      BY <2>2, <2>3
<1>3. CASE ServeKey(q)
    BY <1>3 DEF ServeKey
<1>4. CASE ServeFind(q)
    BY <1>4 DEF ServeFind
<1>5. CASE ServeOpen(q)
  <2>1. [log |-> blob[rslot[q]].log, sinks |-> blob[rslot[q]].sinks] \in Stores
      BY <1>5 DEF ServeOpen, Stores, Manifest
  <2> QED
      BY <1>5, <2>1 DEF ServeOpen
<1> QED
    BY <1>1, <1>2, <1>3, <1>4, <1>5

LEMMA AnswerKeepsTypes ==
    ASSUME TypeOK, BindTypeOK, NEW q \in Readers, ReadPairs(q) \/ Return(q) \/ Exit(q)
    PROVE  BindTypeOK'
<1> USE FoundTypes, NoAnswerAssumption DEF BindTypeOK, RPcs, Step, history
<1>1. CASE ReadPairs(q)
  <2>1. store[q] \in Stores
      BY <1>1 DEF ReadPairs
  <2>2. store[q].log \cup (IF store[q].sinks # {} THEN store[q].sinks ELSE sinks)
            \in SUBSET Records
      BY <2>1 DEF Stores
  <2> QED
      BY <1>1, <2>2 DEF ReadPairs
<1>2. CASE Return(q) \/ Exit(q)
  <2>1. session' \in [Readers -> [Slots -> Keys \cup {None}]]
    <3>1. CASE Return(q)
        BY <3>1 DEF Return
    <3>2. CASE Exit(q)
        BY <3>2, NoKeys DEF Exit
    <3> QED
        BY <1>2, <3>1, <3>2
  <2>2. Done(q)
      BY <1>2 DEF Return, Exit
  <2>3. {} \in SUBSET Records
      OBVIOUS
  <2>4. due' \in [Readers -> SUBSET Records] /\ wiped' \in [Readers -> SUBSET Records]
      BY <2>2, <2>3 DEF Done
  <2>5. /\ rslot' \in [Readers -> Slots \cup {None}]
        /\ rkey' \in [Readers -> Keys \cup {None}]
        /\ store' \in [Readers -> Stores \cup {None}]
        /\ answer' \in [Readers -> (SUBSET Records) \cup {None}]
        /\ rpc' \in [Readers -> RPcs]
      BY <2>2 DEF Done
  <2>6. \A u \in Readers : u # q =>
            /\ rpc'[u] = rpc[u] /\ rslot'[u] = rslot[u] /\ rkey'[u] = rkey[u]
            /\ store'[u] = store[u] /\ answer'[u] = answer[u]
            /\ due'[u] = due[u] /\ wiped'[u] = wiped[u]
      BY <2>2 DEF Done
  <2>7. /\ rpc'[q] = "idle" /\ rslot'[q] = None /\ rkey'[q] = None
        /\ store'[q] = None /\ answer'[q] = None /\ due'[q] = {} /\ wiped'[q] = {}
      BY <2>2 DEF Done
  <2>8. ASSUME NEW u \in Readers
        PROVE  /\ rslot'[u] # None <=> rpc'[u] \in {"unlock_read", "open"}
               /\ rkey'[u] # None <=> rpc'[u] \in {"unlock_cache", "find", "open"}
               /\ store'[u] # None <=> rpc'[u] = "pairs"
               /\ answer'[u] # None <=> rpc'[u] = "answered"
               /\ rpc'[u] = "idle" => due'[u] = {} /\ wiped'[u] = {}
    <3>1. CASE u = q
        BY <2>7, <3>1
    <3>2. CASE u # q
        BY <2>6, <3>2
    <3> QED
        BY <3>1, <3>2
  <2> QED
      BY <2>1, <2>4, <2>5, <2>8
<1> QED
    BY <1>1, <1>2

\* A reader has a blob, a key, a store or an answer in hand exactly at the steps of
\* serve and unlock that need one, and nothing of it outlives the call.
THEOREM ReadersTyped == BindSpec => []BindTypeOK
<1>1. BindSpec => []TypeOK
  <2>1. QuietInv => TypeOK
      BY DEF QuietInv
  <2> QED
      BY <2>1, BindSpecIsQuiet, QuietInit, QuietStep, PTL DEF QuietSpec
<1>2. TypeOK /\ BindTypeOK /\ [BindNext]_allVars => BindTypeOK'
  <2> SUFFICES ASSUME TypeOK, BindTypeOK, [BindNext]_allVars PROVE BindTypeOK'
      OBVIOUS
  <2>1. CASE UNCHANGED readers
      BY <2>1 DEF BindTypeOK, readers, call, history
  <2>2. CASE \E q \in Readers : ReaderStep(q)
      BY <2>2, UnlockKeepsTypes, ServeKeepsTypes, AnswerKeepsTypes DEF ReaderStep
  <2> QED
      BY <2>1, <2>2 DEF BindNext, allVars
<1> QED
    BY <1>1, <1>2, BindTypeInit, PTL DEF BindSpec

-----------------------------------------------------------------------------
(* Erased records, whatever names the log directory has. *)

ReadTypes ==
    /\ rpc \in [Readers -> RPcs]
    /\ rslot = [q \in Readers |-> rslot[q]]
    /\ store = [q \in Readers |-> store[q]]
    /\ answer = [q \in Readers |-> answer[q]]
    /\ due = [q \in Readers |-> due[q]]
    /\ wiped = [q \in Readers |-> wiped[q]]

\* What had been erased when it began is not in what it was given.
Withheld(q) ==
    /\ rpc[q] = "pairs" => (store[q].log \cup store[q].sinks) \cap wiped[q] = {}
    /\ rpc[q] = "answered" => answer[q] \cap wiped[q] = {}

\* What a read knows of the history, and of the blob it is going to open: once a record
\* was erased, there is only the one under the new name to be found.
Begun(q) ==
    /\ due[q] \subseteq acked
    /\ wiped[q] \subseteq erased
    /\ rpc[q] = "open" => rslot[q] \in Slots /\ (wiped[q] # {} => rslot[q] = Primary)
    /\ answer[q] # None => rpc[q] = "answered"

KeptInv ==
    /\ EraseInv /\ ReadTypes
    /\ \A q \in Readers : Begun(q) /\ Withheld(q)

LEMMA KeptInit == BindInit => KeptInv
<1> SUFFICES ASSUME BindInit PROVE KeptInv
    OBVIOUS
<1>1. EraseInv
    BY EraseInit DEF BindInit
<1>2. ReadTypes
    BY DEF BindInit, ReadTypes, RPcs
<1>3. ASSUME NEW q \in Readers PROVE Begun(q) /\ Withheld(q)
    BY DEF BindInit, Begun, Withheld
<1> QED
    BY <1>1, <1>2, <1>3 DEF KeptInv

LEMMA HistoryGrows ==
    ASSUME Next
    PROVE  acked \subseteq acked' /\ erased \subseteq erased'
<1>1. ASSUME NEW p \in Procs, SealStep(p) \/ UnsealStep(p) \/ Raise(p) \/ Crash(p)
      PROVE  acked \subseteq acked' /\ erased \subseteq erased'
    BY <1>1 DEF SealStep, SealCheck, SealOpen, SealLock, SealSnapshot, SealWriteTmp,
                SealPublish, SealUnlinkLog, SealRmdir, SealRmSinks, UnsealStep, UnsealCheck,
                UnsealVerify, UnsealDecrypt, UnsealMkdir, UnsealRestoreLog,
                UnsealRestoreSinks, UnsealUnlink, UnsealApply, Raise, Crash
<1>2. CASE HostStep
    BY <1>2 DEF HostStep, WriterOpen, WriterAppend, SinkWrite, MarkErase
<1> QED
    BY <1>1, <1>2 DEF Next, CallStep

LEMMA ReaderMovesOne ==
    ASSUME ReadTypes, NEW q \in Readers, ReaderStep(q)
    PROVE  /\ ReadTypes'
           /\ \A u \in Readers : u # q =>
                 /\ rpc'[u] = rpc[u] /\ rslot'[u] = rslot[u] /\ store'[u] = store[u]
                 /\ answer'[u] = answer[u] /\ due'[u] = due[u] /\ wiped'[u] = wiped[u]
<1> USE DEF ReadTypes, RPcs, Step, Done, call, history
<1>1. CASE UnlockFind(q) \/ UnlockRead(q) \/ UnlockCache(q) \/ Lock(q) \/ LockAll(q)
    BY <1>1 DEF UnlockFind, UnlockRead, UnlockCache, Lock, LockAll
<1>2. CASE ServeCheck(q) \/ ServeDisk(q) \/ ServeKey(q)
    BY <1>2 DEF ServeCheck, ServeDisk, ServeKey, Begin
<1>3. CASE ServeFind(q) \/ ServeOpen(q) \/ ReadPairs(q) \/ Return(q) \/ Exit(q)
    BY <1>3 DEF ServeFind, ServeOpen, ReadPairs, Return, Exit
<1> QED
    BY <1>1, <1>2, <1>3 DEF ReaderStep

\* From the files or from the blob: neither has what was erased before the read began.
LEMMA StoreHasNoErased ==
    ASSUME KeptInv, NEW q \in Readers, ServeDisk(q) \/ ServeOpen(q), UNCHANGED vars
    PROVE  Begun(q)' /\ Withheld(q)'
<1>1. /\ UNCHANGED <<acked, erased, answer, due, wiped>>
      /\ rpc[q] \in {"disk", "open"} /\ rpc'[q] = "pairs"
      /\ wiped[q] \subseteq erased
    BY DEF ServeDisk, ServeOpen, Step, KeptInv, ReadTypes, Begun, vars, history
<1>2. Begun(q)'
    BY <1>1 DEF KeptInv, Begun
<1>3. CASE wiped[q] = {}
    BY <1>1, <1>2, <1>3 DEF Withheld
<1>4. CASE wiped[q] # {}
  <2>1. Resolve = Primary
      BY <1>1, <1>4, WhereErased DEF KeptInv
  <2>2. LiveLog(Primary) \cap erased = {} /\ Contents(blob[Primary]) \cap erased = {}
      BY DEF KeptInv, EraseInv, Gone
  <2>3. CASE ServeDisk(q)
    <3>1. store'[q] = [log |-> LiveLog(Primary), sinks |-> {}]
        BY <2>1, <2>3 DEF ServeDisk, KeptInv, ReadTypes
    <3> QED
        BY <1>1, <1>2, <2>2, <3>1 DEF Withheld
  <2>4. CASE ServeOpen(q)
    <3>1. rslot[q] = Primary
        BY <1>4, <2>4 DEF ServeOpen, Step, KeptInv, Begun
    <3>2. /\ blob[Primary] # None
          /\ store'[q] = [log |-> blob[Primary].log, sinks |-> blob[Primary].sinks]
        BY <2>4, <3>1 DEF ServeOpen, KeptInv, ReadTypes
    <3> QED
        BY <1>1, <1>2, <2>2, <3>2 DEF Withheld, Contents
  <2> QED
      BY <2>3, <2>4
<1> QED
    BY <1>3, <1>4

LEMMA PairsHaveNoErased ==
    ASSUME KeptInv, NEW q \in Readers, ReadPairs(q), UNCHANGED vars
    PROVE  Begun(q)' /\ Withheld(q)'
<1>1. /\ UNCHANGED <<sinks, acked, erased, due, wiped>>
      /\ rpc[q] = "pairs" /\ rpc'[q] = "answered"
      /\ answer'[q] = store[q].log \cup (IF store[q].sinks # {} THEN store[q].sinks ELSE sinks)
    BY DEF ReadPairs, Step, KeptInv, ReadTypes, vars, disk, history
<1>2. sinks \cap erased = {}
    BY DEF KeptInv, EraseInv, Gone
<1> QED
    BY <1>1, <1>2 DEF KeptInv, Begun, Withheld

\* The other steps of a reader give it nothing, and end its read or leave it looking.
LEMMA OtherStepsGiveNothing ==
    ASSUME KeptInv, NEW q \in Readers, UNCHANGED vars,
           \/ UnlockFind(q) \/ UnlockRead(q) \/ UnlockCache(q) \/ Lock(q) \/ LockAll(q)
           \/ ServeCheck(q) \/ ServeKey(q) \/ ServeFind(q) \/ Return(q) \/ Exit(q)
    PROVE  Begun(q)' /\ Withheld(q)'
<1>1. UNCHANGED <<acked, erased>>
    BY DEF vars
<1>2. CASE UnlockFind(q) \/ UnlockRead(q) \/ Lock(q) \/ LockAll(q) \/ ServeKey(q)
    BY <1>1, <1>2 DEF UnlockFind, UnlockRead, Lock, LockAll, ServeKey, Step, KeptInv, ReadTypes,
                      call, history, Begun, Withheld
<1>3. CASE UnlockCache(q) \/ Return(q) \/ Exit(q)
  <2>1. Done(q)
      BY <1>3 DEF UnlockCache, Return, Exit
  <2> QED
      BY <1>1, <2>1 DEF Done, KeptInv, ReadTypes, Begun, Withheld
<1>4. CASE ServeCheck(q)
    BY <1>1, <1>4 DEF ServeCheck, Begin, Step, KeptInv, ReadTypes, Begun, Withheld
<1>5. CASE ServeFind(q)
  <2>1. wiped[q] \subseteq erased
      BY DEF KeptInv, Begun
  <2>2. Resolve \in Slots /\ (wiped[q] # {} => Resolve = Primary)
      BY <2>1, ResolveType, WhereErased DEF KeptInv
  <2> QED
      BY <1>1, <1>5, <2>2 DEF ServeFind, Step, KeptInv, ReadTypes, history, Begun, Withheld
<1> QED
    BY <1>2, <1>3, <1>4, <1>5

LEMMA ReaderKeepsErased ==
    ASSUME KeptInv, NEW q \in Readers, ReaderStep(q), UNCHANGED vars
    PROVE  KeptInv'
<1>1. EraseInv'
    BY EraseStep DEF KeptInv
<1>2. ReadTypes'
    BY ReaderMovesOne DEF KeptInv
<1>3. Begun(q)' /\ Withheld(q)'
    BY StoreHasNoErased, PairsHaveNoErased, OtherStepsGiveNothing DEF ReaderStep
<1>4. ASSUME NEW u \in Readers, u # q PROVE Begun(u)' /\ Withheld(u)'
  <2>1. UNCHANGED <<acked, erased>>
      BY DEF vars
  <2>2. /\ rpc'[u] = rpc[u] /\ rslot'[u] = rslot[u] /\ store'[u] = store[u]
        /\ answer'[u] = answer[u] /\ due'[u] = due[u] /\ wiped'[u] = wiped[u]
      BY <1>4, ReaderMovesOne DEF KeptInv
  <2> QED
      BY <1>4, <2>1, <2>2 DEF KeptInv, Begun, Withheld
<1> QED
    BY <1>1, <1>2, <1>3, <1>4 DEF KeptInv

LEMMA KeptStep == KeptInv /\ [BindNext]_allVars => KeptInv'
<1> SUFFICES ASSUME KeptInv, [BindNext]_allVars PROVE KeptInv'
    OBVIOUS
<1>1. ASSUME QuietNext \/ UNCHANGED vars, UNCHANGED readers PROVE KeptInv'
  <2>1. EraseInv'
      BY <1>1, EraseStep DEF KeptInv, QuietNext, SerialNext, Next
  <2>2. acked \subseteq acked' /\ erased \subseteq erased'
      BY <1>1, HistoryGrows DEF QuietNext, Next, vars
  <2>3. UNCHANGED <<rpc, rslot, store, answer, due, wiped>>
      BY <1>1 DEF readers, call, history
  <2> QED
      BY <2>1, <2>2, <2>3 DEF KeptInv, ReadTypes, Begun, Withheld
<1> QED
    BY <1>1, ReaderKeepsErased DEF BindNext, allVars

\* No served read has a record that had been erased when it began, whatever key the
\* reader has kept, from wherever it was served, and under either name of the log
\* directory: what an old name may still hide is not found any more.
THEOREM ErasedIsNotRead == BindSpec => []ErasedNotRead
<1>1. KeptInv => ErasedNotRead
    BY DEF KeptInv, Begun, Withheld, ErasedNotRead
<1> QED
    BY <1>1, KeptInit, KeptStep, PTL DEF BindSpec

-----------------------------------------------------------------------------
(* All of the memory, in a folder that no older version has named. *)

\* What is owed to a read is where the read is going to look: in the files where it found
\* no blob; in the blob, as long as that is there; then in what it was given, with the
\* sinks on the disk where it was given none.
Owed(q) ==
    /\ rpc[q] = "disk" => blob[Primary] = None
    /\ rpc[q] = "open" => rslot[q] = Primary
    /\ rpc[q] \in {"key", "find", "open"} /\ blob[Primary] # None =>
          due[q] \subseteq Contents(blob[Primary]) \cup erased
    /\ rpc[q] = "pairs" =>
          due[q] \subseteq store[q].log \cup erased \cup
                           (IF store[q].sinks # {} THEN store[q].sinks ELSE sinks)
    /\ rpc[q] = "answered" => due[q] \subseteq answer[q] \cup erased

ReadsInv ==
    /\ QuietInv /\ KeptInv /\ OneNamed /\ SealApart
    /\ \A q \in Readers : Owed(q)

\* Of a record that is owed: one of three places has it.
LEMMA MemoryIs ==
    ASSUME OneNamed, NothingLost, NEW r \in acked \ erased
    PROVE  r \in LiveLog(Primary) \/ r \in sinks \/ r \in Contents(blob[Primary])
<1>1. Held(r)
    BY HeldIs DEF NothingLost
<1> QED
    BY <1>1 DEF OneNamed, Held, InLog, InBlob, LiveLog, Contents

\* While unseal_folder is at work and the blob is still there, the blob has all of it.
LEMMA BlobHasAll ==
    ASSUME OneNamed, QuietInv, Unmixed, blob[Primary] # None,
           NEW p \in Procs, pc[p] \in UnsealSteps
    PROVE  sinks \subseteq Contents(blob[Primary]) /\ LiveLog(Primary) \subseteq Contents(blob[Primary])
<1>1. slot[p] = Primary
    BY NoneAssumption DEF OneNamed, QuietInv, TypeOK, CallType, UnsealSteps
<1>2. UnsealProgress(p)
    BY DEF QuietInv
<1>3. pc[p] # "apply_markers"
    BY <1>1 DEF Unmixed
<1>4. pc[p] \in {"verify", "decrypt", "mkdir", "restore_log"} => LiveLog(Primary) = {} /\ sinks = {}
    BY <1>1, <1>2 DEF UnsealProgress, LiveLog
<1>5. pc[p] = "restore_sinks" => LiveLog(Primary) = blob[Primary].log /\ sinks = {}
    BY <1>1, <1>2 DEF UnsealProgress
<1>6. pc[p] = "unlink_blob" => LiveLog(Primary) = blob[Primary].log /\ sinks = blob[Primary].sinks
    BY <1>1, <1>2 DEF UnsealProgress
<1> QED
    BY <1>3, <1>4, <1>5, <1>6 DEF UnsealSteps, Contents

LEMMA ReadsInit == BindInit /\ NewFolder => ReadsInv
<1> SUFFICES ASSUME BindInit, NewFolder PROVE ReadsInv
    OBVIOUS
<1>1. QuietInv /\ KeptInv /\ OneNamed
    BY QuietInit, KeptInit, OneNamedInit DEF BindInit
<1>2. SealApart
    BY DEF BindInit, Init, SealApart, SealSteps
<1>3. ASSUME NEW q \in Readers PROVE Owed(q)
    BY DEF BindInit, Owed
<1> QED
    BY <1>1, <1>2, <1>3 DEF ReadsInv

\* The steps of others that a read can meet make no blob, and take away a sink record
\* only with its erasure.
LEMMA BesideARead ==
    ASSUME QuietInv, HostStep \/ \E p \in Procs : UnsealStep(p) \/ Raise(p) \/ Crash(p)
    PROVE  /\ blob'[Primary] \in {blob[Primary], None}
           /\ sinks \subseteq sinks' \cup erased'
<1> USE DEF disk
<1>1. CASE HostStep
    BY <1>1 DEF HostStep, WriterOpen, WriterAppend, SinkWrite, MarkErase
<1>2. ASSUME NEW p \in Procs, Raise(p) \/ Crash(p)
      PROVE  UNCHANGED <<blob, sinks>>
    BY <1>2 DEF Raise, Crash
<1>3. ASSUME NEW p \in Procs, UnsealStep(p)
      PROVE  /\ blob'[Primary] \in {blob[Primary], None}
             /\ sinks \subseteq sinks' \cup erased'
  <2>1. CASE UnsealRestoreSinks(p)
      BY <2>1 DEF UnsealRestoreSinks, At, QuietInv, UnsealProgress
  <2>2. CASE UnsealUnlink(p)
    <3>1. slot[p] \in Slots /\ blob \in [Slots -> Manifest \cup {None}] /\ Primary \in Slots
        BY <2>2 DEF UnsealUnlink, At, QuietInv, TypeOK, CallType, DiskType, Slots
    <3> QED
        BY <2>2, <3>1 DEF UnsealUnlink
  <2>3. CASE UnsealApply(p)
      BY <2>3 DEF UnsealApply
  <2> QED
      BY <1>3, <2>1, <2>2, <2>3 DEF UnsealStep, UnsealCheck, UnsealVerify, UnsealDecrypt,
                                    UnsealMkdir, UnsealRestoreLog
<1> QED
    BY <1>1, <1>2, <1>3

\* seal_folder does not run beside a read, nor begins beside one.
LEMMA NoSealBesideReads ==
    ASSUME SealApart, SealApart', CallType, UNCHANGED readers, NEW q \in Readers,
           rpc[q] \notin Unlocking, NEW p \in Procs, SealStep(p)
    PROVE  FALSE
<1>1. pc[p] \notin SealSteps /\ pc'[p] \notin SealSteps
    BY DEF SealApart, readers, call
<1> QED
    BY <1>1 DEF SealStep, SealCheck, SealOpen, SealLock, SealSnapshot, SealWriteTmp,
                SealPublish, SealUnlinkLog, SealRmdir, SealRmSinks, At, Goto, SealSteps, CallType

LEMMA SealBesideReads ==
    ASSUME ReadsInv, QuietNext, UNCHANGED readers, SealApart', NEW q \in Readers
    PROVE  Owed(q)'
<1>1. UNCHANGED <<rpc, rslot, store, answer, due, wiped>>
    BY DEF readers, call, history
<1>2. acked \subseteq acked' /\ erased \subseteq erased'
    BY HistoryGrows DEF QuietNext, Next
<1>3. CASE rpc[q] \in Unlocking
    BY <1>1, <1>3 DEF Owed, Unlocking
<1>4. CASE rpc[q] \notin Unlocking
  <2>1. HostStep \/ \E p \in Procs : UnsealStep(p) \/ Raise(p) \/ Crash(p)
      BY <1>4, NoSealBesideReads DEF QuietNext, CallStep, ReadsInv, QuietInv, TypeOK
  <2>2. blob'[Primary] \in {blob[Primary], None} /\ sinks \subseteq sinks' \cup erased'
      BY <2>1, BesideARead DEF ReadsInv
  <2>3. Owed(q)
      BY DEF ReadsInv
  <2> QED
      BY <1>1, <1>2, <2>2, <2>3 DEF Owed
<1> QED
    BY <1>3, <1>4

\* What a read is owed when it begins: all of it is in the blob, where it finds one.
LEMMA ReadBegins ==
    ASSUME ReadsInv, NEW q \in Readers, ServeCheck(q), UNCHANGED vars,
           SealApart'
    PROVE  Owed(q)'
<1> USE DEF ServeCheck, Step, Begin, KeptInv, ReadTypes
<1>1. /\ UNCHANGED <<blob, sinks, pc, acked, erased, events, data, rslot, store, answer>>
      /\ rpc[q] = "idle" /\ rpc'[q] = (IF IsSealed THEN "key" ELSE "disk")
      /\ due'[q] \in {{}, acked \ erased}
      /\ ~(HalfSealed /\ CallsIdle) => due'[q] = acked \ erased
      /\ HalfSealed /\ CallsIdle => due'[q] = {}
    BY DEF ReadsInv, vars, disk, calls
<1>2. IsSealed <=> blob[Primary] # None
    BY OneNamedResolves DEF ReadsInv, IsSealed
<1>3. ASSUME blob[Primary] # None, due'[q] # {}
      PROVE  acked \ erased \subseteq Contents(blob[Primary])
  <2>1. CASE ~HalfSealed
    <3>1. ~dir[Primary] /\ sinks = {}
        BY <1>3, <2>1, OneNamedResolves DEF ReadsInv, HalfSealed
    <3>2. LiveLog(Primary) = {}
        BY <3>1, OneNamedResolves DEF ReadsInv, QuietInv, LogsApart, LiveLog
    <3> QED
        BY <3>1, <3>2, MemoryIs DEF ReadsInv, QuietInv
  <2>2. CASE ~CallsIdle
    <3>1. PICK p \in Procs : pc[p] # "idle"
        BY <2>2 DEF CallsIdle, At
    <3>2. pc[p] \notin SealSteps
        BY <1>1 DEF SealApart, Unlocking, ReadsInv
    <3>3. pc[p] \in UnsealSteps
        BY <3>1, <3>2 DEF ReadsInv, QuietInv, TypeOK, CallType
    <3>4. sinks \subseteq Contents(blob[Primary]) /\ LiveLog(Primary) \subseteq Contents(blob[Primary])
        BY <1>3, <3>3, BlobHasAll DEF ReadsInv, EraseInv
    <3> QED
        BY <3>4, MemoryIs DEF ReadsInv, QuietInv
  <2> QED
      BY <1>1, <1>3, <2>1, <2>2
<1> QED
    BY <1>1, <1>2, <1>3 DEF Owed, Contents

LEMMA DiskServed ==
    ASSUME ReadsInv, NEW q \in Readers, ServeDisk(q), UNCHANGED vars
    PROVE  Owed(q)'
<1>1. /\ UNCHANGED <<blob, sinks, acked, erased, due>>
      /\ rpc[q] = "disk" /\ rpc'[q] = "pairs"
      /\ store'[q] = [log |-> LiveLog(Primary), sinks |-> {}]
    BY OneNamedResolves DEF ServeDisk, Step, ReadsInv, KeptInv, ReadTypes, vars, disk, history
<1>2. blob[Primary] = None /\ due[q] \subseteq acked
    BY <1>1 DEF ReadsInv, KeptInv, Owed, Begun
<1>3. due[q] \subseteq LiveLog(Primary) \cup erased \cup sinks
    BY <1>2, MemoryIs DEF ReadsInv, QuietInv, Contents
<1> QED
    BY <1>1, <1>3 DEF Owed

LEMMA BlobServed ==
    ASSUME ReadsInv, NEW q \in Readers, ServeOpen(q), UNCHANGED vars
    PROVE  Owed(q)'
<1>1. rslot[q] = Primary
    BY DEF ServeOpen, Step, ReadsInv, Owed
<1>2. /\ UNCHANGED <<blob, sinks, acked, erased, due>>
      /\ rpc[q] = "open" /\ rpc'[q] = "pairs"
      /\ blob[Primary] # None
      /\ store'[q] = [log |-> blob[Primary].log, sinks |-> blob[Primary].sinks]
    BY <1>1 DEF ServeOpen, Step, ReadsInv, KeptInv, ReadTypes, vars, disk, history
<1>3. due[q] \subseteq Contents(blob[Primary]) \cup erased
    BY <1>2 DEF ReadsInv, Owed
<1> QED
    BY <1>2, <1>3 DEF Owed, Contents

LEMMA PairsRead ==
    ASSUME ReadsInv, NEW q \in Readers, ReadPairs(q), UNCHANGED vars
    PROVE  Owed(q)'
<1>1. /\ UNCHANGED <<sinks, erased, due>>
      /\ rpc[q] = "pairs" /\ rpc'[q] = "answered"
      /\ answer'[q] = store[q].log \cup (IF store[q].sinks # {} THEN store[q].sinks ELSE sinks)
    BY DEF ReadPairs, Step, ReadsInv, KeptInv, ReadTypes, vars, disk, history
<1> QED
    BY <1>1 DEF ReadsInv, Owed

LEMMA OtherReads ==
    ASSUME ReadsInv, NEW q \in Readers, UNCHANGED vars,
           \/ UnlockFind(q) \/ UnlockRead(q) \/ UnlockCache(q) \/ Lock(q) \/ LockAll(q)
           \/ ServeKey(q) \/ ServeFind(q) \/ Return(q) \/ Exit(q)
    PROVE  Owed(q)'
<1>1. UNCHANGED <<blob, sinks, acked, erased>>
    BY DEF vars, disk
<1>2. CASE UnlockFind(q) \/ UnlockRead(q) \/ Lock(q) \/ LockAll(q) \/ ServeKey(q) \/ ServeFind(q)
    BY <1>1, <1>2, OneNamedResolves DEF UnlockFind, UnlockRead, Lock, LockAll, ServeKey, ServeFind,
                      Step, ReadsInv, KeptInv, ReadTypes, call, history, Owed
<1>3. CASE UnlockCache(q) \/ Return(q) \/ Exit(q)
  <2>1. Done(q)
      BY <1>3 DEF UnlockCache, Return, Exit
  <2> QED
      BY <1>1, <2>1 DEF Done, ReadsInv, KeptInv, ReadTypes, Owed
<1> QED
    BY <1>2, <1>3

LEMMA ReaderReads ==
    ASSUME ReadsInv, NEW q \in Readers, ReaderStep(q), UNCHANGED vars,
           SealApart'
    PROVE  ReadsInv'
<1>1. QuietInv' /\ KeptInv' /\ OneNamed'
    BY QuietStep, ReaderKeepsErased, OneNamedStep DEF ReadsInv, QuietInv
<1>2. Owed(q)'
    BY ReadBegins, DiskServed, BlobServed, PairsRead, OtherReads DEF ReaderStep
<1>3. ASSUME NEW u \in Readers, u # q PROVE Owed(u)'
  <2>1. UNCHANGED <<blob, sinks, acked, erased>>
      BY DEF vars, disk
  <2>2. /\ rpc'[u] = rpc[u] /\ rslot'[u] = rslot[u] /\ store'[u] = store[u]
        /\ answer'[u] = answer[u] /\ due'[u] = due[u]
      BY <1>3, ReaderMovesOne DEF ReadsInv, KeptInv
  <2> QED
      BY <1>3, <2>1, <2>2 DEF ReadsInv, Owed
<1> QED
    BY <1>1, <1>2, <1>3 DEF ReadsInv

LEMMA ReadsStep ==
    ASSUME ReadsInv, [BindNext]_allVars
    PROVE  ReadsInv'
<1>1. QuietInv' /\ KeptInv' /\ OneNamed'
  <2>1. [Next]_vars
      BY BindIsQuiet DEF QuietNext, Next
  <2> QED
      BY <2>1, QuietStep, BindIsQuiet, KeptStep, OneNamedStep DEF ReadsInv, QuietInv
<1>2. CASE QuietNext /\ UNCHANGED readers /\ SealApart'
    BY <1>1, <1>2, SealBesideReads DEF ReadsInv
<1>3. CASE UNCHANGED allVars
  <2>1. UNCHANGED <<blob, sinks, acked, erased, pc, rpc, rslot, store, answer, due, wiped>>
      BY <1>3 DEF allVars, vars, disk, calls, readers, call, history
  <2> QED
      BY <1>1, <2>1 DEF ReadsInv, SealApart, Owed
<1> QED
    BY <1>2, <1>3, ReaderReads DEF BindNext

\* In a folder that no older version has named, a served read that ends has all of the
\* memory, for any number of readers, records and keys, whichever blobs come and go between
\* its looks and with an unseal_folder at work or crashed beside it.
THEOREM ReadsAreWhole == BindSpec /\ NewFolder => []ReadsWhole
<1>1. ReadsInv => ReadsWhole
    BY DEF ReadsInv, KeptInv, Begun, Owed, ReadsWhole
<1> QED
    BY <1>1, ReadsStep, ReadsInit, PTL DEF BindSpec
=============================================================================
