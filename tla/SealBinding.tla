---------------------------- MODULE SealBinding ----------------------------
(***************************************************************************)
(* Unlocking and served reads (loomground_lock/seal_binding.py) beside     *)
(* Seal.                                                                   *)
(*                                                                         *)
(* A reader is a process with its own _SESSION, one call at a time.  A     *)
(* read is read_pairs: serve, then the knowledge sink; serve_file and      *)
(* replay are its first part.  Each helper resolves the log directory      *)
(* anew, and between any two of them the files may change.  A wrong        *)
(* passphrase makes unlock raise and changes nothing.                      *)
(***************************************************************************)
EXTENDS Seal

CONSTANTS Readers

VARIABLES
    session,    \* reader -> slot -> the cached AES key, or None
    rpc,        \* reader -> where its call is
    rslot,      \* reader -> the blob open_sealed_store has found
    rkey,       \* reader -> the key it holds outside the cache
    store,      \* reader -> what serve gave it: log and sink records, or None
    answer,     \* reader -> the records read_pairs returns, or None
    due,        \* history: what the memory held when the read began
    wiped       \* history: what had been erased when the read began

call    == <<rpc, rslot, rkey, store, answer>>
history == <<due, wiped>>
readers == <<session, call, history>>
allVars == <<vars, readers>>

-----------------------------------------------------------------------------
Stores == [log : SUBSET Records, sinks : SUBSET Records]

ASSUME NoAnswerAssumption ==
    None \notin Keys \cup Stores /\ \A R \in SUBSET Records : R # None

RPcs == {"idle", "unlock_read", "unlock_cache", "disk", "key", "find", "open", "pairs", "answered"}

\* With the types, what a reader holds by where it is.
BindTypeOK ==
    /\ session \in [Readers -> [Slots -> Keys \cup {None}]]
    /\ rpc \in [Readers -> RPcs]
    /\ rslot \in [Readers -> Slots \cup {None}]
    /\ rkey \in [Readers -> Keys \cup {None}]
    /\ store \in [Readers -> Stores \cup {None}]
    /\ answer \in [Readers -> (SUBSET Records) \cup {None}]
    /\ due \in [Readers -> SUBSET Records]
    /\ wiped \in [Readers -> SUBSET Records]
    /\ \A q \in Readers :
          /\ rslot[q] # None <=> rpc[q] \in {"unlock_read", "open"}
          /\ rkey[q] # None <=> rpc[q] \in {"unlock_cache", "find", "open"}
          /\ store[q] # None <=> rpc[q] = "pairs"
          /\ answer[q] # None <=> rpc[q] = "answered"
          /\ rpc[q] = "idle" => due[q] = {} /\ wiped[q] = {}

BindInit ==
    /\ Init
    /\ session = [q \in Readers |-> [s \in Slots |-> None]]
    /\ rpc = [q \in Readers |-> "idle"]
    /\ rslot = [q \in Readers |-> None]
    /\ rkey = [q \in Readers |-> None]
    /\ store = [q \in Readers |-> None]
    /\ answer = [q \in Readers |-> None]
    /\ due = [q \in Readers |-> {}]
    /\ wiped = [q \in Readers |-> {}]

Step(q, here, there) == rpc[q] = here /\ rpc' = [rpc EXCEPT ![q] = there]

\* The call ends, by returning, by raising or with its process.
Done(q) ==
    /\ rpc' = [rpc EXCEPT ![q] = "idle"]
    /\ rslot' = [rslot EXCEPT ![q] = None]
    /\ rkey' = [rkey EXCEPT ![q] = None]
    /\ store' = [store EXCEPT ![q] = None]
    /\ answer' = [answer EXCEPT ![q] = None]
    /\ due' = [due EXCEPT ![q] = {}]
    /\ wiped' = [wiped EXCEPT ![q] = {}]

-----------------------------------------------------------------------------
(* unlock, lock, lock_all *)

UnlockFind(q) ==
    /\ Step(q, "idle", "unlock_read")
    /\ IsSealed
    /\ rslot' = [rslot EXCEPT ![q] = Resolve]
    /\ UNCHANGED <<session, rkey, store, answer, history>>

UnlockRead(q) ==
    /\ Step(q, "unlock_read", "unlock_cache")
    /\ blob[rslot[q]] # None
    /\ rkey' = [rkey EXCEPT ![q] = blob[rslot[q]].key]
    /\ rslot' = [rslot EXCEPT ![q] = None]
    /\ UNCHANGED <<session, store, answer, history>>

UnlockCache(q) ==
    /\ rpc[q] = "unlock_cache"
    /\ session' = [session EXCEPT ![q][Resolve] = rkey[q]]
    /\ Done(q)

Lock(q) ==
    /\ rpc[q] = "idle"
    /\ session' = [session EXCEPT ![q][Resolve] = None]
    /\ UNCHANGED <<call, history>>

LockAll(q) ==
    /\ rpc[q] = "idle"
    /\ session' = [session EXCEPT ![q] = [s \in Slots |-> None]]
    /\ UNCHANGED <<call, history>>

-----------------------------------------------------------------------------
(* serve and read_pairs *)

\* A call of seal_folder or unseal_folder has failed half-way, and a copy it
\* meant to remove may be read, or written, by somebody.
HalfSealed == \E s \in Slots : blob[s] # None /\ (dir[s] \/ sinks # {})

\* Nothing is owed to a read that finds the folder half sealed, unless it is a
\* running unseal_folder that has put it in that state.
Begin(q) ==
    /\ due' = [due EXCEPT ![q] = IF HalfSealed /\ CallsIdle THEN {} ELSE acked \ erased]
    /\ wiped' = [wiped EXCEPT ![q] = erased]

\* Mutant of ServeCheck: a folder with a log directory is served from it.
ServeCheckDir(q) ==
    /\ Step(q, "idle", IF IsSealed /\ ~dir[Resolve] THEN "key" ELSE "disk")
    /\ Begin(q)
    /\ UNCHANGED <<session, rslot, rkey, store, answer>>

ServeCheck(q) ==
    /\ Step(q, "idle", IF IsSealed THEN "key" ELSE "disk")
    /\ Begin(q)
    /\ UNCHANGED <<session, rslot, rkey, store, answer>>

\* The log directory's files, or nothing where there is no directory.
ServeDisk(q) ==
    /\ Step(q, "disk", "pairs")
    /\ store' = [store EXCEPT ![q] = [log |-> LiveLog(Resolve), sinks |-> {}]]
    /\ UNCHANGED <<session, rslot, rkey, answer, history>>

ServeKey(q) ==
    /\ Step(q, "key", "find")
    /\ session[q][Resolve] # None
    /\ rkey' = [rkey EXCEPT ![q] = session[q][Resolve]]
    /\ UNCHANGED <<session, rslot, store, answer, history>>

ServeFind(q) ==
    /\ Step(q, "find", "open")
    /\ IsSealed
    /\ rslot' = [rslot EXCEPT ![q] = Resolve]
    /\ UNCHANGED <<session, rkey, store, answer, history>>

\* Mutant of ServeOpen: the key stays with the call.
ServeOpenKeepKey(q) ==
    LET m == blob[rslot[q]] IN
    /\ Step(q, "open", "pairs")
    /\ m # None
    /\ m.key = rkey[q]
    /\ store' = [store EXCEPT ![q] = [log |-> m.log, sinks |-> m.sinks]]
    /\ rslot' = [rslot EXCEPT ![q] = None]
    /\ UNCHANGED <<session, rkey, answer, history>>

ServeOpen(q) ==
    LET m == blob[rslot[q]] IN
    /\ Step(q, "open", "pairs")
    /\ m # None
    /\ m.key = rkey[q]
    /\ store' = [store EXCEPT ![q] = [log |-> m.log, sinks |-> m.sinks]]
    /\ rslot' = [rslot EXCEPT ![q] = None]
    /\ rkey' = [rkey EXCEPT ![q] = None]
    /\ UNCHANGED <<session, answer, history>>

\* The served sinks if the store has any, else the disk's as they are by now.
ReadPairs(q) ==
    /\ Step(q, "pairs", "answered")
    /\ LET knowledge == IF store[q].sinks # {} THEN store[q].sinks ELSE sinks
       IN  answer' = [answer EXCEPT ![q] = store[q].log \cup knowledge]
    /\ store' = [store EXCEPT ![q] = None]
    /\ UNCHANGED <<session, rslot, rkey, history>>

\* SealError: no blob where one is looked for, no key, or a key it was not made
\* with.
ReadRaises(q) ==
    \/ rpc[q] = "unlock_read" /\ blob[rslot[q]] = None
    \/ rpc[q] = "key" /\ session[q][Resolve] = None
    \/ rpc[q] = "find" /\ ~IsSealed
    \/ rpc[q] = "open" /\ (IF blob[rslot[q]] = None THEN TRUE ELSE blob[rslot[q]].key # rkey[q])

Return(q) ==
    /\ rpc[q] = "answered" \/ ReadRaises(q)
    /\ Done(q)
    /\ UNCHANGED session

\* The process goes away, and its keys with it.
Exit(q) ==
    /\ session' = [session EXCEPT ![q] = [s \in Slots |-> None]]
    /\ Done(q)

ReaderStep(q) ==
    \/ UnlockFind(q) \/ UnlockRead(q) \/ UnlockCache(q) \/ Lock(q) \/ LockAll(q)
    \/ ServeCheck(q) \/ ServeDisk(q) \/ ServeKey(q) \/ ServeFind(q) \/ ServeOpen(q)
    \/ ReadPairs(q) \/ Return(q) \/ Exit(q)

-----------------------------------------------------------------------------
\* Every seal draws a salt, and so has a key, of its own.
KeysInUse ==
    LET blobs == {blob[s] : s \in Slots} \cup {tmp[s] : s \in Slots} \cup {man[p] : p \in Procs}
    IN  {m.key : m \in blobs \ {None}}
            \cup {rkey[q] : q \in Readers} \cup {session[q][s] : q \in Readers, s \in Slots}

FreshSalt ==
    \A p \in Procs : man[p] = None /\ man'[p] # None /\ At(p, "snapshot")
                        => man'[p].key \notin KeysInUse

\* A quiet host that also keeps its reads off while seal_folder runs.
Unlocking == {"idle", "unlock_read", "unlock_cache"}

SealApart ==
    \A p \in Procs, q \in Readers : pc[p] \in SealSteps => rpc[q] \in Unlocking

BindNext ==
    /\ \/ QuietNext /\ FreshSalt /\ UNCHANGED readers
       \/ \E q \in Readers : ReaderStep(q) /\ UNCHANGED vars
    /\ SealApart'

BindSpec == BindInit /\ [][BindNext]_allVars

-----------------------------------------------------------------------------
\* A read that returns has every record the memory held when it began and that
\* was not erased since, also while unseal_folder is at work: the half-restored
\* directory is not served, as the blob is what serve looks for first and what
\* unseal_folder removes last.
ReadsWhole == \A q \in Readers : answer[q] # None => due[q] \subseteq answer[q] \cup erased

\* No read returns a record that was erased before it began, whatever keys its
\* process still holds.
ErasedNotRead == \A q \in Readers : answer[q] # None => answer[q] \cap wiped[q] = {}
=============================================================================
