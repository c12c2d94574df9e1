------------------------------ MODULE SealInv ------------------------------
(* Why a quiet host loses nothing: what holds at each step of a call. *)
EXTENDS SealVault

\* Two log directories share no file, and only a directory holds one.
LogsApart ==
    /\ \A s, t \in Slots : events[s] # None /\ events[s] = events[t] => s = t
    /\ \A s \in Slots : ~dir[s] => events[s] = None

\* A manifest without an events.jsonl entry has no log records.
ManifestsWhole ==
    /\ \A s \in Slots : blob[s] # None /\ ~blob[s].logged => blob[s].log = {}
    /\ \A s \in Slots : tmp[s] # None /\ ~tmp[s].logged => tmp[s].log = {}
    /\ \A p \in Procs : man[p] # None /\ ~man[p].logged => man[p].log = {}

\* A call has the folder to itself.
Alone ==
    /\ OneCall
    /\ \A p \in Procs : ~At(p, "idle") => WritersIdle

\* The file a writer has open is a folder's events.jsonl.
WritersLinked ==
    \A w \in Writers : wfd[w] # None => \E s \in Slots : events[s] = wfd[w]

\* seal_folder: no blob until it is published; the snapshot is the memory until
\* the log goes, and what is left of the memory is in the blob from then on.
SealProgress(p) ==
    /\ pc[p] \in {"open", "lock", "snapshot", "write_tmp", "publish"} => blob[slot[p]] = None
    /\ pc[p] \in {"write_tmp", "publish", "unlink_log"} => LiveLog(slot[p]) = man[p].log
    /\ pc[p] \in {"write_tmp", "publish", "unlink_log", "rmdir", "rm_sinks"}
            => sinks = man[p].sinks
    /\ pc[p] = "publish" => tmp[slot[p]] = man[p]
    /\ pc[p] \in {"unlink_log", "rmdir", "rm_sinks"} => blob[slot[p]] = man[p]

\* unseal_folder: nothing is in the way of what it restores, the blob is the one
\* it decrypted, and each half of the memory is back once its step is done.
UnsealProgress(p) ==
    /\ pc[p] \in {"verify", "decrypt", "mkdir", "restore_log"} => events[slot[p]] = None
    /\ pc[p] \in {"verify", "decrypt", "mkdir", "restore_log", "restore_sinks"} => sinks = {}
    /\ pc[p] \in {"mkdir", "restore_log", "restore_sinks", "unlink_blob"}
            => blob[slot[p]] = man[p]
    /\ pc[p] \in {"restore_sinks", "unlink_blob"} => LiveLog(slot[p]) = man[p].log
    /\ pc[p] = "unlink_blob" => sinks = man[p].sinks

\* The inductive invariant of QuietSpec behind NothingLost.
QuietInv ==
    /\ TypeOK
    /\ LogsApart
    /\ ManifestsWhole
    /\ Alone
    /\ WritersLinked
    /\ \A p \in Procs : SealProgress(p) /\ UnsealProgress(p)
    /\ NothingLost
=============================================================================
