# loomground-lock: a TLA+ model

loomground-lock is a Python library that stands between a host program and the
outside: it seals a folder's memory at rest, serves reads from the sealed blob,
remembers a person's approval decisions, and decides whether a text, a tool call
or a tool response may pass. This directory holds TLA+ modules for the parts of
it with state and steps, TLC configurations that check them on small instances,
and TLAPS proofs of what matters most, for instances of any size.

File and line references are to `src/loomground_lock/` unless a path says
otherwise. `PROJECT.json` maps every definition that models code to its lines.

## The system

| component | state | operations | who it meets |
|---|---|---|---|
| `seal.py` | log directory, `events.jsonl`, knowledge sinks, `.sealed` blob and its `.tmp`, an advisory `flock` | `seal_folder`, `unseal_folder`, `open_sealed_store`, `read_through` | the host's appenders (same `flock`), its sink writers (no lock), its pending-erasure hooks, crashes |
| `seal_binding.py` | `_SESSION`: folder name to derived key, in memory | `unlock`, `lock`, `lock_all`, `serve`, `serve_file`, `replay`, `read_pairs` | the blob and the files of `seal.py`, changing under it |
| `decisions.py` | a JSONL file, an index per store, `<path>.tmp` | `remember`, `recall`, `erase`, `erase_subject` | other stores on the same file, the clock, failing writes |
| `host_deps.py` | hook attributes, `_provider`, `_wired`, `_wiring_error` | `register`, `set_wiring_provider`, `clear`, `ensure_wired` | the host's provider and hooks; every thread that scans |
| `core.py`, texts | none of its own | `lock_text` (Tiers B, B+, C, M, decision, remediation, audit line) | the hooks of `host_deps.py` |
| `core.py`, tools | an append-only audit file | `egress`, `ingress`, `validate_token`, `AuditLog.write_*` | the clock, the environment, the operator's trust store, failing writes |
| `core.py`, ensemble | none | `tier_c_semantic_check` | the host's models |
| `tier_c_default.py`, `tier_m.py` | none | the built-in semantic tier; moderation rules | called by `lock_text` |
| `lock_classify.py` | `lock` and `clean` blocks of stored pairs | `lock_classify_pair`, `reclassify_all_pairs` | `lock_text`; the host's memory port |
| `oversight.py`, `verdicts.py` | none | level and verdict mappings | the host |
| `injection_scan.py`, `scanned_response.py` | none | pattern scan; an immutable wrapper | the host |
| `credential_resolver.py` | none (reads files, environment) | `resolve_secret`, `arm_status` | the key directory |

What is hard in it:

* **Files without transactions.** Sealing is some eight file operations, unsealing
  six, and a process may die between any two. Which copy of the memory is complete
  must be decidable from the disk at every point.
* **Locks on inodes.** The appenders' lock is taken on a file that sealing unlinks.
* **Looking twice.** The log directory is resolved anew by each helper
  (`_resolve_log_dir`), from what exists at that moment; `serve` looks three times.
* **Many stores, one file.** Each `DecisionsStore` loads once and rewrites the whole
  file on an erase, without a lock.
* **Lazy wiring.** The first scan fills the hooks, which other threads read meanwhile.
* **What changes under a decision.** The clock, the environment and the trust store while a
  token is judged; the rules' version while a memory is swept; the audit file, which threads
  append to and a full disk cuts short.
* **Failing closed.** Every way in which a check cannot run (a hook that crashes, a
  provider that raises on its way) must end in the same refusal.

The full list, each at its line, is `hazards` in `PROJECT.json`.

## The modules

| module | models | notes |
|---|---|---|
| `Vault` | what sealing promises: two copies, and a record leaves one only while the other has it | abstract |
| `Seal` | `seal.py`, one action per file operation another process can observe | core |
| `SealVault` | `Seal` with the mapping to `Vault` | refinement |
| `SealInv` | the inductive invariant of the quiet host | for the proofs |
| `SealProofs`, `SealQuietProofs` | theorems about `Seal` and, of the quiet host, `SealVault` | TLAPS |
| `SealBinding` | `seal_binding.py` and `open_sealed_store`, beside `Seal` | composes with `Seal` by EXTENDS |
| `SealBindingProofs` | theorems about `SealBinding` | TLAPS |
| `Decisions` | `decisions.py` | stands alone |
| `DecisionsProofs` | theorems about `Decisions` | TLAPS |
| `HostDeps` | `host_deps.py` | a component without a specification of its own |
| `Moderation` | Tier M, `tier_m.py` | operators, no state |
| `LockText` | `lock_text` and what it calls, over `HostDeps` | composes with `HostDeps` and `Moderation` by EXTENDS |
| `LockProofs` | theorems about `LockText` | TLAPS |
| `Gate` | `egress`, `ingress`, `validate_token`, `AuditLog` | stands alone |
| `GateProofs` | theorems about `Gate` | TLAPS |
| `Pairs` | `lock_classify.py` | stands alone |
| `PairsProofs` | theorems about `Pairs` | TLAPS |
| `Ensemble` | `tier_c_semantic_check` | stands alone |
| `EnsembleProofs` | theorems about `Ensemble` | TLAPS |
| `MC...` | instances for TLC: symmetry sets, records, texts, requests | `MCHost` is the sum of `Seal`, `Gate`, `Pairs` and `Ensemble` |

### Seal

State: `dir`, `events`, `data`, `sinks`, `blob`, `tmp`, `pending` are the disk (a
path leads to an inode, an inode has records); `flock` the kernel's locks; `pc`,
`slot`, `fd`, `man`, `marks` a call in progress (its step, the directory it
resolved, its open file, the manifest it packed or decrypted, the erasure markers
it verified); `wfd`, `wrec` an appender's open file and record; `acked`, `erased`
are history. Slots are the two names `_resolve_log_dir` chooses from.

`SealCheck .. SealRmSinks` are lines 145-200 of `seal_folder` in order,
`UnsealCheck .. UnsealApply` lines 215-273 of `unseal_folder`. `Raise` is a step
that finds the disk other than it needs; `Crash` ends a call anywhere: process
death, an I/O error, a wrong passphrase, a refused marker. `Leave` closes the
file and so drops the lock. The host's part (`WriterOpen`, `WriterAppend`,
`SinkWrite`, `MarkErase`) is external and does what `seal.py` relies on.

The module has three specifications. `Spec` is anything at all. In `SerialSpec`
the host runs one call at a time, appenders beside it. In `QuietSpec` it also
keeps its writers off while a call runs. `seal.py` has no lock around a call, so
which of these holds is the host's affair; the properties say under which they hold.

### SealBinding

A reader is a process with its own `_SESSION`. `UnlockFind/Read/Cache` are
`unlock`; `ServeCheck`, then `ServeDisk`, or `ServeKey`, `ServeFind`, `ServeOpen`,
are `serve`; `ReadPairs` joins the served log with the served sinks, or the
disk's where the store has none (line 162). `Exit` takes the process and its keys.
`BindSpec` is the quiet host, every seal with a fresh key (a fresh salt, seal.py:173),
and no read while `seal_folder` runs (`SealApart`): a read that overlaps it may
rightly see an empty folder (see divergences). Reads do overlap `unseal_folder`,
its crashes, and everything else. `due` and `wiped` remember what the memory held and
what had been erased when a read began.

### Decisions

A line of the file is the record it parses to or, if it does not parse, a piece: what is
left of a record's line, with the preview it holds and whether reading it raises (it is cut
within a character, or is JSON and not an object). Lines are a set; `tail` says whether the
file ends in an unterminated line; `index` is a store's `_by_hash`; `pc`, `want`, `out` an
erase in progress.

Pieces come of a write cut short (`RememberTorn`), of a reason with a line separator
(`RememberSplit`), and of a record glued to an unterminated line (`Remember`). No rewrite
changes them (decisions.py:250-252), so neither does `Blanked`. Where one raises, a store
cannot be made (`Open` needs a file it can read, or cannot open at all) and an erase raises
having blanked its index only (`EraseRaises`). `EraseFails` is a swallowed `OSError`, `Close`
a store that goes away anywhere. `mishaps` remembers torn writes, failed rewrites and stale
ones (from a reading of the file that another store has since outdated), so that each
property says which it survives.

### HostDeps, Moderation and LockText

`HostDeps` has two of the hooks: the semantic check, and the predicate that promises
a real backend. `EnsureCheck` and `EnsureSet` are `ensure_wired` up to the
provider's call, `ProviderFills` any part of its work, `ProviderReturns` and
`ProviderRaises` its ends. The host may register, replace and clear at any time no
call is in progress. `LockText` runs `lock_text` as a thread, one action per read of
the registry (`Terms` enters `ensure_wired`; `ReadHook`, `ReadError`, `Required`
follow core.py:996, 997, 1017). A text is what each tier would find in it. In
`Spec` threads interleave anywhere; in `WiredFirstSpec` the host lets one thread
through `ensure_wired` before the others go on.

`Moderation` says what becomes of each part of a call's `moderation_rules`: banned terms,
banned patterns, categories and their backend, with every form in which a part is not
enforceable. `TierRaises` is what no except clause of the tier is for; `Moderated` is
core.py:1048-1060, where an exception of the tier takes all its findings with it and is
stood in for only where `RequiresBackend`. The rules are chosen in the step that looks at
them (`Moderate`), as nothing does before.

### Gate

A thread's request is a call, a response, or another line for the audit file (`lock_text`,
a bypass). Its content is the set of its leaves, each with its path of keys, so that the
depths at which names are found, patterns are found and things are taken out can differ as
they do in the code. `Begin` is the scans; `TokenEnv`, `TokenVerify`, `TokenTime` are
`validate_token` in its order (environment and signature, then expiry and tool), one action
for each thing it looks at that may change; `Audit` decides and writes. `AuditRaises` is a
write that fails, with nothing or half a line on the disk, `Die` a process or library that
does. `Tick`, `SetStrictSig` and `WriteStore` are the world. `live`, `trusted` and `forced`
remember of a request's token whether it had not expired when the call came in, whether the
store held its key at some moment since, and whether signatures were required all the while.
One `write` of a line is taken as atomic, which Python's buffer makes it for lines of up to
8 KiB.

### Pairs

A pair is the words in its slots, grouped as the code treats them: scrubbed into the
fingerprint, put there as they are, made into triples. `rules` is the
`LOCK_DISCLAIMER_VERSION` a process was started with, `release` the installed one. A sweep
lists (`SweepList`), skips or rewrites each pair in any order, and returns; `Restart` ends a
process anywhere. `overlapped` and `disturbed` say what a property excepts: an ingest under
a sweep that had listed the pair to rewrite it, and a write under a sweep by a process with
other rules.

### Ensemble

`models` is asked one by one; `votes` is `per_model`, which has one entry for each name,
`given` the answers themselves, of which `Counted` are the last of each name. The property
is stated by the answers and the code counts by the names.

`MCHost` explores `Seal` (one call at a time), `Gate`, `Pairs` and `Ensemble` side by side,
`part` saying which one a behaviour is about: its states are the sum of theirs, not the
product, and none reads what another writes.

## Runs

Each row is a question. "pass" runs finish with no error; "violation" runs
end in the counterexample named, one for each disagreement of code and text.

| run | module | specification | checks | instance |
|---|---|---|---|---|
| `live` | MCSeal | FairSpec | CallsReturn | 2 overlapping calls, 1 appender |
| `reads` | MCSealBinding | BindSpec | NothingLost, ImplementsVault, BindTypeOK, ReadsWhole, ErasedNotRead | 1 call, 2 readers, 2 records (1 erasable), 4 keys |
| `decisions` | MCDecisions | Spec | TypeOK, DecisionsPersist, EraseSticks, AllowOnlyByClearance | 2 stores, 1 hash, 1 subject, 3 moments, 2 events |
| `text` | MCLockText | WiredFirstSpec | TypeOK, FailClosed, FloorHolds, RulesHold | 2 threads, 5 texts, 5 sets of rules, 2 modes, every provider |
| `host`, seal | MCHost | HostSpec (SerialSpec) | TypeOK, ErasureIsFinal, BlobRemovedOnlyAfterRestore, DeleteOnlySealed | 1 call, 2 appenders, 3 records |
| `host`, gate | MCHost | HostSpec | GateTypeOK, Audited, TokenHonoured, EnforcedContent, TighterPassesNoMore | 2 threads, 33 requests, 2 calls, 2 moments, 2 keys, 1 torn line |
| `host`, pairs | MCHost | HostSpec | PairsTypeOK, CleanObeysRules, SweepLeavesNoneBehind, IngestKept | 2 processes, 2 pairs, 2 texts, 2 versions, 1 ingest |
| `host`, ensemble | MCHost | HostSpec | EnsembleTypeOK, AgreementIsReal | 2 or 3 models, one of them asked twice |
| `overlap` | MCSeal | Spec | SealNotReplaced is violated | 2 calls |
| `orphan` | MCSeal | SerialSpec | AppendReachesMemory is violated | 1 call, 1 appender |
| `legacy` | MCSeal | QuietSpec | SealedIsFound is violated | both directory names |
| `split` | MCDecisions | Spec | AnyReasonPersists is violated | 1 store |
| `race` | MCLockText | Spec | FailClosed is violated | 2 threads |
| `overflow` | MCLockText | WiredFirstSpec | RulesEnforced is violated | 1 thread |
| `capture` | MCHost | HostSpec | FindingsCaptured is violated | that of `host` |

Bounds, and why they are enough for what is asked:

* *Records* (2 or 3): one to be erased, one in the log, one in the sinks; the code treats
  records alike, so a lost one is among any three.
* *Procs*: one where calls are serial by the specification (a process calls again and
  again, so any sequence of seals and unseals occurs), two where they overlap.
* *Inodes* (2 or 3): one linked, one held open after its unlinking, one new. With fewer
  than an appender needs, `OpenEvents` would be disabled; `FreeInodes` reuses identities.
* *Keys*: one where nothing turns on it; four for `reads`, which is a key for the blob,
  and one for each place an older one can survive at a time.
* *Times* {0, 1, 2} with TTL 1: a block made first, an allow later, and a moment at which the
  one would have lapsed and the other not. `MaxEvents` = 2 counts remembered decisions,
  pieces, and rewrites that fail or are stale, together, and bounds each store's index with
  the pieces: two decisions, or one and a mishap. `Previews`: every text mentions the subject.
* *Slots* (1 or 2): one for `reads` and `host`; two for `legacy`. What holds with two is
  proved: see below for what a folder with an older name excepts.
* *Texts*: for each tier one text it alone would stop, one only the host's check would
  stop, one clean. *Rules*: none, one part that cannot be enforced, a part that takes the
  findings of another with it (with categories and without), a backend that does.
* *Requests*: every place a value can be in (top, nested, in a list, in a list of lists),
  in scope and out of it, with a pattern and without, in both enforcing modes; a token that
  is good, for another tool, or without a valid signature; expiry and a withdrawn key come
  with the clock and the store. Two calls, so that a line can be glued to another thread's.
* *Versions* 1 and 2: one pair of texts becomes refused by the second. One ingest beside two
  sweeps is enough to be lost and to be in the way; pairs are treated alike, so two.
* Deadlock is not checked: a host may stop calling, and the bounded histories end.

Fairness is assumed only in `live`. A call that has begun goes on (weak fairness of
`Progress(p)`: it is straight-line code in a running process); a call waiting for
`flock` gets it if it is free again and again (strong fairness of `SealLock`: the
kernel wakes the waiters of a released lock). Nothing is assumed of appenders, who
hold the lock only within one step, nor of crashes.

## Proofs

*`SealProofs!TypeCorrect`*: `Spec => []TypeOK`, for every set of calls, writers,
records, inodes and keys. `TypeOK` is inductive as it stands, since it ties the file
a call holds, its manifest and its locks to the step the call is at; the proof has a
step per action.

The other theorems of `SealProofs` about `SerialSpec` have appenders between any two
steps of a call. `DeletesOnlySealed` and `RemovesBlobLast` (action properties) come from
`SerialInv`: from its lock to the unlinking, the file `seal_folder` has locked is the folder's
log and has what was packed, since appenders wait (`SealsWhole`); what `unseal_folder` has put
back may have grown, but is still there (`RestoresWhole`). `ErasuresAreFinal` and
`SerialSealsOnce` come from `EraseInv`: a blob and a `.tmp` are never of the same folder, so a
call that erases leaves neither (`Unmixed`); nothing still to be written is erased already
(`Written`); once an unseal has begun, the legacy directory is gone and calls work under the
new name (`Renamed`); no file under that name and no call in progress has an erased record
(`Gone`).

*The two names.* A host that never had the older version does not have a legacy directory.
`NewFolder` says so of the first state, and `OneNamed`, inductive over every interleaving,
that nothing then comes under the old name (`OneNamedStep`), so `_resolve_log_dir` never chooses
it. `ErasuresAreFinal`, `NewFoldersAreFound`, `ReadsAreWhole` and, where anything is ever
erased, `QuietImplementsVault` are theorems of such folders. With a legacy directory they fail:
sealing it orphans its blob (run `legacy`), in which a record that is later erased remains and
which no read opens. `QuietLosesNothing` and `ErasedIsNotRead` need no such hypothesis: the
orphan is not lost, and what is in it is not found.

*`SealQuietProofs!QuietLosesNothing`*: `QuietSpec => []NothingLost`. `NothingLost` is
not inductive: that `SealUnlinkLog` loses nothing depends on the blob being what was
snapshotted, on nothing having been appended since, and on no other call. `QuietInv`
(in `SealInv`) says so: `Alone` (one call, and no writer during it), `SealProgress` and
`UnsealProgress` (what is equal to the manifest at each step), `LogsApart` (the two
directories share no file), `ManifestsWhole`, `WritersLinked` (a writer's file is a
folder's log, so what it appends is found). Each action of the quiet host is
shown to preserve it in a lemma of its own.

*`SealQuietProofs!QuietImplementsVault`*: `QuietSpec => ImplementsVault`. Initial states map
to initial states, and each step of the quiet host is a step of `Vault` or a stutter: a step
that writes a copy only adds to it, one that removes a copy finds the other equal to it by
`QuietInv`, and applying a marker gives up only what the host erased (`Marked`, the conjunct
added to `QuietInv`: what is applied was marked, and the blob it came from is gone).
`QuietKeepsRecords` draws the consequence of any vault: no step takes the last copy of a record
that may not be erased.

*What the violations leave standing.* Three sentences of the documentation that a run refutes
are theorems under the discipline its counterexample breaks: `SerialSealsOnce` (calls do not
overlap), `QuietAppendsReach` (writers keep off while a call runs; it does not say which overlaps lose
an append: run `orphan` is one, an append between `mkdir` and `write_bytes` of `unseal_folder`,
seal.py:252-260, another), `NewFoldersAreFound` (no
legacy directory). `WiredFailsClosed` below is a fourth.

*`SealBindingProofs`*: readers change no file, so `BindSpec` implements `QuietSpec`
(`BindSpecIsQuiet`), and `ReadersLoseNothing` and `ReadersBesideVault` are the theorems above.
`ReadersTyped` ties what a reader has in hand to its step. `ErasedIsNotRead` comes from
`KeptInv`: `EraseInv`, and of each read that what it was given has nothing that had been
erased when it began (`Withheld`). `ReadsAreWhole` comes from `ReadsInv`: with `QuietInv` and
`KeptInv`, what a read is owed is where it is going to look (`Owed`): in the files where it
found no blob; in the blob, as long as that is there, because no `seal_folder` runs beside a
read to put another in its place and because, while `unseal_folder` runs and has not removed
it, the blob has everything the disk has (`BlobHasAll`); at last in what it was given.

*`LockProofs`*: `FloorAlwaysHolds` and `RulesAlwaysHold` are theorems of `Spec`, so of
every interleaving of scanning and wiring threads. `LockInv` says of each step which tiers'
findings are in `found` by then (`Known`), with the hook and the error as the thread read
them, whatever they are now. That is why these two survive the race that breaks `FailClosed`.
`WiredFailsClosed` is `WiredFirstSpec => []FailClosed`. `WiredInv` follows the promise:
it is in the hook, in the error, in a provider still to be run, or in the part of a running
one that is not yet filled in (`PromiseKept`); one thread at a time is in `ensure_wired`, and
whoever is past it finds the hooks wired (`OneWires`); so what a thread read still holds, and
a promise not kept is among its findings (`Sees`). `TextsAlwaysTyped` adds to the types what
ties them together under `Spec`: a provider runs only while the registry says wired, nobody
is in `ensure_wired` past the reads of the registry, and so the host, which wires between
calls, finds none running (`RegistryInv`).

*`GateProofs`*: `TokenAlwaysHonoured` rests on `TokenInv`, which says at each of
`validate_token`'s looks what has been established and what may have changed since
(`live`, `trusted`, `forced`). `AlwaysAudited` counts: returned decisions without a readable
line are at most the lines cut short, and one fewer while the file ends in half a line
(`AuditInv`), since the next line will be glued to it. `EnforcedContentHolds` and
`TighterNeverPassesMore` compare what is sent with the request, for contents of any shape and
depth: they need of a path only that it is a sequence with a first and a last key. The type
invariant is inductive only with `TokenInv` and the numbering of the calls (`Numbered`).

*`PairsProofs`*: one invariant, `PairsInv`, for three theorems. An undisturbed sweep has
listed every pair that is not at its version (`SweepSound`), and holds of each the text
ingested last, unless it was ingested again since (`ListedKept`). `PairsAlwaysTyped` rests on
what classification makes of any text (`FormsArePairs`).

*`EnsembleProofs`*: `AgreementIsAlwaysReal`, for ensembles of any length and with any name
in them any number of times. The code counts `per_model`, a dictionary; the property is about
the answers as they came. Of each name the vote is its last answer, unavailable counting as
insufficient (`EnsembleInv`), so what is counted is what is cast (`CastIsCounted`). No
induction over the answers is needed: each `Ask` adds one, and overrules an earlier one of the
same name.

*`DecisionsProofs`*: `DecisionsAlwaysPersist` from `Whole` (every rewrite on its way has the
lines of what was told, and so has the temporary file of a store about to replace), which
excepts stale rewrites only. `ErasuresStick` comes from `Clean`: as long as no reading is stale
one store at a time rewrites, with what it read, less what is gone. It is about lines that
parse, excepts failed and stale rewrites, and says nothing of pieces, whose previews do stay.
`ClearancesOnly` is an action property: no step but a clearance adds an allow to a tier or
takes the last block out of one (`TiersHold`). `DecisionsAlwaysTyped` is `Types`, which the
others use (a piece is no record, `PieceType`), and `Tidy`: the sessions of what was told, and
nothing held outside a call.

The assumptions are those of the `ASSUME`s of the modules, which TLC evaluates in the runs:
`None` and its like are none of the data (`NoAnswerAssumption`, `DecisionAssumption` and the
rest); erasable records are records; previews are subjects or none; texts, modes, rules, requests, texts of pairs and places of
failure have their types; moments are natural numbers and 0 is among them; no store's session is
called `NoSession`. The bounds on counters (`MaxEvents`, `MaxCalls`, `MaxTime`, ...) may be any
natural number.

Only model-checked: `CallsReturn`, since liveness is out of the prover's reach. Every other
property of a passing run is a theorem too. The violated ones are not theorems, but as above.

## Where code and text differ

Shown by a run:

* `overlap` (seal.py:149). Two `seal_folder` calls: both pass the "already sealed"
  test, the second waits for the lock on the file the first unlinks, then publishes an
  empty snapshot over the first one's blob.
* `orphan` (seal.py:159). An appender that waited for `seal_folder` appends to the
  unlinked file and reports success.
* `legacy` (seal.py:46). Sealing a folder with the legacy directory name removes the
  directory that made `_resolve_log_dir` choose that name; the blob is not found again.
  A record the host erases afterwards stays in it.
* `split` (decisions.py:135). A reason with U+2028, U+2029 or U+0085 is written as one
  line and read back as two that do not parse.
* `race` (host_deps.py:119). A thread that scans while another runs the provider sees
  neither the promise nor the hook, and lets the text pass.
* `overflow` (tier_m.py:84). A banned pattern such as `a{99999999999999999999}` makes
  `re.compile` raise `OverflowError` (a deeply nested one `RecursionError`), which the tier
  does not expect; the findings of all its rules are lost and, without categories, the text
  passes. tier_m.py:8-10 and 59 say that such a pattern is never skipped and the tier never
  raises.
* `capture` (core.py:841). `ingress` redacts a pattern in a nested value only if its own key is
  a top-level one (core.py:844-846); otherwise the finding is reported and the value goes on.
  The comment at 835 has every high-severity finding captured.

Seen while modelling, without a run of their own:

* A `seal_folder` that stops between `os.replace` and its last `rmtree`, or leaves a sink
  behind, makes a folder that both `seal_folder` and `unseal_folder` refuse until somebody
  removes the leftovers (seal.py:145-152, 221-226). Nothing is lost (`NothingLost`).
* A torn line at the end of the decisions file swallows the next record
  (decisions.py:215); a record appended during another store's rewrite is lost
  (decisions.py:240); a rewrite that fails is reported as done, with the preview still on disk
  (decisions.py:260). These are the mishaps the properties of `Decisions` except.
* Lines that do not parse are written back as they are (decisions.py:250-252): the preview in
  a record that was split, torn or glued to a torn line stays on disk after `erase` and
  `erase_subject`, whose docstring says "Blank any preview that still contains" the subject
  (decisions.py:274). `EraseSticks` is about the lines that parse.
* A line that is JSON but no object (part of a split reason), or a file cut within a character,
  makes every new `DecisionsStore` and every erase raise (decisions.py:135-144, 241-254) until
  somebody repairs the file.
* A semantic hook that crashes, where no backend was promised, is stood in for by the
  built-in tier and adds no finding (core.py:1017), which tests/test_host_deps.py:71 pins;
  docs/seam.md:29-32 says the decision then refuses.
* A `serve` that overlaps `seal_folder` may find neither blob nor directory and return an
  empty store (seal_binding.py:81-84).
* A key cached before an unseal and a new seal makes every read raise, while `state` says
  unlocked (seal_binding.py:87).
* A text is minimised only if no pattern was found in it, and minimising replaces patterns:
  what is passed on is the text (core.py:1113; core.py:1037 says "minimise (pattern spans
  redacted)").
* `moderation_rules` that are no dictionary are ignored (tier_m.py:61).
* `egress` reports the dotted path of a nested field among the stripped ones and strips by
  top-level name: `{"a": {"b": 1}, "c": 2}` with scope `{a, c}` is sent whole with
  `stripped_fields == ["a.b"]`, in the audit line too (core.py:777-778). A list in a list is not
  scanned (core.py:478-485). `EnforcedContent` excepts these and run `capture`, nothing else.
* In strict mode a call without a token is sent (core.py:507-518: a low finding), with an
  expired one refused.
* A key that the cryptography package cannot load raises `UnsupportedAlgorithm` out of
  `validate_token` (core.py:576-583); no decision is made.
* `scope`, `type`, `authority_tier` and `body_format` of a pair, and values that are no
  strings, are in the clean fingerprint as they are (lock_classify.py:112-125); line 83 calls
  it "the pre-scrubbed safe view".
* `reclassify_all_pairs` writes back what it listed: a pair ingested meanwhile is replaced
  by its older self (lock_classify.py:221-231). A slot dropped because `lock_text` was
  unavailable stays dropped under the current version (lock_classify.py:46-50, 226).
* The ensemble returns `None` also when one model was unavailable and the others answered
  "insufficient" (core.py:1317-1319), where the docstring at 1275-1276 has it for "every model
  was unavailable" and the one at 1241-1242 has "insufficient" on disagreement. A model named
  twice votes once, by its last answer (core.py:1315). `AgreementIsReal` claims neither
  docstring's case of no verdict, only that one model at least was unavailable and none knew.
* A key cached by `unlock` may be filed under another name than the blob's, where a folder has
  both directory names (seal_binding.py:52-53). It then opens nothing; the one-name instance of
  `reads` does not meet it.
* `to_payload` writes the audit into the `lock` block of the wrapped value itself and leaves
  an earlier one there (scanned_response.py, `setdefault`): a value sent twice carries the
  first audit.
* A key file that is removed between `is_file` and `stat`, or is not UTF-8, makes
  `resolve_secret` raise (credential_resolver.py:95-103).
* A provider that raises a `BaseException` leaves the registry wired without an error
  recorded (host_deps.py:124).

## Not modelled, and the plan

Not modelled: regular expressions, word lists and Unicode folding (a text is what a
tier finds); AES, scrypt and Ed25519 (a blob opens for its key, a token has the key it is
signed with); `fsync` (a crash is a process crash); record encryption; wording of findings
and audit lines; `redact_for_capture` (rewrites one string); `oversight.py` and `verdicts.py`
(tables: a property would restate them); `injection_scan.py` and `scanned_response.py` (a scan
and a wrapper); `credential_resolver.py` (three looks at one file, nothing kept); packaging.

What is left to prove: every invariant and action property of a passing run is a theorem.
Sharper theorems remain possible: `ErasuresAreFinal` and `ReadsAreWhole` except folders with a
legacy directory altogether; what fails there begins with the first `seal_folder` under the
old name, so they could be stated up to that step. The hazards of `PROJECT.json` that carry
a note instead of a property need more detail in the models (`fsync`, sinks written under
their removal), or are races that the code does lose, with nothing there to prove.
