----------------------------- MODULE Decisions -----------------------------
(***************************************************************************)
(* The persisted approval store (loomground_lock/decisions.py).            *)
(*                                                                         *)
(* Several DecisionsStore objects, in one process or in several, share one *)
(* JSONL file.  Each loads it once, when it is made; from then on it       *)
(* recalls from its own index and appends to the file.  erase and          *)
(* erase_subject blank previews in the index and rewrite the file: read,   *)
(* temporary file, replace.                                                *)
(*                                                                         *)
(* Abstractions.  A line is the record it parses to, or else a piece: the  *)
(* preview it holds, and whether reading it raises.  Lines are a set: two  *)
(* lines that differ in nothing are one decision, and recall asks only     *)
(* which decisions there are, as a tier without a block holds nothing but  *)
(* allows.  The pieces of one write are one piece; a write is not cut just *)
(* before its newline.  A text is its pattern hash; a preview names at     *)
(* most one subject.  Time does not run backwards.  Calls refused for      *)
(* their arguments change nothing.                                         *)
(***************************************************************************)
EXTENDS Integers, FiniteSets

CONSTANTS
    Stores,     \* DecisionsStore objects
    Hashes,     \* pattern hashes of the texts decided about
    Subjects,   \* what a preview may mention
    SessionOf,  \* store -> its session_id
    NoSession,  \* the session_id field of a record that is not session-scoped
    TTL,        \* ttl_seconds; zero or less: allows do not expire
    Scopes,     \* the scopes decisions are given
    Previews,   \* what the texts decided about mention: a subject, or None
    Times,      \* bound: the moments anything happens at
    MaxEvents,  \* bound on decisions remembered, lines that do not parse and mishaps of
                \* rewrites, together
    None

ASSUME StoreAssumption ==
    /\ None \notin Subjects
    /\ NoSession \notin {SessionOf[s] : s \in Stores}

ASSUME ScopeAssumption == Scopes \subseteq {"once", "session", "always"}

ASSUME PreviewAssumption == Previews \subseteq Subjects \cup {None}

ASSUME ClockAssumption == TTL \in Int /\ Times \subseteq Nat /\ 0 \in Times

ASSUME BoundAssumption == MaxEvents \in Nat

VARIABLES
    file,       \* the JSONL file's lines
    tail,       \* how the file ends: "absent", "whole" lines, or "torn"
    tmp,        \* the lines in <path>.tmp, or None
    index,      \* store -> records in _by_hash
    pc,         \* store -> where its call is; "off": no such object
    want,       \* store -> what the erase in progress blanks
    out,        \* store -> the lines it is about to write
    now,        \* time.time()
    told,       \* history: what the remembers that returned had written
    gone,       \* history: subjects erased and not written since
    mishaps     \* history: what has gone wrong with the file so far

calls == <<pc, want, out>>
vars  == <<file, tail, tmp, index, calls, now, told, gone, mishaps>>

-----------------------------------------------------------------------------
Verdicts == {"allow", "block"}
Sessions == {SessionOf[s] : s \in Stores} \cup {NoSession}

Record == [hash : Hashes, decision : Verdicts, scope : Scopes, session : Sessions,
           ts : Times, preview : Subjects \cup {None}]

\* What does not parse: the halves of a record, or one glued to another.  A fatal one
\* makes whoever reads the file raise: it is cut within a character, so the file does
\* not decode, or it is JSON and not an object.
Piece == [preview : Subjects \cup {None}, fatal : BOOLEAN]
Line  == Record \cup Piece

PieceOf(preview, fatal) == [preview |-> preview, fatal |-> fatal]

\* Reading skips what does not parse.
Parsed(lines) == lines \cap Record
Raises(lines) == \E p \in lines \ Record : p.fatal

\* Only a session-scoped record names a session.
Scoped(r) == r.scope = "session" <=> r.session # NoSession

\* erase(h), erase() and erase_subject(x).
Target == [hashes : SUBSET Hashes, subjects : SUBSET Subjects]
Targets == {[hashes |-> {h}, subjects |-> {}] : h \in Hashes}
      \cup {[hashes |-> Hashes, subjects |-> {}]}
      \cup {[hashes |-> {}, subjects |-> {x}] : x \in Subjects}
NoTarget == [hashes |-> {}, subjects |-> {}]

Erasing == {"read", "write", "replace"}

\* A write cut short, a rewrite that fails, and one whose reading of the file another
\* store has made stale.
Mishaps == {"torn", "failed", "stale"}

TypeOK ==
    /\ file \in SUBSET Line
    /\ tail \in {"absent", "whole", "torn"}
    /\ tmp = None \/ tmp \in SUBSET Line
    /\ index \in [Stores -> SUBSET Record]
    /\ pc \in [Stores -> {"off", "idle"} \cup Erasing]
    /\ want \in [Stores -> Target]
    /\ out \in [Stores -> SUBSET Line]
    /\ now \in Times
    /\ told \in SUBSET Line
    /\ gone \in SUBSET Subjects
    /\ mishaps \in SUBSET Mishaps
    /\ \A r \in Parsed(told) : Scoped(r)
    /\ \A s \in Stores : pc[s] = "off" => index[s] = {}
    /\ \A s \in Stores : pc[s] \notin Erasing => want[s] = NoTarget /\ out[s] = {}

-----------------------------------------------------------------------------
(* recall *)

\* Mutant of Live: a block lapses like an allow.
LiveLapsing(r, t) == TTL <= 0 \/ t - r.ts <= TTL

Live(r, t) == r.decision = "block" \/ TTL <= 0 \/ t - r.ts <= TTL

Tier(s, h, scope, t) ==
    {r \in index[s] : /\ r.hash = h
                      /\ r.scope = scope
                      /\ scope = "session" => r.session = SessionOf[s]
                      /\ Live(r, t)}

Verdict(tier) == IF \E r \in tier : r.decision = "block" THEN "block" ELSE "allow"

Recall(s, h, t) ==
    LET always  == Tier(s, h, "always", t)
        session == Tier(s, h, "session", t)
    IN  CASE always # {}                   -> Verdict(always)
          [] always = {} /\ session # {}   -> Verdict(session)
          [] always = {} /\ session = {}   -> "none"

-----------------------------------------------------------------------------
Init ==
    /\ file = {} /\ tail = "absent" /\ tmp = None
    /\ index = [s \in Stores |-> {}]
    /\ pc = [s \in Stores |-> "off"]
    /\ want = [s \in Stores |-> NoTarget]
    /\ out = [s \in Stores |-> {}]
    /\ now = 0
    /\ told = {} /\ gone = {} /\ mishaps = {}

\* __init__: the index is what the file holds now, or nothing where it cannot be
\* opened, and no later line of another store's enters it.  If reading raises there
\* is no store.
Open(s) ==
    /\ pc[s] = "off"
    /\ \/ ~Raises(file) /\ index' = [index EXCEPT ![s] = Parsed(file)]
       \/ tail # "absent" /\ UNCHANGED index
    /\ pc' = [pc EXCEPT ![s] = "idle"]
    /\ UNCHANGED <<file, tail, tmp, want, out, now, told, gone, mishaps>>

\* The object goes away, between two calls or in one.
Close(s) ==
    /\ pc[s] # "off"
    /\ index' = [index EXCEPT ![s] = {}]
    /\ pc' = [pc EXCEPT ![s] = "off"]
    /\ want' = [want EXCEPT ![s] = NoTarget]
    /\ out' = [out EXCEPT ![s] = {}]
    /\ UNCHANGED <<file, tail, tmp, now, told, gone, mishaps>>

\* Mutant of NewRecord: every record names its session.
NewRecordInSession(s, h, decision, scope, preview) ==
    [hash |-> h, decision |-> decision, scope |-> scope, ts |-> now, preview |-> preview,
     session |-> SessionOf[s]]

NewRecord(s, h, decision, scope, preview) ==
    [hash |-> h, decision |-> decision, scope |-> scope, ts |-> now, preview |-> preview,
     session |-> IF scope = "session" THEN SessionOf[s] ELSE NoSession]

\* Another store has read the file and is about to replace it.
Stale(s) == IF \E t \in Stores \ {s} : pc[t] \in {"write", "replace"} THEN {"stale"} ELSE {}

Bounded ==
    LET Spoilt == Cardinality(file' \ Record) IN
    /\ Cardinality(told') + Spoilt + Cardinality(mishaps' \ {"torn"}) <= MaxEvents
    /\ \A s \in Stores : Cardinality(index'[s]) + Spoilt <= MaxEvents

Suffers(some) == mishaps' = mishaps \cup some

\* The call writes the line and returns the record r.
Remembered(s, r, line) ==
    /\ pc[s] = "idle"
    /\ file' = file \cup {line}
    /\ tail' = "whole"
    /\ index' = [index EXCEPT ![s] = @ \cup {r}]
    /\ told' = told \cup {line}
    /\ gone' = gone \ {r.preview}
    /\ Suffers(Stale(s))
    /\ Bounded
    /\ UNCHANGED <<tmp, calls, now>>

\* An unterminated line takes the next one in.
Remember(s, h, decision, scope, preview) ==
    LET r == NewRecord(s, h, decision, scope, preview) IN
    Remembered(s, r, IF tail = "torn" THEN PieceOf(preview, FALSE) ELSE r)

\* The reason holds a line separator (U+2028, U+2029, U+0085): json leaves it as
\* it is and splitlines makes lines of it that do not parse, or one of which is JSON.
RememberSplit(s, h, decision, scope, preview) ==
    \E fatal \in BOOLEAN :
        Remembered(s, NewRecord(s, h, decision, scope, preview), PieceOf(preview, fatal))

\* The disk fills, or the process dies (then Close follows), within the line.
RememberTorn(s, preview) ==
    /\ pc[s] = "idle"
    /\ \E fatal \in BOOLEAN : file' = file \cup {PieceOf(preview, fatal)}
    /\ tail' = "torn"
    /\ Suffers({"torn"} \cup Stale(s))
    /\ UNCHANGED <<tmp, index, calls, now, told, gone>>
    /\ Bounded

\* Mutant of Matches: erase_subject blanks nothing.
MatchesHash(r, target) == r.hash \in target.hashes

Matches(r, target) == r.hash \in target.hashes \/ r.preview \in target.subjects

\* Lines that do not parse are kept as they are.
Blanked(lines, target) ==
    {IF r \in Record /\ Matches(r, target) THEN [r EXCEPT !.preview = None] ELSE r : r \in lines}

\* _rewrite_previews, in memory first.
EraseStart(s, target) ==
    /\ pc[s] = "idle"
    /\ index' = [index EXCEPT ![s] = Blanked(@, target)]
    /\ want' = [want EXCEPT ![s] = target]
    /\ pc' = [pc EXCEPT ![s] = "read"]
    /\ UNCHANGED <<file, tail, tmp, out, now, told, gone, mishaps>>

\* The call returns the number of matches, whatever became of the file.
EraseReturn(s) ==
    /\ gone' = gone \cup want[s].subjects
    /\ want' = [want EXCEPT ![s] = NoTarget]
    /\ out' = [out EXCEPT ![s] = {}]
    /\ pc' = [pc EXCEPT ![s] = "idle"]

EraseNoFile(s) ==
    /\ pc[s] = "read"
    /\ tail = "absent"
    /\ EraseReturn(s)
    /\ UNCHANGED <<file, tail, tmp, index, now, told, mishaps>>

\* Mutant of EraseRead: the index is written back, not the file as it is.
EraseReadIndex(s) ==
    /\ pc[s] = "read"
    /\ tail # "absent"
    /\ ~Raises(file)
    /\ out' = [out EXCEPT ![s] = index[s]]
    /\ pc' = [pc EXCEPT ![s] = "write"]
    /\ Suffers(Stale(s))
    /\ UNCHANGED <<file, tail, tmp, index, want, now, told, gone>>
    /\ Bounded

EraseRead(s) ==
    /\ pc[s] = "read"
    /\ tail # "absent"
    /\ ~Raises(file)
    /\ out' = [out EXCEPT ![s] = Blanked(file, want[s])]
    /\ pc' = [pc EXCEPT ![s] = "write"]
    /\ Suffers(Stale(s))
    /\ UNCHANGED <<file, tail, tmp, index, want, now, told, gone>>
    /\ Bounded

\* The call raises, having blanked the index: the file is as it was.
EraseRaises(s) ==
    /\ pc[s] = "read"
    /\ tail # "absent"
    /\ Raises(file)
    /\ want' = [want EXCEPT ![s] = NoTarget]
    /\ out' = [out EXCEPT ![s] = {}]
    /\ pc' = [pc EXCEPT ![s] = "idle"]
    /\ UNCHANGED <<file, tail, tmp, index, now, told, gone, mishaps>>

\* Every store of the file has the same temporary file.
EraseWrite(s) ==
    /\ pc[s] = "write"
    /\ tmp' = out[s]
    /\ pc' = [pc EXCEPT ![s] = "replace"]
    /\ UNCHANGED <<file, tail, index, want, out, now, told, gone, mishaps>>

EraseReplace(s) ==
    /\ pc[s] = "replace"
    /\ tmp # None
    /\ file' = tmp
    /\ tail' = "whole"
    /\ tmp' = None
    /\ EraseReturn(s)
    /\ UNCHANGED <<index, now, told, mishaps>>

\* An OSError on the way to the file is swallowed: by the caller's result the
\* erase succeeded.
EraseFails(s) ==
    /\ \/ pc[s] = "read" /\ tail # "absent" /\ UNCHANGED tmp
       \/ pc[s] \in {"write", "replace"} /\ tmp' = None
    /\ EraseReturn(s)
    /\ Suffers({"failed"})
    /\ UNCHANGED <<file, tail, index, now, told>>
    /\ Bounded

Tick ==
    /\ now' \in Times
    /\ now' > now
    /\ UNCHANGED <<file, tail, tmp, index, calls, told, gone, mishaps>>

Step(s) ==
    \/ Open(s) \/ Close(s)
    \/ \E h \in Hashes, d \in Verdicts, scope \in Scopes, x \in Previews :
          Remember(s, h, d, scope, x) \/ RememberSplit(s, h, d, scope, x)
    \/ \E x \in Previews : RememberTorn(s, x)
    \/ \E target \in Targets : EraseStart(s, target)
    \/ EraseNoFile(s) \/ EraseRead(s) \/ EraseRaises(s)
    \/ EraseWrite(s) \/ EraseReplace(s) \/ EraseFails(s)

Next == Tick \/ \E s \in Stores : Step(s)

Spec == Init /\ [][Next]_vars

-----------------------------------------------------------------------------
\* Two records of the same decision, whatever is left of the preview.
SameDecision(q, r) == [q EXCEPT !.preview = None] = [r EXCEPT !.preview = None]

Covers(lines, written) ==
    \A r \in written : \E q \in lines : SameDecision(q, r)

\* The line of a remember that returned is in the file from then on, apart from its
\* preview: erasing, failed or not, crashed or not, loses no line, whether it parses
\* or not, and a write that is cut short, or split, takes no line but those with it.
\* Only a rewrite from what another store has since added to does.
DecisionsPersist == "stale" \notin mishaps => Covers(file, told)

\* What remember's documentation says, whatever the reason it is given: a store opened
\* later knows of the decision, where no write was cut short before it.
AnyReasonPersists == mishaps \cap {"torn", "stale"} = {} => Covers(Parsed(file), told)

\* recall of an open store turns to "allow" only with a clearance it did not know of
\* before: not as time passes and a block outlives, or lapses beside, an older allow,
\* and not because previews are erased.
AllowOnlyByClearance ==
    [][\A s \in Stores, h \in Hashes :
          /\ pc[s] # "off" /\ pc'[s] # "off"
          /\ Recall(s, h, now) # "allow"
          /\ Recall(s, h, now)' = "allow"
          => \E r \in index'[s] :
                /\ r.hash = h /\ r.decision = "allow"
                /\ \A q \in index[s] : ~SameDecision(q, r)]_vars

\* What erase_subject erased is in no record on disk any more, until it is written
\* again: no rewrite by another store, no stale index and no temporary file a crash
\* left brings it back.  Lines that do not parse keep their previews.
EraseSticks ==
    mishaps \cap {"failed", "stale"} = {} =>
        \A r \in Parsed(file \cup (IF tmp = None THEN {} ELSE tmp)) : r.preview \notin gone
=============================================================================
