-------------------------- MODULE DecisionsProofs --------------------------
(***************************************************************************)
(* What the decisions file keeps and gives up, and when a recall may turn   *)
(* to an allow, for any number of stores, hashes, subjects and moments.     *)
(***************************************************************************)
EXTENDS Decisions, TLAPS

Rewriting(s) == pc[s] \in {"write", "replace"}

Types ==
    /\ file \in SUBSET Line
    /\ tail \in {"absent", "whole", "torn"}
    /\ tmp = None \/ tmp \in SUBSET Line
    /\ index \in [Stores -> SUBSET Record]
    /\ pc \in [Stores -> {"off", "idle"} \cup Erasing]
    /\ want \in [Stores -> Target]
    /\ out \in [Stores -> SUBSET Line]
    /\ now \in Times
    /\ told \in SUBSET Line
    /\ gone \in SUBSET Subjects

\* As long as no reading of the file gets stale, every rewrite on its way has what was
\* told, and so has the temporary file while a store is about to replace the file with
\* it: one that a crash left may be older.
Whole ==
    "stale" \notin mishaps =>
        /\ Covers(file, told)
        /\ \A s \in Stores : Rewriting(s) => Covers(out[s], told)
        /\ \A s \in Stores : pc[s] = "replace" /\ tmp # None => Covers(tmp, told)

\* As long as no reading of the file gets stale, one store at a time rewrites it, with
\* what it read, and no record of that has what was erased or what it is to erase.
Clean ==
    /\ tail = "absent" => file = {} /\ tmp = None /\ \A s \in Stores : ~Rewriting(s)
    /\ mishaps \cap {"failed", "stale"} = {} =>
        /\ \A s, t \in Stores : Rewriting(s) /\ Rewriting(t) => s = t
        /\ \A s \in Stores : pc[s] = "replace" /\ tmp # None => tmp = out[s]
        /\ \A s \in Stores : Rewriting(s) =>
              \A r \in Parsed(out[s]) : r.preview \notin gone \cup want[s].subjects
        /\ \A r \in Parsed(file) : r.preview \notin gone
        /\ tmp # None => \A r \in Parsed(tmp) : r.preview \notin gone

-----------------------------------------------------------------------------
(* Records. *)

LEMMA NewRecordType ==
    ASSUME NEW s \in Stores, NEW h \in Hashes, NEW d \in Verdicts, NEW scope \in Scopes,
           NEW x \in Subjects \cup {None}, now \in Times
    PROVE  /\ NewRecord(s, h, d, scope, x) \in Record
           /\ NewRecord(s, h, d, scope, x).preview = x
           /\ NewRecord(s, h, d, scope, x).decision = d
           /\ NewRecord(s, h, d, scope, x).hash = h
BY DEF NewRecord, Record, Sessions

LEMMA PieceType ==
    ASSUME NEW x \in Subjects \cup {None}, NEW fatal \in BOOLEAN
    PROVE  PieceOf(x, fatal) \in Piece /\ PieceOf(x, fatal) \notin Record
BY DEF PieceOf, Piece, Record

\* What remember writes: the record, or a piece of it.
LEMMA WrittenLine ==
    ASSUME NEW s \in Stores, NEW h \in Hashes, NEW d \in Verdicts, NEW scope \in Scopes,
           NEW x \in Previews, Remember(s, h, d, scope, x) \/ RememberSplit(s, h, d, scope, x)
    PROVE  \E line \in {NewRecord(s, h, d, scope, x)} \cup (Piece \ Record) :
               Remembered(s, NewRecord(s, h, d, scope, x), line)
BY PieceType, PreviewAssumption DEF Remember, RememberSplit

\* Blanking changes previews of records only, to ones that are not matched.
LEMMA BlankedRecords ==
    ASSUME NEW lines \in SUBSET Line, NEW target \in Target
    PROVE  /\ Blanked(lines, target) \in SUBSET Line
           /\ lines \subseteq Record => Blanked(lines, target) \in SUBSET Record
           /\ \A r \in lines : \E q \in Blanked(lines, target) : SameDecision(q, r)
           /\ \A q \in Parsed(Blanked(lines, target)) : \E r \in Parsed(lines) :
                  /\ SameDecision(q, r)
                  /\ q.preview = r.preview \/ q.preview = None
           /\ \A q \in Parsed(Blanked(lines, target)) : q.preview \notin target.subjects
<1> DEFINE B(r) == IF r \in Record /\ Matches(r, target) THEN [r EXCEPT !.preview = None] ELSE r
<1>1. Blanked(lines, target) = {B(r) : r \in lines}
    BY DEF Blanked
<1>2. \A r \in lines : (r \in Record => B(r) \in Record) /\ (r \notin Record => B(r) = r)
    BY DEF Record
<1>3. \A r \in lines : SameDecision(B(r), r)
    BY DEF Record, SameDecision
<1>4. \A r \in Record : B(r).preview = r.preview \/ B(r).preview = None
    BY DEF Record
<1>5. \A r \in Record : B(r).preview \notin target.subjects
    BY StoreAssumption DEF Record, Matches, Target
<1> HIDE DEF B
<1>6. \A q \in Parsed(Blanked(lines, target)) : \E r \in Parsed(lines) : q = B(r)
    BY <1>1, <1>2 DEF Parsed
<1>7. Blanked(lines, target) \in SUBSET Line
    BY <1>1, <1>2 DEF Line
<1>8. lines \subseteq Record => Blanked(lines, target) \in SUBSET Record
    BY <1>1, <1>2
<1>9. \A q \in Parsed(Blanked(lines, target)) : \E r \in Parsed(lines) :
          /\ SameDecision(q, r)
          /\ q.preview = r.preview \/ q.preview = None
    BY <1>3, <1>4, <1>6 DEF Parsed
<1>10. \A q \in Parsed(Blanked(lines, target)) : q.preview \notin target.subjects
    BY <1>5, <1>6 DEF Parsed
<1> QED
    BY <1>1, <1>3, <1>7, <1>8, <1>9, <1>10

LEMMA SameFields ==
    ASSUME NEW q \in Record, NEW r \in Record, SameDecision(q, r)
    PROVE  /\ q.hash = r.hash /\ q.decision = r.decision /\ q.scope = r.scope
           /\ q.session = r.session /\ q.ts = r.ts
<1>1. /\ [q EXCEPT !.preview = None].hash = q.hash
      /\ [q EXCEPT !.preview = None].decision = q.decision
      /\ [q EXCEPT !.preview = None].scope = q.scope
      /\ [q EXCEPT !.preview = None].session = q.session
      /\ [q EXCEPT !.preview = None].ts = q.ts
    BY DEF Record
<1>2. /\ [r EXCEPT !.preview = None].hash = r.hash
      /\ [r EXCEPT !.preview = None].decision = r.decision
      /\ [r EXCEPT !.preview = None].scope = r.scope
      /\ [r EXCEPT !.preview = None].session = r.session
      /\ [r EXCEPT !.preview = None].ts = r.ts
    BY DEF Record
<1> QED
    BY <1>1, <1>2 DEF SameDecision

LEMMA BlankedCovers ==
    ASSUME NEW lines \in SUBSET Line, NEW target \in Target, NEW written,
           Covers(lines, written)
    PROVE  Covers(Blanked(lines, target), written)
<1> SUFFICES ASSUME NEW r \in written
             PROVE  \E q \in Blanked(lines, target) : SameDecision(q, r)
    BY DEF Covers
<1>1. PICK o \in lines : SameDecision(o, r)
    BY DEF Covers
<1>2. PICK q \in Blanked(lines, target) : SameDecision(q, o)
    BY BlankedRecords
<1> QED
    BY <1>1, <1>2 DEF SameDecision

LEMMA CoversMore ==
    ASSUME NEW lines, NEW written, NEW line, Covers(lines, written)
    PROVE  /\ Covers(lines \cup {line}, written \cup {line})
           /\ Covers(lines \cup {line}, written)
BY DEF Covers, SameDecision

-----------------------------------------------------------------------------
LEMMA TypesInit == Init => Types
BY ClockAssumption DEF Init, Types, Target, NoTarget, Erasing

LEMMA RememberTypes ==
    ASSUME Types, NEW s \in Stores, NEW h \in Hashes, NEW d \in Verdicts, NEW scope \in Scopes,
           NEW x \in Previews, Remember(s, h, d, scope, x) \/ RememberSplit(s, h, d, scope, x)
    PROVE  Types'
<1> DEFINE r == NewRecord(s, h, d, scope, x)
<1>1. r \in Record
    BY NewRecordType, PreviewAssumption DEF Types
<1>2. PICK line \in {r} \cup (Piece \ Record) : Remembered(s, r, line)
    BY WrittenLine
<1> HIDE DEF r
<1>3. line \in Line
    BY <1>1 DEF Line
<1> QED
    BY <1>1, <1>2, <1>3 DEF Types, Remembered, calls

LEMMA EraseStartTypes ==
    ASSUME Types, NEW s \in Stores, NEW target \in Targets, EraseStart(s, target)
    PROVE  Types' /\ target \in Target
<1>1. target \in Target
    BY DEF Targets, Target
<1>2. Blanked(index[s], target) \in SUBSET Record
    BY <1>1, BlankedRecords DEF Types, Line
<1> QED
    BY <1>1, <1>2 DEF Types, EraseStart, Erasing

LEMMA EraseTypes ==
    ASSUME Types, NEW s \in Stores,
           \/ EraseNoFile(s) \/ EraseRead(s) \/ EraseRaises(s)
           \/ EraseWrite(s) \/ EraseReplace(s) \/ EraseFails(s)
    PROVE  Types'
<1> USE DEF Types, Erasing
<1>1. NoTarget \in Target /\ want[s].subjects \subseteq Subjects
    BY DEF NoTarget, Target
<1>2. CASE EraseRead(s)
    BY <1>2, BlankedRecords DEF EraseRead
<1>3. CASE EraseWrite(s)
    BY <1>3 DEF EraseWrite
<1>4. CASE EraseNoFile(s)
    BY <1>1, <1>4 DEF EraseNoFile, EraseReturn
<1>5. CASE EraseReplace(s)
    BY <1>1, <1>5 DEF EraseReplace, EraseReturn
<1>6. CASE EraseFails(s)
    BY <1>1, <1>6 DEF EraseFails, EraseReturn
<1>7. CASE EraseRaises(s)
    BY <1>1, <1>7 DEF EraseRaises
<1> QED
    BY <1>2, <1>3, <1>4, <1>5, <1>6, <1>7

LEMMA OtherTypes ==
    ASSUME Types,
           \/ Tick
           \/ \E s \in Stores : Open(s) \/ Close(s) \/ \E x \in Previews : RememberTorn(s, x)
    PROVE  Types'
<1> USE DEF Types, calls
<1>1. CASE Tick
    BY <1>1 DEF Tick
<1>2. CASE \E s \in Stores : Open(s)
    BY <1>2 DEF Open, Parsed
<1>3. CASE \E s \in Stores : Close(s)
    BY <1>3 DEF Close, NoTarget, Target
<1>4. CASE \E s \in Stores, x \in Previews : RememberTorn(s, x)
    BY <1>4, PieceType, PreviewAssumption DEF RememberTorn, Line
<1> QED
    BY <1>1, <1>2, <1>3, <1>4

LEMMA TypesNext == Types /\ [Next]_vars => Types'
<1>1. ASSUME Types, UNCHANGED vars PROVE Types'
    BY <1>1 DEF vars, calls, Types
<1> QED
    BY <1>1, RememberTypes, EraseStartTypes, EraseTypes, OtherTypes DEF Next, Step

-----------------------------------------------------------------------------
(* The session of a record, and what a closed or idle store holds. *)

\* What was told names a session just where its scope is one, and nothing is held
\* outside a call, nor by an object that is no more.
Tidy ==
    /\ mishaps \in SUBSET Mishaps
    /\ \A r \in Parsed(told) : Scoped(r)
    /\ \A s \in Stores : pc[s] = "off" => index[s] = {}
    /\ \A s \in Stores : pc[s] \notin Erasing => want[s] = NoTarget /\ out[s] = {}

LEMMA NewRecordScoped ==
    ASSUME NEW s \in Stores, NEW h, NEW d, NEW scope, NEW x
    PROVE  Scoped(NewRecord(s, h, d, scope, x))
<1>1. SessionOf[s] # NoSession
    BY StoreAssumption
<1> QED
    BY <1>1 DEF Scoped, NewRecord

LEMMA TidyInit == Init => Tidy
BY DEF Init, Tidy, Mishaps, Parsed

LEMMA RememberTidy ==
    ASSUME Types, Tidy, NEW s \in Stores, NEW h \in Hashes, NEW d \in Verdicts,
           NEW scope \in Scopes, NEW x \in Previews,
           Remember(s, h, d, scope, x) \/ RememberSplit(s, h, d, scope, x)
    PROVE  Tidy'
<1> DEFINE r == NewRecord(s, h, d, scope, x)
<1>1. Scoped(r)
    BY NewRecordScoped
<1>2. PICK line \in {r} \cup (Piece \ Record) : Remembered(s, r, line)
    BY WrittenLine
<1> HIDE DEF r
<1>3. \A q \in Parsed(told') : Scoped(q)
    BY <1>1, <1>2 DEF Tidy, Scoped, Parsed, Remembered
<1>4. pc[s] = "idle" /\ UNCHANGED calls
    BY <1>2 DEF Remembered
<1>5. \A t \in Stores \ {s} : index'[t] = index[t]
    BY <1>2 DEF Remembered, Types
<1>6. mishaps' \in SUBSET Mishaps
    BY <1>2 DEF Remembered, Suffers, Stale, Mishaps, Tidy
<1> QED
    BY <1>3, <1>4, <1>5, <1>6 DEF Tidy, calls

LEMMA EraseTidy ==
    ASSUME Types, Tidy, NEW s \in Stores,
           \/ \E target \in Targets : EraseStart(s, target)
           \/ EraseNoFile(s) \/ EraseRead(s) \/ EraseRaises(s) \/ EraseWrite(s)
           \/ EraseReplace(s) \/ EraseFails(s)
    PROVE  Tidy'
<1> USE DEF Types, Tidy, Erasing, Scoped
<1>1. CASE \E target \in Targets : EraseStart(s, target)
    BY <1>1 DEF EraseStart
<1>2. CASE EraseRead(s)
    BY <1>2 DEF EraseRead, Suffers, Stale, Mishaps
<1>3. CASE EraseWrite(s)
    BY <1>3 DEF EraseWrite
<1>4. CASE EraseNoFile(s)
    BY <1>4 DEF EraseNoFile, EraseReturn
<1>5. CASE EraseReplace(s)
    BY <1>5 DEF EraseReplace, EraseReturn
<1>6. CASE EraseFails(s)
    BY <1>6 DEF EraseFails, EraseReturn, Suffers, Mishaps
<1>7. CASE EraseRaises(s)
    BY <1>7 DEF EraseRaises
<1> QED
    BY <1>1, <1>2, <1>3, <1>4, <1>5, <1>6, <1>7

LEMMA OtherTidy ==
    ASSUME Types, Tidy,
           \/ Tick \/ UNCHANGED vars
           \/ \E s \in Stores : Open(s) \/ Close(s) \/ \E x \in Previews : RememberTorn(s, x)
    PROVE  Tidy'
<1> USE DEF Types, Tidy, Erasing, Scoped
<1>1. CASE Tick \/ UNCHANGED vars
    BY <1>1 DEF Tick, vars, calls
<1>2. CASE \E s \in Stores : Open(s)
    BY <1>2 DEF Open
<1>3. CASE \E s \in Stores : Close(s)
    BY <1>3 DEF Close
<1>4. CASE \E s \in Stores, x \in Previews : RememberTorn(s, x)
    BY <1>4 DEF RememberTorn, Suffers, Stale, Mishaps, calls
<1> QED
    BY <1>1, <1>2, <1>3, <1>4

LEMMA TidyNext == Types /\ Tidy /\ [Next]_vars => Tidy'
BY RememberTidy, EraseTidy, OtherTidy DEF Next, Step

\* Types, the session each record told of names, and that a call leaves nothing of
\* itself in its store, nor a store that goes away anything of its index.
THEOREM DecisionsAlwaysTyped == Spec => []TypeOK
<1>1. Init => Types /\ Tidy
    BY TypesInit, TidyInit
<1>2. Types /\ Tidy /\ [Next]_vars => Types' /\ Tidy'
    BY TypesNext, TidyNext
<1>3. Types /\ Tidy => TypeOK
    BY DEF Types, Tidy, TypeOK
<1> QED
    BY <1>1, <1>2, <1>3, PTL DEF Spec

-----------------------------------------------------------------------------
(* Nothing told is missing. *)

LEMMA WholeKept ==
    ASSUME Whole, UNCHANGED <<file, told, tmp, tail>>, mishaps \subseteq mishaps',
           \A s \in Stores : Rewriting(s)' =>
                pc'[s] = pc[s] /\ out'[s] = out[s]
    PROVE  Whole'
BY DEF Whole, Rewriting

LEMMA RememberWhole ==
    ASSUME Types, Whole, NEW s \in Stores, NEW h \in Hashes, NEW d \in Verdicts,
           NEW scope \in Scopes, NEW x \in Previews,
           Remember(s, h, d, scope, x) \/ RememberSplit(s, h, d, scope, x)
    PROVE  Whole'
<1> SUFFICES ASSUME "stale" \notin mishaps'
             PROVE  /\ Covers(file', told')
                    /\ \A t \in Stores : Rewriting(t)' => Covers(out'[t], told')
                    /\ \A t \in Stores : pc'[t] = "replace" /\ tmp' # None => Covers(tmp', told')
    BY DEF Whole
<1>1. PICK r, line : Remembered(s, r, line)
    BY WrittenLine
<1>2. "stale" \notin mishaps /\ Stale(s) = {}
    BY <1>1 DEF Remembered, Suffers, Stale
<1>3. \A t \in Stores : ~Rewriting(t)
    BY <1>1, <1>2 DEF Stale, Rewriting, Remembered
<1>4. \A t \in Stores : pc'[t] = pc[t]
    BY <1>1 DEF Remembered, calls
<1>5. Covers(file, told)
    BY <1>2 DEF Whole
<1>6. Covers(file', told')
    BY <1>1, <1>5, CoversMore DEF Remembered
<1> QED
    BY <1>3, <1>4, <1>6 DEF Rewriting

LEMMA EraseWhole ==
    ASSUME Types, Whole, NEW s \in Stores,
           EraseRead(s) \/ EraseWrite(s) \/ EraseReplace(s)
    PROVE  Whole'
<1> USE DEF Types, Rewriting, Erasing
<1> SUFFICES ASSUME "stale" \notin mishaps'
             PROVE  /\ Covers(file', told')
                    /\ \A t \in Stores : Rewriting(t)' => Covers(out'[t], told')
                    /\ \A t \in Stores : pc'[t] = "replace" /\ tmp' # None => Covers(tmp', told')
    BY DEF Whole
<1>1. "stale" \notin mishaps
    BY DEF EraseRead, EraseWrite, EraseReplace, Suffers
<1>2. CASE EraseRead(s)
  <2>1. Covers(Blanked(file, want[s]), told)
      BY <1>1, BlankedCovers DEF Whole
  <2> QED
      BY <1>1, <1>2, <2>1 DEF EraseRead, Whole
<1>3. CASE EraseWrite(s)
    BY <1>1, <1>3 DEF EraseWrite, Whole
<1>4. CASE EraseReplace(s)
    BY <1>1, <1>4 DEF EraseReplace, EraseReturn, Whole
<1> QED
    BY <1>2, <1>3, <1>4

LEMMA EraseEndWhole ==
    ASSUME Types, Whole, NEW s \in Stores, EraseNoFile(s) \/ EraseRaises(s) \/ EraseFails(s)
    PROVE  Whole'
<1> USE DEF Types, Rewriting, Erasing
<1>1. /\ UNCHANGED <<file, told, tail>> /\ mishaps \subseteq mishaps'
      /\ tmp' = tmp \/ tmp' = None
      /\ \A t \in Stores : Rewriting(t)' => pc'[t] = pc[t] /\ out'[t] = out[t]
    BY DEF EraseNoFile, EraseRaises, EraseFails, EraseReturn, Suffers
<1> QED
    BY <1>1 DEF Whole

LEMMA OtherWhole ==
    ASSUME Types, Whole,
           \/ Tick \/ UNCHANGED vars
           \/ \E s \in Stores : \/ Open(s) \/ Close(s) \/ \E x \in Previews : RememberTorn(s, x)
                               \/ \E target \in Targets : EraseStart(s, target)
    PROVE  Whole'
<1> USE DEF Types, Rewriting
<1>1. CASE \E s \in Stores, x \in Previews : RememberTorn(s, x)
  <2>1. PICK s \in Stores, x \in Previews : RememberTorn(s, x)
      BY <1>1
  <2>2. PICK line : file' = file \cup {line}
      BY <2>1 DEF RememberTorn
  <2>3. Covers(file, told) => Covers(file', told)
      BY <2>2, CoversMore
  <2> QED
      BY <2>1, <2>3 DEF RememberTorn, Suffers, calls, Whole
<1>2. CASE \E s \in Stores : Open(s) \/ Close(s)
    BY <1>2, WholeKept DEF Open, Close
<1>3. CASE \E s \in Stores, target \in Targets : EraseStart(s, target)
    BY <1>3, WholeKept DEF EraseStart
<1>4. CASE Tick \/ UNCHANGED vars
    BY <1>4, WholeKept DEF Tick, vars, calls
<1> QED
    BY <1>1, <1>2, <1>3, <1>4

LEMMA WholeNext == Types /\ Whole /\ [Next]_vars => Whole'
BY RememberWhole, EraseWhole, EraseEndWhole, OtherWhole DEF Next, Step

\* Whatever is erased, fails, raises and crashes, and whatever lines stop parsing, no line
\* that was told is missing from the file until a store rewrote it from a stale reading.
THEOREM DecisionsAlwaysPersist == Spec => []DecisionsPersist
<1>1. Init => Types /\ Whole
    BY TypesInit DEF Init, Whole, Covers, Rewriting
<1>2. Types /\ Whole /\ [Next]_vars => Types' /\ Whole'
    BY TypesNext, WholeNext
<1>3. Types /\ Whole => DecisionsPersist
    BY DEF Whole, DecisionsPersist
<1> QED
    BY <1>1, <1>2, <1>3, PTL DEF Spec

-----------------------------------------------------------------------------
(* Nothing erased is left. *)

LEMMA CleanKept ==
    ASSUME Clean, UNCHANGED <<file, tail, gone>>, mishaps \subseteq mishaps',
           tmp' = tmp \/ tmp' = None,
           \A s \in Stores : Rewriting(s)' =>
                pc'[s] = pc[s] /\ out'[s] = out[s] /\ want'[s] = want[s]
    PROVE  Clean'
BY DEF Clean, Rewriting

LEMMA RememberClean ==
    ASSUME Types, Clean, NEW s \in Stores, NEW h \in Hashes, NEW d \in Verdicts,
           NEW scope \in Scopes, NEW x \in Previews,
           Remember(s, h, d, scope, x) \/ RememberSplit(s, h, d, scope, x)
    PROVE  Clean'
<1> DEFINE r == NewRecord(s, h, d, scope, x)
<1>1. PICK line \in {r} \cup (Piece \ Record) : Remembered(s, r, line)
    BY WrittenLine
<1> HIDE DEF r
<1>2. /\ file' = file \cup {line} /\ gone' = gone \ {r.preview}
      /\ tail' = "whole" /\ UNCHANGED <<tmp, pc, want, out>>
      /\ mishaps \subseteq mishaps'
    BY <1>1 DEF Remembered, calls, Suffers
<1>3. \A q \in Parsed(file') : q \in Parsed(file) \/ q.preview \notin gone'
    BY <1>1, <1>2 DEF Parsed
<1> QED
    BY <1>2, <1>3 DEF Clean, Rewriting

\* A store that reads while another rewrites makes that reading stale.
LEMMA EraseReadClean ==
    ASSUME Types, Clean, NEW s \in Stores, EraseRead(s)
    PROVE  Clean'
<1> USE DEF Types, Rewriting, Erasing
<1>1. /\ pc[s] = "read" /\ tail # "absent" /\ pc' = [pc EXCEPT ![s] = "write"]
      /\ out' = [out EXCEPT ![s] = Blanked(file, want[s])]
      /\ UNCHANGED <<file, tail, tmp, want, gone>>
      /\ mishaps' = mishaps \cup Stale(s)
    BY DEF EraseRead, Suffers
<1>2. (\E t \in Stores \ {s} : Rewriting(t)) => "stale" \in mishaps'
    BY <1>1 DEF Stale
<1>3. \A q \in Parsed(Blanked(file, want[s])) :
          /\ q.preview \notin want[s].subjects
          /\ q.preview = None \/ \E r \in Parsed(file) : q.preview = r.preview
    BY BlankedRecords
<1>4. None \notin gone
    BY StoreAssumption
<1>5. tail' # "absent" /\ (mishaps' \cap {"failed", "stale"} = {}
                            => mishaps \cap {"failed", "stale"} = {})
    BY <1>1
<1> SUFFICES ASSUME mishaps' \cap {"failed", "stale"} = {}
             PROVE  /\ \A t, u \in Stores : Rewriting(t)' /\ Rewriting(u)' => t = u
                    /\ \A t \in Stores : pc'[t] = "replace" /\ tmp' # None => tmp' = out'[t]
                    /\ \A t \in Stores : Rewriting(t)' =>
                          \A r \in Parsed(out'[t]) : r.preview \notin gone' \cup want'[t].subjects
                    /\ \A r \in Parsed(file') : r.preview \notin gone'
                    /\ tmp' # None => \A r \in Parsed(tmp') : r.preview \notin gone'
    BY <1>5 DEF Clean
<1>6. \A t \in Stores : t # s => ~Rewriting(t) /\ ~Rewriting(t)'
    BY <1>1, <1>2
<1>7. out'[s] = Blanked(file, want[s]) /\ pc'[s] = "write" /\ want'[s] = want[s]
    BY <1>1
<1>8. \A r \in Parsed(file) : r.preview \notin gone
    BY <1>5 DEF Clean
<1> QED
    BY <1>1, <1>3, <1>4, <1>5, <1>6, <1>7, <1>8 DEF Clean

LEMMA EraseWriteClean ==
    ASSUME Types, Clean, NEW s \in Stores, EraseWrite(s)
    PROVE  Clean'
<1> USE DEF Types, Rewriting, Erasing
<1>1. /\ pc[s] = "write" /\ pc' = [pc EXCEPT ![s] = "replace"] /\ tmp' = out[s]
      /\ UNCHANGED <<file, tail, want, out, gone, mishaps>>
    BY DEF EraseWrite
<1>2. \A t \in Stores : Rewriting(t)' <=> Rewriting(t)
    BY <1>1
<1> QED
    BY <1>1, <1>2 DEF Clean

LEMMA EraseReplaceClean ==
    ASSUME Types, Clean, NEW s \in Stores, EraseReplace(s)
    PROVE  Clean'
<1> USE DEF Types, Rewriting, Erasing
<1>1. /\ pc[s] = "replace" /\ tmp # None /\ pc' = [pc EXCEPT ![s] = "idle"]
      /\ file' = tmp /\ tmp' = None /\ tail' = "whole"
      /\ gone' = gone \cup want[s].subjects /\ mishaps' = mishaps
    BY DEF EraseReplace, EraseReturn
<1>2. \A t \in Stores : Rewriting(t)' => t # s /\ Rewriting(t)
    BY <1>1
<1> QED
    BY <1>1, <1>2 DEF Clean

LEMMA EraseEndClean ==
    ASSUME Types, Clean, NEW s \in Stores, EraseNoFile(s) \/ EraseRaises(s) \/ EraseFails(s)
    PROVE  Clean'
<1> USE DEF Types, Rewriting, Erasing
<1>1. \A t \in Stores : Rewriting(t)' => Rewriting(t)
    BY DEF EraseNoFile, EraseRaises, EraseFails, EraseReturn
<1>2. CASE EraseNoFile(s)
    BY <1>1, <1>2 DEF EraseNoFile, EraseReturn, Clean, Parsed
<1>3. CASE EraseFails(s)
    BY <1>1, <1>3 DEF EraseFails, EraseReturn, Suffers, Clean
<1>4. CASE EraseRaises(s)
    BY <1>1, <1>4 DEF EraseRaises, Clean
<1> QED
    BY <1>2, <1>3, <1>4

LEMMA OtherClean ==
    ASSUME Types, Clean,
           \/ Tick \/ UNCHANGED vars
           \/ \E s \in Stores : \/ Open(s) \/ Close(s) \/ \E x \in Previews : RememberTorn(s, x)
                               \/ \E target \in Targets : EraseStart(s, target)
    PROVE  Clean'
<1> USE DEF Types, Rewriting
<1>1. CASE \E s \in Stores, x \in Previews : RememberTorn(s, x)
  <2>1. PICK s \in Stores, x \in Previews : RememberTorn(s, x)
      BY <1>1
  <2>2. Parsed(file') = Parsed(file)
      BY <2>1, PieceType, PreviewAssumption DEF RememberTorn, Parsed
  <2> QED
      BY <2>1, <2>2 DEF RememberTorn, Suffers, calls, Clean
<1>2. CASE \E s \in Stores : Open(s) \/ Close(s)
    BY <1>2, CleanKept DEF Open, Close
<1>3. CASE \E s \in Stores, target \in Targets : EraseStart(s, target)
    BY <1>3, CleanKept DEF EraseStart
<1>4. CASE Tick \/ UNCHANGED vars
    BY <1>4, CleanKept DEF Tick, vars, calls
<1> QED
    BY <1>1, <1>2, <1>3, <1>4

LEMMA CleanNext == Types /\ Clean /\ [Next]_vars => Clean'
BY RememberClean, EraseReadClean, EraseWriteClean, EraseReplaceClean, EraseEndClean, OtherClean
   DEF Next, Step

\* However stores erase beside each other and crash, what a subject's erasure took out
\* is in no record of either file, unless a rewrite failed or a reading was stale.
THEOREM ErasuresStick == Spec => []EraseSticks
<1>1. Init => Types /\ Clean
    BY TypesInit DEF Init, Clean, Rewriting, Parsed
<1>2. Types /\ Clean /\ [Next]_vars => Types' /\ Clean'
    BY TypesNext, CleanNext
<1>3. Types /\ Clean => EraseSticks
    BY DEF Clean, EraseSticks, Parsed
<1> QED
    BY <1>1, <1>2, <1>3, PTL DEF Spec

-----------------------------------------------------------------------------
(* No recall turns to an allow by itself. *)

\* A step after which no tier has an allow where it had none, nor lost its last block.
TiersHold(s, h) ==
    \A scope \in {"always", "session"} :
        /\ \A r \in Tier(s, h, scope, now)' : r.decision # "block" =>
              \E q \in Tier(s, h, scope, now) : q.decision # "block"
        /\ \A q \in Tier(s, h, scope, now) : q.decision = "block" =>
              \E r \in Tier(s, h, scope, now)' : r.decision = "block"

LEMMA RecallIs ==
    ASSUME NEW s, NEW h
    PROVE  LET Says(tier) == tier # {} /\ \A r \in tier : r.decision # "block"
           IN  /\ Recall(s, h, now) = "allow" <=>
                    \/ Says(Tier(s, h, "always", now))
                    \/ Tier(s, h, "always", now) = {} /\ Says(Tier(s, h, "session", now))
               /\ Recall(s, h, now)' = "allow" <=>
                    \/ Says(Tier(s, h, "always", now)')
                    \/ Tier(s, h, "always", now)' = {} /\ Says(Tier(s, h, "session", now)')
BY DEF Recall, Verdict

LEMMA TiersHoldRecall ==
    ASSUME NEW s, NEW h, TiersHold(s, h), Recall(s, h, now)' = "allow"
    PROVE  Recall(s, h, now) = "allow"
BY RecallIs DEF TiersHold

\* Time takes allows away, never blocks.
LEMMA TimeHolds ==
    ASSUME Types, NEW s \in Stores, NEW h, index' = index, now' \in Times, now' >= now
    PROVE  TiersHold(s, h)
<1>1. \A r \in index[s] : r.ts \in Int /\ now \in Int /\ now' \in Int
  <2>1. index[s] \subseteq Record /\ now \in Times
      BY DEF Types
  <2>2. \A r \in Record : r.ts \in Times
      BY DEF Record
  <2>3. \A t \in Times : t \in Int
      BY ClockAssumption
  <2> QED
      BY <2>1, <2>2, <2>3
<1>2. \A r \in index[s] : Live(r, now') => Live(r, now)
    BY <1>1, ClockAssumption DEF Live
<1>3. \A scope : Tier(s, h, scope, now)' \subseteq Tier(s, h, scope, now)
    BY <1>2 DEF Tier, Live
<1>4. \A scope : \A q \in Tier(s, h, scope, now) :
          q.decision = "block" => q \in Tier(s, h, scope, now)'
    BY DEF Tier, Live
<1> QED
    BY <1>3, <1>4 DEF TiersHold

\* Blanking a preview leaves the decision in its tier.
LEMMA BlankingHolds ==
    ASSUME Types, NEW s \in Stores, NEW h, NEW target \in Target,
           index'[s] = Blanked(index[s], target), now' = now
    PROVE  TiersHold(s, h)
<1>1. index[s] \in SUBSET Record /\ index[s] \in SUBSET Line /\ index'[s] \in SUBSET Record
  <2>1. index[s] \in SUBSET Record
      BY DEF Types
  <2>2. index[s] \in SUBSET Line
      BY <2>1 DEF Line
  <2> QED
      BY <2>1, <2>2, BlankedRecords
<1>2. \A q, r \in Record : SameDecision(q, r) =>
          \A scope : (/\ q.hash = h
                      /\ q.scope = scope
                      /\ scope = "session" => q.session = SessionOf[s]
                      /\ Live(q, now))
                 <=> (/\ r.hash = h
                      /\ r.scope = scope
                      /\ scope = "session" => r.session = SessionOf[s]
                      /\ Live(r, now))
    BY SameFields DEF Live
<1>3. \A scope : \A r \in Tier(s, h, scope, now)' :
          \E q \in Tier(s, h, scope, now) : q.decision = r.decision
  <2> SUFFICES ASSUME NEW scope, NEW r \in Tier(s, h, scope, now)'
               PROVE  \E q \in Tier(s, h, scope, now) : q.decision = r.decision
      OBVIOUS
  <2>1. r \in index'[s] /\ r \in Record
      BY <1>1 DEF Tier
  <2>2. PICK q \in index[s] : SameDecision(r, q)
      BY <1>1, <2>1, BlankedRecords DEF Parsed
  <2> QED
      BY <1>1, <1>2, <2>1, <2>2, SameFields DEF Tier, Live
<1>4. \A scope : \A q \in Tier(s, h, scope, now) :
          \E r \in Tier(s, h, scope, now)' : q.decision = r.decision
  <2> SUFFICES ASSUME NEW scope, NEW q \in Tier(s, h, scope, now)
               PROVE  \E r \in Tier(s, h, scope, now)' : q.decision = r.decision
      OBVIOUS
  <2>1. q \in index[s] /\ q \in Record
      BY <1>1 DEF Tier
  <2>2. \A o \in index[s] : \E r \in Blanked(index[s], target) : SameDecision(r, o)
      BY <1>1, BlankedRecords
  <2>3. PICK r \in index'[s] : SameDecision(r, q)
      BY <2>1, <2>2
  <2> QED
      BY <1>1, <1>2, <2>1, <2>3, SameFields DEF Tier, Live
<1> QED
    BY <1>3, <1>4 DEF TiersHold

\* A new decision about another text is in no tier of this one; a new block only adds, and
\* so does a decision that is known apart from its preview.
LEMMA NewBlockHolds ==
    ASSUME Types, NEW s \in Stores, NEW h, NEW r \in Record,
           index'[s] = index[s] \cup {r}, now' = now,
           r.hash # h \/ r.decision = "block" \/ \E q \in index[s] : SameDecision(q, r)
    PROVE  TiersHold(s, h)
<1>1. \A scope : Tier(s, h, scope, now) \subseteq Tier(s, h, scope, now)'
    BY DEF Tier, Live
<1>2. \A scope : \A q \in Tier(s, h, scope, now)' :
          q.decision = "block" \/ \E o \in Tier(s, h, scope, now) : o.decision = q.decision
  <2>1. CASE \E q \in index[s] : SameDecision(q, r)
    <3>1. PICK o \in index[s] : SameDecision(o, r)
        BY <2>1
    <3>2. /\ o.hash = r.hash /\ o.decision = r.decision /\ o.scope = r.scope
          /\ o.session = r.session /\ o.ts = r.ts
        BY <3>1, SameFields DEF Types
    <3> QED
        BY <3>1, <3>2 DEF Tier, Live
  <2>2. CASE r.hash # h \/ r.decision = "block"
      BY <2>2 DEF Tier, Live
  <2> QED
      BY <2>1, <2>2
<1> QED
    BY <1>1, <1>2 DEF TiersHold

\* A clearance that was not known.
Cleared(s, h) ==
    \E r \in index'[s] :
        /\ r.hash = h /\ r.decision = "allow"
        /\ \A q \in index[s] : ~SameDecision(q, r)

LEMMA ClearanceStep ==
    ASSUME Types, [Next]_vars, NEW s \in Stores, NEW h \in Hashes,
           pc[s] # "off", pc'[s] # "off",
           Recall(s, h, now) # "allow", Recall(s, h, now)' = "allow"
    PROVE  Cleared(s, h)
<1> USE DEF Types
<1>1. now \in Int /\ now >= now
    BY ClockAssumption
<1>2. ASSUME NEW t \in Stores, NEW g \in Hashes, NEW d \in Verdicts, NEW scope \in Scopes,
             NEW x \in Previews, Remember(t, g, d, scope, x) \/ RememberSplit(t, g, d, scope, x)
      PROVE  Cleared(s, h)
  <2> DEFINE r == NewRecord(t, g, d, scope, x)
  <2>1. r \in Record /\ r.decision \in Verdicts
      BY NewRecordType, PreviewAssumption
  <2>2. index' = [index EXCEPT ![t] = @ \cup {r}] /\ now' = now
      BY <1>2 DEF Remember, RememberSplit, Remembered
  <2> HIDE DEF r
  <2>3. CASE t = s
    <3>1. index'[s] = index[s] \cup {r}
        BY <2>2, <2>3
    <3>2. ~(r.hash # h \/ r.decision = "block" \/ \E q \in index[s] : SameDecision(q, r))
        BY <2>1, <2>2, <3>1, NewBlockHolds, TiersHoldRecall
    <3> QED
        BY <2>1, <3>1, <3>2 DEF Verdicts, Cleared
  <2>4. CASE t # s
    <3>1. index'[s] = index[s]
        BY <2>2, <2>4
    <3> QED
        BY <2>2, <3>1 DEF Recall, Tier
  <2> QED
      BY <2>3, <2>4
<1>3. ASSUME NEW t \in Stores, NEW target \in Targets, EraseStart(t, target)
      PROVE  FALSE
  <2>1. target \in Target
      BY DEF Targets, Target
  <2>2. index' = [index EXCEPT ![t] = Blanked(@, target)] /\ now' = now
      BY <1>3 DEF EraseStart
  <2>3. CASE t = s
    <3>1. index'[s] = Blanked(index[s], target)
        BY <2>2, <2>3
    <3> QED
        BY <2>1, <2>2, <3>1, BlankingHolds, TiersHoldRecall
  <2>4. CASE t # s
    <3>1. index'[s] = index[s]
        BY <2>2, <2>4
    <3> QED
        BY <2>2, <3>1 DEF Recall, Tier
  <2> QED
      BY <2>3, <2>4
<1>4. ASSUME NEW t \in Stores, Open(t) \/ Close(t)
      PROVE  FALSE
  <2>1. t # s /\ index'[s] = index[s] /\ now' = now
      BY <1>4 DEF Open, Close
  <2> QED
      BY <2>1 DEF Recall, Tier
<1>5. ASSUME Tick \/ UNCHANGED vars \/ \E t \in Stores :
                 \/ \E x \in Previews : RememberTorn(t, x)
                 \/ EraseNoFile(t) \/ EraseRead(t) \/ EraseRaises(t) \/ EraseWrite(t)
                 \/ EraseReplace(t) \/ EraseFails(t)
      PROVE  FALSE
  <2>1. index' = index /\ now' \in Times /\ now' >= now
    <3>1. CASE Tick
        BY <3>1, ClockAssumption DEF Tick
    <3>2. CASE ~Tick
      <4>1. index' = index /\ now' = now
          BY <1>5, <3>2 DEF vars, RememberTorn, EraseNoFile, EraseRead, EraseRaises,
                            EraseWrite, EraseReplace, EraseFails
      <4> QED
          BY <1>1, <4>1
    <3> QED
        BY <3>1, <3>2
  <2> QED
      BY <2>1, TimeHolds, TiersHoldRecall
<1> QED
    BY <1>2, <1>3, <1>4, <1>5 DEF Next, Step

\* For any number of stores, texts and moments, the recall of an open store turns to
\* "allow" only by a clearance of that text this store did not know of before that step.
THEOREM ClearancesOnly == Spec => AllowOnlyByClearance
<1>1. Spec => []Types
    BY TypesInit, TypesNext, PTL DEF Spec
<1>2. Types /\ [Next]_vars =>
        [\A s \in Stores, h \in Hashes :
            /\ pc[s] # "off" /\ pc'[s] # "off"
            /\ Recall(s, h, now) # "allow"
            /\ Recall(s, h, now)' = "allow"
            => \E r \in index'[s] :
                  /\ r.hash = h /\ r.decision = "allow"
                  /\ \A q \in index[s] : ~SameDecision(q, r)]_vars
    BY ClearanceStep DEF Cleared
<1> QED
    BY <1>1, <1>2, PTL DEF Spec, AllowOnlyByClearance
=============================================================================
