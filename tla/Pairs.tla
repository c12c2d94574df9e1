-------------------------------- MODULE Pairs --------------------------------
(***************************************************************************)
(* lock_classify.py: a pair of the host's memory is classified when it is   *)
(* ingested, and again by reclassify_all_pairs when the lock's rules have   *)
(* changed. Processes sweep the memory while others ingest; each has the    *)
(* version of the rules it was started with.                                *)
(***************************************************************************)
EXTENDS Naturals, FiniteSets

CONSTANTS
    Hosts,          \* processes that ingest and sweep
    Ids,            \* pairs
    Texts,          \* what a pair may say: functions from PairSlots to Words
    Failures,       \* the places at which lock_text may raise together, see Places
    MaxRelease,     \* bound of the versions of the rules
    MaxIngests      \* bound of the writes of a behaviour

(* The slots of a pair stand for those the code treats alike: the summary;  *)
(* the facets of _SAFE_FACET_KEYS; what only becomes a triple (kind, term,  *)
(* the context's lists, ...); scope, type and authority_tier; body_format.  *)
PairSlots == {"summary", "facet", "term", "scope", "format"}

(* Where the clean block has them: scrubbed or as they are in its           *)
(* fingerprint, scrubbed in its triples.                                    *)
Scrubbed == {"summary", "facet"}
Raw      == {"scope", "format"}
Tripled  == {"facet", "term", "scope"}

Places == ({"fingerprint"} \X Scrubbed) \cup ({"triples"} \X Tripled)

(* A slot says nothing, something the lock lets pass, minimises, refuses,   *)
(* or refuses from the second version on; or it is no string.               *)
Words == {"none", "plain", "mild", "secret", "late", "object"}

Releases == 1..MaxRelease

ASSUME TextsAssumption == Texts \subseteq [PairSlots -> Words]
ASSUME FailuresAssumption == Failures \subseteq SUBSET Places
ASSUME BoundsAssumption == MaxRelease \in Nat \ {0} /\ MaxIngests \in Nat

VARIABLES
    memory,             \* the stored pairs
    release,            \* the version of the rules new processes start with
    rules, sweep, todo, \* of a process: its version, its step, the listed pairs to go
    wrote, overlapped,  \* history: what was ingested last, and whether under a sweep
    ingests, disturbed  \* history: number of ingests; others wrote since a sweep listed

history   == <<wrote, overlapped, ingests>>
pairsVars == <<memory, release, rules, sweep, todo, history, disturbed>>

-----------------------------------------------------------------------------
(* lock_classify_pair                                                       *)

Refused(v, word) == word = "secret" \/ (word = "late" /\ v >= 2)

\* Mutant of LockString: lock_text that raises lets the word pass.
LockStringOpen(v, word, raises) ==
    CASE word = "none" -> "none"
      [] word # "none" /\ raises -> word
      [] ~raises /\ (word = "object" \/ Refused(v, word)) -> "dropped"
      [] ~raises /\ word = "mild" -> "minimised"
      [] word \in {"plain", "late"} /\ ~raises /\ ~Refused(v, word) -> word

\* _lock_string: nothing is said about nothing; lock_text that raises, as it does
\* for what is no string, is a refusal.
LockString(v, word, raises) ==
    CASE word = "none" -> "none"
      [] word = "object" \/ (word # "none" /\ (raises \/ Refused(v, word))) -> "dropped"
      [] word = "mild" /\ ~raises -> "minimised"
      [] word \in {"plain", "late"} /\ ~raises /\ ~Refused(v, word) -> word

\* A facet or the object of a triple that is no string is passed on as it is.
Scrub(v, word, raises) == IF word = "object" THEN word ELSE LockString(v, word, raises)

\* The stored form: text, version, and the clean block's two halves. `raising`
\* is where lock_text happened to raise.
Classified(text, v, raising) ==
    [text |-> text,
     version |-> v,
     fingerprint |-> [s \in Scrubbed \cup Raw |->
        LET raises == <<"fingerprint", s>> \in raising
        IN  CASE s \in Raw     -> text[s]
              [] s = "summary" -> LockString(v, text[s], raises)
              [] s = "facet"   -> Scrub(v, text[s], raises)],
     triples |-> [s \in Tripled |-> Scrub(v, text[s], <<"triples", s>> \in raising)]]

\* A pair from before there was a classification.
Unclassified(text) ==
    [text |-> text, version |-> 0,
     fingerprint |-> [s \in Scrubbed \cup Raw |-> "none"],
     triples |-> [s \in Tripled |-> "none"]]

Cleaned == Words \cup {"dropped", "minimised"}

Pair == [text : Texts, version : Releases \cup {0},
         fingerprint : [Scrubbed \cup Raw -> Cleaned], triples : [Tripled -> Cleaned]]

Listed == [id : Ids, pair : Pair]

PairsTypeOK ==
    /\ memory \in [Ids -> Pair]
    /\ release \in Releases
    /\ rules \in [Hosts -> Releases]
    /\ sweep \in [Hosts -> {"idle", "sweeping", "swept"}]
    /\ todo \in [Hosts -> SUBSET Listed]
    /\ \A h \in Hosts :
        /\ rules[h] <= release
        /\ todo[h] # {} => sweep[h] = "sweeping"
        /\ \A e, f \in todo[h] : e.id = f.id => e = f
    /\ wrote \in [Ids -> Texts]
    /\ overlapped \in [Ids -> BOOLEAN]
    /\ ingests \in 0..MaxIngests
    /\ disturbed \in [Hosts -> BOOLEAN]

PairsInit ==
    /\ \E texts \in [Ids -> Texts] :
        /\ memory = [i \in Ids |-> Unclassified(texts[i])]
        /\ wrote = texts
    /\ release = 1
    /\ rules = [h \in Hosts |-> 1]
    /\ sweep = [h \in Hosts |-> "idle"]
    /\ todo = [h \in Hosts |-> {}]
    /\ overlapped = [i \in Ids |-> FALSE]
    /\ ingests = 0
    /\ disturbed = [h \in Hosts |-> FALSE]

-----------------------------------------------------------------------------
\* Mutant of Current: a pair with any lock block is current.
CurrentIfClassified(h, e) == e.pair.version > 0

Current(h, e) == e.pair.version = rules[h]

\* A write by h, as the sweeps of the others see it.
Disturb(h) == disturbed' =
    [g \in Hosts |-> disturbed[g] \/ (sweep[g] # "idle" /\ rules[g] # rules[h])]

\* The host ingests a pair, anew or over an older one.
Ingest(h, i, text, raising) ==
    /\ ingests < MaxIngests
    /\ ingests' = ingests + 1
    /\ memory' = [memory EXCEPT ![i] = Classified(text, rules[h], raising)]
    /\ wrote' = [wrote EXCEPT ![i] = text]
    /\ overlapped' = [overlapped EXCEPT ![i] =
                        \E g \in Hosts : \E e \in todo[g] : e.id = i /\ ~Current(g, e)]
    /\ Disturb(h)
    /\ UNCHANGED <<release, rules, sweep, todo>>

\* reclassify_all_pairs lists the whole memory first.
SweepList(h) ==
    /\ sweep[h] # "sweeping"
    /\ sweep' = [sweep EXCEPT ![h] = "sweeping"]
    /\ todo' = [todo EXCEPT ![h] = {[id |-> i, pair |-> memory[i]] : i \in Ids}]
    /\ disturbed' = [disturbed EXCEPT ![h] = FALSE]
    /\ UNCHANGED <<memory, release, rules, history>>

\* Mutant of SweepSkip: a current pair is written back too, as it was listed.
SweepSkipRewrite(h, e) ==
    /\ e \in todo[h] /\ Current(h, e)
    /\ memory' = [memory EXCEPT ![e.id] = e.pair]
    /\ todo' = [todo EXCEPT ![h] = @ \ {e}]
    /\ UNCHANGED <<release, rules, sweep, history, disturbed>>

SweepSkip(h, e) ==
    /\ e \in todo[h] /\ Current(h, e)
    /\ todo' = [todo EXCEPT ![h] = @ \ {e}]
    /\ UNCHANGED <<memory, release, rules, sweep, history, disturbed>>

\* The pair is written back as it was listed, with new blocks.
SweepRewrite(h, e, raising) ==
    /\ e \in todo[h] /\ ~Current(h, e)
    /\ memory' = [memory EXCEPT ![e.id] = Classified(e.pair.text, rules[h], raising)]
    /\ todo' = [todo EXCEPT ![h] = @ \ {e}]
    /\ Disturb(h)
    /\ UNCHANGED <<release, rules, sweep, history>>

\* Mutant of SweepReturn: it returns with pairs to go.
SweepReturnEarly(h) ==
    /\ sweep[h] = "sweeping"
    /\ sweep' = [sweep EXCEPT ![h] = "swept"]
    /\ UNCHANGED <<memory, release, rules, todo, history, disturbed>>

SweepReturn(h) ==
    /\ sweep[h] = "sweeping" /\ todo[h] = {}
    /\ sweep' = [sweep EXCEPT ![h] = "swept"]
    /\ UNCHANGED <<memory, release, rules, todo, history, disturbed>>

\* The process ends, in a sweep or not, and starts again with the installed rules.
Restart(h) ==
    /\ sweep[h] # "idle" \/ rules[h] # release
    /\ rules' = [rules EXCEPT ![h] = release]
    /\ sweep' = [sweep EXCEPT ![h] = "idle"]
    /\ todo' = [todo EXCEPT ![h] = {}]
    /\ disturbed' = [disturbed EXCEPT ![h] = FALSE]
    /\ UNCHANGED <<memory, release, history>>

\* LOCK_DISCLAIMER_VERSION is bumped.
Release ==
    /\ release < MaxRelease
    /\ release' = release + 1
    /\ UNCHANGED <<memory, rules, sweep, todo, history, disturbed>>

PairsNext ==
    \/ \E h \in Hosts, i \in Ids, x \in Texts, raising \in Failures : Ingest(h, i, x, raising)
    \/ \E h \in Hosts : SweepList(h) \/ SweepReturn(h) \/ Restart(h)
    \/ \E h \in Hosts : \E e \in todo[h] :
        \/ SweepSkip(h, e)
        \/ \E raising \in Failures : SweepRewrite(h, e, raising)
    \/ Release

PairsSpec == PairsInit /\ [][PairsNext]_pairsVars

-----------------------------------------------------------------------------
\* Where clean is scrubbed it has nothing that the rules it was made under would
\* refuse, also when lock_text raised on the way.
CleanObeysRules ==
    \A i \in Ids : LET p == memory[i] IN
        p.version > 0 =>
            /\ \A s \in Scrubbed : ~Refused(p.version, p.fingerprint[s])
            /\ \A s \in Tripled : ~Refused(p.version, p.triples[s])

\* A sweep that returns leaves no pair of an older classification, whatever was
\* ingested meanwhile and however often a sweep died before, unless a process
\* with other rules wrote while it ran.
SweepLeavesNoneBehind ==
    \A h \in Hosts : sweep[h] = "swept" /\ ~disturbed[h]
        => \A i \in Ids : memory[i].version = rules[h]

\* What is ingested is not lost, but to a sweep that had listed the pair to
\* rewrite it.
IngestKept == \A i \in Ids : memory[i].text = wrote[i] \/ overlapped[i]
=============================================================================
