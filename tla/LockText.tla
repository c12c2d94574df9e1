------------------------------ MODULE LockText ------------------------------
(***************************************************************************)
(* The approval of a text (lock_text of loomground_lock/core.py) over the  *)
(* host's hooks.                                                           *)
(*                                                                         *)
(* A text is what each tier would find in it.  Threads run lock_text, one  *)
(* action per read of the hook registry; a Tier B finding comes with a     *)
(* remediation block that wires the host, as Tier C does.                  *)
(***************************************************************************)
EXTENDS HostDeps, Moderation

CONSTANTS Texts, Modes, Rulesets

Severity == {"none", "medium", "high"}

\* pattern: a Tier B match; hidden: one only after folding; term: a confidential
\* term of the context; kind, meaning: what the built-in tier and the host's
\* backend make of it.
Text == [pattern : BOOLEAN, hidden : BOOLEAN, term : BOOLEAN,
         kind : Severity, meaning : Severity]

AllModes == {"standard", "strict", "permissive", "audit_only"}

ASSUME TextAssumption == Texts \subseteq Text /\ Modes \subseteq AllModes /\ None \notin Text

\* None: no moderation_rules, or what is no dictionary.
ASSUME RulesAssumption == Rulesets \subseteq Rules \cup {None} /\ None \notin Rules

VARIABLES
    pc,         \* thread -> where its lock_text is
    text,       \* thread -> the text it was called with
    mode,
    found,      \* thread -> findings so far, by tier and severity
    semantic,   \* thread -> the hook as it was read
    broken,     \* thread -> wiring_error() as it was read
    rules,      \* thread -> the moderation rules of its call, once they are read
    decision    \* thread -> the TextDecision

lock == <<pc, text, mode, found, semantic, broken, rules, decision>>
vars == <<depVars, lock>>

-----------------------------------------------------------------------------
Tiers   == {"B", "B+", "terms", "default", "host", "unavailable", "M"}
Finding == [tier : Tiers, severity : {"medium", "high"}]

Find(tier, severity) ==
    IF severity = "none" THEN {} ELSE {[tier |-> tier, severity |-> severity]}

FindIf(tier, seen) == Find(tier, IF seen THEN "high" ELSE "none")

\* What the tiers make of a text; moderation that cannot be enforced is a finding
\* like a match.
Patterns(x)     == FindIf("B", x.pattern) \cup FindIf("B+", x.hidden)
ContextTerms(x) == FindIf("terms", x.term)
BuiltIn(x)      == Find("default", x.kind)
Moderation(r)   == FindIf("M", r # None /\ Moderated(r) # {})

\* _redact_text_with_regex replaces the Tier B spans of a text.
Redacted(x) == [x EXCEPT !.pattern = FALSE]

Decision == [action : {"allow", "minimise", "refuse"}, sends : Text \cup {None}]

ASSUME DecisionAssumption == None \notin Decision

Decide(action, sends) == [action |-> action, sends |-> sends]

\* _decide_text, with what a caller then sends.
DecideText(findings, x, m) ==
    CASE m \in {"audit_only", "permissive"} \/ findings = {} -> Decide("allow", x)
      [] m \in {"strict", "standard"} /\ findings # {} ->
            IF m = "strict" \/ \E f \in findings : f.severity = "high"
            THEN Decide("refuse", None)
            ELSE Decide("minimise", Redacted(x))

-----------------------------------------------------------------------------
Pcs == {"idle", "scanned", "hook", "error", "semantic", "required", "moderate", "answered"}

\* With the types, what a thread knows by where it is.
TypeOK ==
    /\ DepsTypeOK
    /\ pc \in [Threads -> Pcs]
    /\ text \in [Threads -> Texts \cup {None}]
    /\ mode \in [Threads -> Modes \cup {None}]
    /\ found \in [Threads -> SUBSET Finding]
    /\ semantic \in [Threads -> Semantic \cup {None}]
    /\ broken \in [Threads -> BOOLEAN]
    /\ rules \in [Threads -> Rulesets \cup {None}]
    /\ decision \in [Threads -> Decision \cup {None}]
    /\ \A t \in Threads :
          /\ pc[t] = "idle" <=> text[t] = None
          /\ pc[t] \notin {"scanned", "hook"} => Out(t)
          /\ decision[t] # None <=> pc[t] = "answered"
          /\ pc[t] = "idle" => found[t] = {} /\ semantic[t] = None /\ ~broken[t]
          /\ rules[t] # None => pc[t] = "answered"

Init ==
    /\ DepsInit
    /\ pc = [t \in Threads |-> "idle"]
    /\ text = [t \in Threads |-> None]
    /\ mode = [t \in Threads |-> None]
    /\ found = [t \in Threads |-> {}]
    /\ semantic = [t \in Threads |-> None]
    /\ broken = [t \in Threads |-> FALSE]
    /\ rules = [t \in Threads |-> None]
    /\ decision = [t \in Threads |-> None]

Goto(t, here, there) == pc[t] = here /\ pc' = [pc EXCEPT ![t] = there]
Add(t, findings)     == found' = [found EXCEPT ![t] = @ \cup findings]

\* Tier B and B+; a finding's disable_lock remediation asks the host.
Scan(t, x, m) ==
    /\ Goto(t, "idle", "scanned")
    /\ text' = [text EXCEPT ![t] = x]
    /\ mode' = [mode EXCEPT ![t] = m]
    /\ Add(t, Patterns(x))
    /\ IF Patterns(x) = {} THEN UNCHANGED wpc ELSE Enter(t)
    /\ UNCHANGED <<registry, runs, left, promised, semantic, broken, rules, decision>>

\* _tier_c
Terms(t) ==
    /\ Goto(t, "scanned", "hook")
    /\ Out(t)
    /\ Add(t, ContextTerms(text[t]))
    /\ Enter(t)
    /\ UNCHANGED <<registry, runs, left, promised, text, mode, semantic, broken,
                   rules, decision>>

ReadHook(t) ==
    /\ Goto(t, "hook", "error")
    /\ Out(t)
    /\ semantic' = [semantic EXCEPT ![t] = hooks.semantic]
    /\ UNCHANGED <<depVars, text, mode, found, broken, rules, decision>>

ReadError(t) ==
    /\ Goto(t, "error", "semantic")
    /\ broken' = [broken EXCEPT ![t] = error]
    /\ UNCHANGED <<depVars, text, mode, found, semantic, rules, decision>>

Usable(t) == ~broken[t] /\ semantic[t] = "answers"

UseHook(t) ==
    /\ Goto(t, "semantic", "moderate")
    /\ Usable(t)
    /\ Add(t, Find("host", text[t].meaning))
    /\ UNCHANGED <<depVars, text, mode, semantic, broken, rules, decision>>

\* Mutant of UseDefault: a hook that crashed is not stood in for.
UseDefaultUnlessWired(t) ==
    /\ Goto(t, "semantic", "required")
    /\ ~Usable(t)
    /\ Add(t, IF semantic[t] = None THEN BuiltIn(text[t]) ELSE {})
    /\ UNCHANGED <<depVars, text, mode, semantic, broken, rules, decision>>

UseDefault(t) ==
    /\ Goto(t, "semantic", "required")
    /\ ~Usable(t)
    /\ Add(t, BuiltIn(text[t]))
    /\ UNCHANGED <<depVars, text, mode, semantic, broken, rules, decision>>

Required(t) ==
    /\ Goto(t, "required", "moderate")
    /\ Add(t, FindIf("unavailable", broken[t] \/ Promises(hooks.requires)))
    /\ UNCHANGED <<depVars, text, mode, semantic, broken, rules, decision>>

\* Tier M by the rules of the call, which nothing has looked at before, and the
\* decision.
Moderate(t, r) ==
    /\ Goto(t, "moderate", "answered")
    /\ rules' = [rules EXCEPT ![t] = r]
    /\ Add(t, Moderation(r))
    /\ decision' = [decision EXCEPT ![t] = DecideText(found'[t], text[t], mode[t])]
    /\ UNCHANGED <<depVars, text, mode, semantic, broken>>

Return(t) ==
    /\ Goto(t, "answered", "idle")
    /\ text' = [text EXCEPT ![t] = None]
    /\ mode' = [mode EXCEPT ![t] = None]
    /\ found' = [found EXCEPT ![t] = {}]
    /\ semantic' = [semantic EXCEPT ![t] = None]
    /\ broken' = [broken EXCEPT ![t] = FALSE]
    /\ rules' = [rules EXCEPT ![t] = None]
    /\ decision' = [decision EXCEPT ![t] = None]
    /\ UNCHANGED depVars

LockStep(t) ==
    \/ \E x \in Texts, m \in Modes : Scan(t, x, m)
    \/ Terms(t) \/ ReadHook(t) \/ ReadError(t) \/ UseHook(t) \/ UseDefault(t)
    \/ Required(t) \/ (\E r \in Rulesets : Moderate(t, r)) \/ Return(t)

Step(t) == LockStep(t) \/ (EnsureStep(t) /\ UNCHANGED lock)

\* The host wires while no call is in progress.
Idle == \A t \in Threads : pc[t] = "idle"

Next == (\E t \in Threads : Step(t)) \/ (HostStep /\ Idle /\ UNCHANGED lock)

Spec == Init /\ [][Next]_vars

\* ... and keeps its threads apart until the first of them has wired it.
WiredFirstNext ==
    \/ \E t \in Threads : Step(t) /\ \A u \in Threads \ {t} : Out(u)
    \/ HostStep /\ Idle /\ UNCHANGED lock

WiredFirstSpec == Init /\ [][WiredFirstNext]_vars

-----------------------------------------------------------------------------
Enforced(t) == pc[t] = "answered" /\ mode[t] \in {"standard", "strict"}
Passes(t)   == Enforced(t) /\ decision[t].action # "refuse"

\* Tier C fails closed: where the host has promised a real backend, itself or by
\* a provider, nothing passes that the host's semantic check did not look at,
\* also when the provider raised before it could install the promise.
FailClosed == \A t \in Threads : Passes(t) /\ promised => Usable(t)

\* Nothing passes that a tier in force is certain about, whichever tier that is:
\* the built-in one holds wherever the host's has not answered.
FloorHolds ==
    \A t \in Threads : Passes(t) =>
        /\ ~text[t].pattern /\ ~text[t].hidden /\ ~text[t].term
        /\ (IF Usable(t) THEN text[t].meaning ELSE text[t].kind) # "high"
        /\ mode[t] = "strict" => decision[t].action = "allow"

\* Tier M fails closed: nothing passes that breaks a rule of its call, or of which
\* a rule could not be found out, also when the tier raised on its way and its
\* findings are lost; but for a pattern that overflows where no category requires
\* a backend.
RulesHold ==
    \A t \in Threads : LET r == rules[t] IN
        Passes(t) /\ r # None =>
            \/ Enforceable(r) /\ ~Broken(r)
            \/ r.patterns = "overflows" /\ ~r.categories

\* What tier_m.py says of a pattern that will not compile: the text is held back,
\* the rule never skipped.
RulesEnforced ==
    \A t \in Threads : Passes(t) /\ rules[t] # None => Enforceable(rules[t]) /\ ~Broken(rules[t])
=============================================================================
