----------------------------- MODULE LockProofs -----------------------------
(***************************************************************************)
(* Nothing passes lock_text against the tiers that do not depend on what    *)
(* the host promised, in whichever order threads scan and the host wires;   *)
(* nor against the promise, where the host is wired by one thread first.    *)
(***************************************************************************)
EXTENDS LockText, TLAPS

\* What a thread's findings have by where it is: the findings of each tier it has
\* been through, with the hook and the wiring error as it read them.
Known(t) ==
    /\ pc[t] # "idle" => Patterns(text[t]) \subseteq found[t]
    /\ pc[t] \notin {"idle", "scanned"} => ContextTerms(text[t]) \subseteq found[t]
    /\ pc[t] = "required" => ~Usable(t) /\ BuiltIn(text[t]) \subseteq found[t]
    /\ pc[t] \in {"moderate", "answered"} =>
          IF Usable(t) THEN Find("host", text[t].meaning) \subseteq found[t]
                       ELSE BuiltIn(text[t]) \subseteq found[t]
    /\ pc[t] = "answered" =>
          /\ rules[t] \in Rulesets
          /\ Moderation(rules[t]) \subseteq found[t]
          /\ decision[t] = DecideText(found[t], text[t], mode[t])

Types ==
    /\ pc \in [Threads -> Pcs]
    /\ text \in [Threads -> Texts \cup {None}]
    /\ mode \in [Threads -> Modes \cup {None}]
    /\ found \in [Threads -> SUBSET Finding]
    /\ semantic = [t \in Threads |-> semantic[t]]
    /\ broken = [t \in Threads |-> broken[t]]
    /\ rules \in [Threads -> Rulesets \cup {None}]
    /\ decision \in [Threads -> Decision \cup {None}]
    /\ \A t \in Threads : pc[t] # "idle" => text[t] \in Texts /\ mode[t] \in Modes

LockInv == Types /\ \A t \in Threads : Known(t)

-----------------------------------------------------------------------------
\* A thread none of whose state changes knows what it knew.
LEMMA KnownKept ==
    ASSUME NEW t \in Threads, Known(t),
           pc'[t] = pc[t], text'[t] = text[t], mode'[t] = mode[t], found'[t] = found[t],
           semantic'[t] = semantic[t], broken'[t] = broken[t], rules'[t] = rules[t],
           decision'[t] = decision[t]
    PROVE  Known(t)'
  BY DEF Known, Usable

LEMMA NoThreadMoved == ASSUME LockInv, UNCHANGED lock PROVE LockInv'
  <1>1. Types'
    BY DEF LockInv, Types, lock
  <1>2. \A t \in Threads : Known(t)'
    BY KnownKept DEF LockInv, lock
  <1> QED
    BY <1>1, <1>2 DEF LockInv

\* What the tiers find are findings, and a decision on a text is one.
LEMMA FindingTypes ==
    ASSUME NEW x \in Text, NEW r \in Rules \cup {None}
    PROVE  /\ Patterns(x) \subseteq Finding
           /\ ContextTerms(x) \subseteq Finding
           /\ BuiltIn(x) \subseteq Finding
           /\ Find("host", x.meaning) \subseteq Finding
           /\ Moderation(r) \subseteq Finding
           /\ \A b \in BOOLEAN : FindIf("unavailable", b) \subseteq Finding
  BY DEF Patterns, ContextTerms, BuiltIn, Moderation, FindIf, Find, Finding, Tiers, Text, Severity

LEMMA DecisionTypes ==
    ASSUME NEW x \in Text, NEW findings, NEW m \in AllModes
    PROVE  DecideText(findings, x, m) \in Decision
  BY DEF DecideText, Decide, Decision, Redacted, AllModes, Text

-----------------------------------------------------------------------------
\* Each action of a thread.
LEMMA KeepsScan ==
    ASSUME LockInv, NEW t \in Threads, NEW x \in Texts, NEW m \in Modes, Scan(t, x, m)
    PROVE  LockInv'
  <1>1. x \in Text /\ x # None
    BY TextAssumption
  <1>2. Types'
    BY <1>1, FindingTypes DEF LockInv, Types, Scan, Goto, Add, Pcs
  <1>3. \A u \in Threads \ {t} : Known(u)'
    BY KnownKept DEF LockInv, Types, Scan, Goto, Add
  <1>4. Known(t)'
    BY <1>1 DEF LockInv, Types, Scan, Goto, Add, Known
  <1> QED
    BY <1>2, <1>3, <1>4 DEF LockInv

LEMMA KeepsTerms == ASSUME LockInv, NEW t \in Threads, Terms(t) PROVE LockInv'
  <1>1. text[t] \in Text
    BY TextAssumption DEF LockInv, Types, Terms, Goto
  <1>2. Types'
    BY <1>1, FindingTypes DEF LockInv, Types, Terms, Goto, Add, Pcs
  <1>3. \A u \in Threads \ {t} : Known(u)'
    BY KnownKept DEF LockInv, Types, Terms, Goto, Add
  <1>4. Known(t)'
    BY DEF LockInv, Types, Terms, Goto, Add, Known
  <1> QED
    BY <1>2, <1>3, <1>4 DEF LockInv
LEMMA KeepsReadHook == ASSUME LockInv, NEW t \in Threads, ReadHook(t) PROVE LockInv'
  <1>2. Types'
    BY DEF LockInv, Types, ReadHook, Goto, Pcs
  <1>3. \A u \in Threads \ {t} : Known(u)'
    BY KnownKept DEF LockInv, Types, ReadHook, Goto
  <1>4. Known(t)'
    BY DEF LockInv, Types, ReadHook, Goto, Known, Usable
  <1> QED
    BY <1>2, <1>3, <1>4 DEF LockInv

LEMMA KeepsReadError == ASSUME LockInv, NEW t \in Threads, ReadError(t) PROVE LockInv'
  <1>2. Types'
    BY DEF LockInv, Types, ReadError, Goto, Pcs
  <1>3. \A u \in Threads \ {t} : Known(u)'
    BY KnownKept DEF LockInv, Types, ReadError, Goto
  <1>4. Known(t)'
    BY DEF LockInv, Types, ReadError, Goto, Known, Usable
  <1> QED
    BY <1>2, <1>3, <1>4 DEF LockInv

LEMMA KeepsUseHook == ASSUME LockInv, NEW t \in Threads, UseHook(t) PROVE LockInv'
  <1>1. text[t] \in Text
    BY TextAssumption DEF LockInv, Types, UseHook, Goto
  <1>2. Types'
    BY <1>1, FindingTypes DEF LockInv, Types, UseHook, Goto, Add, Pcs
  <1>3. \A u \in Threads \ {t} : Known(u)'
    BY KnownKept DEF LockInv, Types, UseHook, Goto, Add
  <1>4. Known(t)'
    BY DEF LockInv, Types, UseHook, Goto, Add, Known, Usable
  <1> QED
    BY <1>2, <1>3, <1>4 DEF LockInv

LEMMA KeepsUseDefault == ASSUME LockInv, NEW t \in Threads, UseDefault(t) PROVE LockInv'
  <1>1. text[t] \in Text
    BY TextAssumption DEF LockInv, Types, UseDefault, Goto
  <1>2. Types'
    BY <1>1, FindingTypes DEF LockInv, Types, UseDefault, Goto, Add, Pcs
  <1>3. \A u \in Threads \ {t} : Known(u)'
    BY KnownKept DEF LockInv, Types, UseDefault, Goto, Add
  <1>4. Known(t)'
    BY DEF LockInv, Types, UseDefault, Goto, Add, Known, Usable
  <1> QED
    BY <1>2, <1>3, <1>4 DEF LockInv

LEMMA KeepsRequired == ASSUME LockInv, NEW t \in Threads, Required(t) PROVE LockInv'
  <1>1. text[t] \in Text
    BY TextAssumption DEF LockInv, Types, Required, Goto
  <1>2. Types'
    BY <1>1, FindingTypes DEF LockInv, Types, Required, Goto, Add, Pcs
  <1>3. \A u \in Threads \ {t} : Known(u)'
    BY KnownKept DEF LockInv, Types, Required, Goto, Add
  <1>4. Known(t)'
    BY DEF LockInv, Types, Required, Goto, Add, Known, Usable
  <1> QED
    BY <1>2, <1>3, <1>4 DEF LockInv

LEMMA KeepsReturn == ASSUME LockInv, NEW t \in Threads, Return(t) PROVE LockInv'
  <1>2. Types'
    BY DEF LockInv, Types, Return, Goto, Pcs
  <1>3. \A u \in Threads \ {t} : Known(u)'
    BY KnownKept DEF LockInv, Types, Return, Goto
  <1>4. Known(t)'
    BY DEF LockInv, Types, Return, Goto, Known, Usable
  <1> QED
    BY <1>2, <1>3, <1>4 DEF LockInv

LEMMA KeepsModerate ==
    ASSUME LockInv, NEW t \in Threads, NEW r \in Rulesets, Moderate(t, r)
    PROVE  LockInv'
  <1>1. text[t] \in Text /\ mode[t] \in AllModes /\ r \in Rules \cup {None}
    BY TextAssumption, RulesAssumption DEF LockInv, Types, Moderate, Goto
  <1>2. Types'
    BY <1>1, FindingTypes, DecisionTypes DEF LockInv, Types, Moderate, Goto, Add, Pcs
  <1>3. \A u \in Threads \ {t} : Known(u)'
    BY KnownKept DEF LockInv, Types, Moderate, Goto, Add
  <1>4. Known(t)'
    BY DEF LockInv, Types, Moderate, Goto, Add, Known, Usable
  <1> QED
    BY <1>2, <1>3, <1>4 DEF LockInv

-----------------------------------------------------------------------------
LEMMA LockInvInit == Init => LockInv
  BY DEF Init, LockInv, Types, Known, Pcs, Finding

LEMMA LockInvNext == LockInv /\ [Next]_vars => LockInv'
  <1> SUFFICES ASSUME LockInv, [Next]_vars PROVE LockInv'
    OBVIOUS
  <1>1. CASE UNCHANGED lock
    BY <1>1, NoThreadMoved
  <1>2. ASSUME NEW t \in Threads, LockStep(t) PROVE LockInv'
    <2>1. CASE \E x \in Texts, m \in Modes : Scan(t, x, m)
      BY <2>1, KeepsScan
    <2>2. CASE \E r \in Rulesets : Moderate(t, r)
      BY <2>2, KeepsModerate
    <2>3. CASE Terms(t) \/ ReadHook(t) \/ ReadError(t) \/ Return(t)
      BY <2>3, KeepsTerms, KeepsReadHook, KeepsReadError, KeepsReturn
    <2>4. CASE UseHook(t) \/ UseDefault(t) \/ Required(t)
      BY <2>4, KeepsUseHook, KeepsUseDefault, KeepsRequired
    <2> QED
      BY <1>2, <2>1, <2>2, <2>3, <2>4 DEF LockStep
  <1> QED
    BY <1>1, <1>2 DEF Next, Step, vars

\* An answer that passes has come past every tier.
LEMMA PassesClean ==
    ASSUME LockInv, NEW t \in Threads, Passes(t)
    PROVE  /\ found[t] = {} \/ (mode[t] = "standard" /\ \A f \in found[t] : f.severity # "high")
           /\ mode[t] = "strict" => decision[t].action = "allow"
  <1>1. decision[t] = DecideText(found[t], text[t], mode[t]) /\ mode[t] \in {"standard", "strict"}
    BY DEF LockInv, Known, Passes, Enforced
  <1>2. CASE found[t] = {}
    BY <1>1, <1>2 DEF DecideText, Decide
  <1>3. CASE found[t] # {}
    <2>1. decision[t].action # "refuse"
      BY DEF Passes
    <2>2. decision[t] = IF mode[t] = "strict" \/ \E f \in found[t] : f.severity = "high"
                        THEN Decide("refuse", None) ELSE Decide("minimise", Redacted(text[t]))
      BY <1>1, <1>3 DEF DecideText
    <2>3. ~(mode[t] = "strict" \/ \E f \in found[t] : f.severity = "high")
      BY <2>1, <2>2 DEF Decide
    <2> QED
      BY <1>1, <2>3
  <1> QED
    BY <1>2, <1>3

LEMMA InvFloorHolds == LockInv => FloorHolds
  <1> SUFFICES ASSUME LockInv, NEW t \in Threads, Passes(t)
               PROVE  /\ ~text[t].pattern /\ ~text[t].hidden /\ ~text[t].term
                      /\ (IF Usable(t) THEN text[t].meaning ELSE text[t].kind) # "high"
                      /\ mode[t] = "strict" => decision[t].action = "allow"
    BY DEF FloorHolds
  <1>1. text[t] \in Text /\ pc[t] = "answered"
    BY TextAssumption DEF LockInv, Types, Passes, Enforced
  <1>2. \A f \in found[t] : f.severity # "high"
    BY PassesClean
  <1>3. /\ Patterns(text[t]) \subseteq found[t] /\ ContextTerms(text[t]) \subseteq found[t]
        /\ IF Usable(t) THEN Find("host", text[t].meaning) \subseteq found[t]
                        ELSE BuiltIn(text[t]) \subseteq found[t]
    BY <1>1 DEF LockInv, Known
  <1>4. ~text[t].pattern /\ ~text[t].hidden /\ ~text[t].term
    BY <1>1, <1>2, <1>3 DEF Patterns, ContextTerms, FindIf, Find, Text
  <1>5. (IF Usable(t) THEN text[t].meaning ELSE text[t].kind) # "high"
    BY <1>1, <1>2, <1>3 DEF BuiltIn, Find, Text
  <1> QED
    BY <1>4, <1>5, PassesClean

\* Rules that are broken or cannot be enforced leave a finding, but for the pattern
\* that overflows.
LEMMA RulesFound ==
    ASSUME NEW r \in Rules, ~Enforceable(r) \/ Broken(r),
           ~(r.patterns = "overflows" /\ ~r.categories)
    PROVE  Moderated(r) # {}
  BY DEF Rules, TermRules, PatternRules, Backends, Enforceable, Broken, Moderated, TierRaises,
         RequiresBackend, OfList, OfCategories

LEMMA InvRulesHold == LockInv => RulesHold
  <1> SUFFICES ASSUME LockInv, NEW t \in Threads, Passes(t), rules[t] # None,
                      ~(rules[t].patterns = "overflows" /\ ~rules[t].categories)
               PROVE  Enforceable(rules[t]) /\ ~Broken(rules[t])
    BY DEF RulesHold
  <1>1. rules[t] \in Rules /\ Moderation(rules[t]) \subseteq found[t]
    BY RulesAssumption DEF LockInv, Known, Passes, Enforced
  <1>2. \A f \in found[t] : f.severity # "high"
    BY PassesClean
  <1>3. Moderated(rules[t]) = {}
    BY <1>1, <1>2 DEF Moderation, FindIf, Find
  <1> QED
    BY <1>1, <1>3, RulesFound

\* No tier that is certain is overruled, in any interleaving of threads with the
\* host's wiring: what each thread has read of the registry decides which tier's
\* certainty it is.
THEOREM FloorAlwaysHolds == Spec => []FloorHolds
  <1>1. Spec => []LockInv
    BY LockInvInit, LockInvNext, PTL DEF Spec
  <1> QED
    BY <1>1, InvFloorHolds, PTL

\* No moderation rule that is broken or cannot be enforced is passed over, whatever
\* the rules are, but for a pattern that overflows where no category is declared.
THEOREM RulesAlwaysHold == Spec => []RulesHold
  <1>1. Spec => []LockInv
    BY LockInvInit, LockInvNext, PTL DEF Spec
  <1> QED
    BY <1>1, InvRulesHold, PTL

-----------------------------------------------------------------------------
(* The first thread wires before the others go on. *)

\* Where the promise of a real backend is to be seen: in the hook, in the error of a
\* provider that failed, in a provider still to be run, or in the part of one that is
\* running which has not been filled in.
PromiseKept ==
    promised =>
        \/ Promises(hooks["requires"])
        \/ error
        \/ provider # None /\ ~wired /\ Promises(provider.hooks["requires"])
        \/ \E t \in Threads : /\ wpc[t] = "run" /\ "requires" \in left[t]
                             /\ Promises(runs[t].hooks["requires"])

Wired ==
    /\ DOMAIN hooks = Hooks
    /\ wpc \in [Threads -> Steps]
    /\ runs = [t \in Threads |-> runs[t]]
    /\ left = [t \in Threads |-> left[t]]
    /\ pc \in [Threads -> Pcs]
    /\ found = [t \in Threads |-> found[t]]
    /\ semantic = [t \in Threads |-> semantic[t]]
    /\ broken = [t \in Threads |-> broken[t]]

\* One thread at a time is in ensure_wired, and nobody is past it while the hooks are
\* not wired or about to change.
OneWires ==
    /\ \A t, u \in Threads : t # u => Out(t) \/ Out(u)
    /\ \A t \in Threads :
          /\ pc[t] \notin {"scanned", "hook"} => Out(t)
          /\ (pc[t] \notin {"idle", "scanned"} /\ Out(t)) => wired
          /\ wpc[t] = "set" => ~wired
          /\ wpc[t] = "run" => wired

PastReads == {"semantic", "required", "moderate", "answered"}

\* What a thread has read still holds, and if a promise is not kept it has said so.
Sees(t) ==
    /\ pc[t] \in PastReads \cup {"error"} => \A u \in Threads : wpc[u] \notin {"set", "run"}
    /\ pc[t] \in PastReads => broken[t] = error
    /\ (pc[t] \in {"moderate", "answered"} /\ ~Usable(t) /\ promised) =>
          FindIf("unavailable", TRUE) \subseteq found[t]

WiredInv == Wired /\ PromiseKept /\ OneWires /\ \A t \in Threads : Sees(t)

LEMMA WiredInit == Init => WiredInv
  BY DEF Init, DepsInit, WiredInv, Wired, PromiseKept, OneWires, Sees, Out, Promises, Unwired,
         Hooks, Steps, Pcs, PastReads

\* A step of lock_text proper: of the registry it only reads.
LEMMA LockKeepsPromise ==
    ASSUME Wired, PromiseKept, OneWires, NEW t \in Threads, LockStep(t)
    PROVE  PromiseKept' /\ UNCHANGED <<registry, runs, left, promised>>
  <1>1. UNCHANGED <<registry, runs, left, promised>>
    BY DEF LockStep, Scan, Terms, ReadHook, ReadError, UseHook, UseDefault, Required, Moderate,
           Return, depVars, wiring
  <1>2. \/ UNCHANGED wpc
        \/ wpc[t] = "out" /\ wpc' = [wpc EXCEPT ![t] = "check"]
    <2>1. ASSUME NEW x \in Texts, NEW m \in Modes, Scan(t, x, m)
          PROVE  UNCHANGED wpc \/ (wpc[t] = "out" /\ wpc' = [wpc EXCEPT ![t] = "check"])
      BY <2>1 DEF Scan, Goto, Enter, OneWires, Out
    <2>2. CASE Terms(t)
      BY <2>2 DEF Terms, Enter, Out
    <2>3. CASE UNCHANGED depVars
      BY <2>3 DEF depVars, wiring
    <2> QED
      BY <2>1, <2>2, <2>3 DEF LockStep, ReadHook, ReadError, UseHook, UseDefault, Required,
                              Moderate, Return
  <1>3. \A u \in Threads : wpc[u] = "run" => wpc'[u] = "run"
    BY <1>2 DEF Wired
  <1> QED
    BY <1>1, <1>3 DEF PromiseKept, registry

LEMMA ScanWires ==
    ASSUME WiredInv, NEW t \in Threads, NEW x \in Texts, NEW m \in Modes, Scan(t, x, m),
           \A u \in Threads \ {t} : Out(u)
    PROVE  Wired' /\ OneWires' /\ \A u \in Threads : Sees(u)'
  <1> USE DEF WiredInv, Wired, OneWires, Scan, Goto, Add, Enter, Out, Pcs, Steps, registry
  <1>1. Wired' /\ OneWires'
    <2>1. CASE Patterns(x) = {}
      BY <2>1
    <2>2. CASE Patterns(x) # {}
      <3>1. Wired'
        BY <2>2
      <3>2. wpc' = [wpc EXCEPT ![t] = "check"] /\ pc' = [pc EXCEPT ![t] = "scanned"]
        BY <2>2
      <3>3. UNCHANGED wired
        OBVIOUS
      <3> QED
        BY <3>1, <3>2, <3>3
    <2> QED
      BY <2>1, <2>2
  <1>2. \A u \in Threads : Sees(u)'
    BY DEF Sees, Usable, PastReads
  <1> QED
    BY <1>1, <1>2

LEMMA TermsWires ==
    ASSUME WiredInv, NEW t \in Threads, Terms(t), \A u \in Threads \ {t} : Out(u)
    PROVE  Wired' /\ OneWires' /\ \A u \in Threads : Sees(u)'
  <1> USE DEF WiredInv, Wired, OneWires, Terms, Goto, Add, Enter, Out, Pcs, Steps, registry
  <1>1. Wired' /\ OneWires'
    OBVIOUS
  <1>2. \A u \in Threads : Sees(u)'
    BY DEF Sees, Usable, PastReads
  <1> QED
    BY <1>1, <1>2

\* The reads find all other threads out of ensure_wired, and the hooks wired.
LEMMA ReadsWire ==
    ASSUME WiredInv, NEW t \in Threads, ReadHook(t) \/ ReadError(t),
           \A u \in Threads \ {t} : Out(u)
    PROVE  Wired' /\ OneWires' /\ \A u \in Threads : Sees(u)'
  <1> USE DEF WiredInv, Wired, OneWires, Goto, Out, Pcs, Steps, registry, wiring, depVars
  <1>1. CASE ReadHook(t)
    <2>1. Wired' /\ OneWires'
      BY <1>1 DEF ReadHook
    <2>2. \A u \in Threads : Sees(u)'
      BY <1>1 DEF ReadHook, Sees, Usable, PastReads
    <2> QED
      BY <2>1, <2>2
  <1>2. CASE ReadError(t)
    <2>1. Wired' /\ OneWires'
      BY <1>2 DEF ReadError
    <2>2. \A u \in Threads : Sees(u)'
      BY <1>2 DEF ReadError, Sees, Usable, PastReads
    <2> QED
      BY <2>1, <2>2
  <1> QED
    BY <1>1, <1>2

\* Required is asked while the promise, if there is one, is in the hook or the error.
LEMMA RequiredWires ==
    ASSUME WiredInv, NEW t \in Threads, Required(t), \A u \in Threads \ {t} : Out(u)
    PROVE  Wired' /\ OneWires' /\ \A u \in Threads : Sees(u)'
  <1> USE DEF WiredInv, Wired, OneWires, Goto, Out, Pcs, Steps, registry, wiring, depVars,
              Required, Add
  <1>1. Wired' /\ OneWires'
    OBVIOUS
  <1>2. promised => Promises(hooks["requires"]) \/ broken[t]
    <2>1. \A u \in Threads : wpc[u] = "out"
      OBVIOUS
    <2>2. wired
      OBVIOUS
    <2>3. broken[t] = error
      BY DEF Sees, PastReads
    <2> QED
      BY <2>1, <2>2, <2>3 DEF PromiseKept
  <1>3. Sees(t)'
    BY <1>2 DEF Sees, Usable, PastReads
  <1>4. \A u \in Threads \ {t} : Sees(u)'
    BY DEF Sees, Usable, PastReads
  <1> QED
    BY <1>1, <1>3, <1>4

LEMMA RestWires ==
    ASSUME WiredInv, NEW t \in Threads, \A u \in Threads \ {t} : Out(u),
           UseHook(t) \/ UseDefault(t) \/ (\E r \in Rulesets : Moderate(t, r)) \/ Return(t)
    PROVE  Wired' /\ OneWires' /\ \A u \in Threads : Sees(u)'
  <1> USE DEF WiredInv, Wired, OneWires, Goto, Out, Pcs, Steps, registry, wiring, depVars, Add
  <1>1. CASE UseHook(t)
    BY <1>1 DEF UseHook, Sees, Usable, PastReads
  <1>2. CASE UseDefault(t)
    BY <1>2 DEF UseDefault, Sees, Usable, PastReads
  <1>3. CASE \E r \in Rulesets : Moderate(t, r)
    <2>1. /\ pc[t] = "moderate" /\ pc' = [pc EXCEPT ![t] = "answered"]
          /\ UNCHANGED <<depVars, semantic, broken>>
      BY <1>3 DEF Moderate
    <2>2. /\ found' = [u \in Threads |-> found'[u]]
          /\ \A u \in Threads : found[u] \subseteq found'[u]
      <3>1. PICK r \in Rulesets : found' = [found EXCEPT ![t] = @ \cup Moderation(r)]
        BY <1>3 DEF Moderate
      <3> HIDE DEF WiredInv, Wired
      <3>2. found = [u \in Threads |-> found[u]]
        BY DEF WiredInv, Wired
      <3> QED
        BY <3>1, <3>2
    <2>3. Wired' /\ OneWires'
      BY <2>1, <2>2
    <2>4. ASSUME NEW u \in Threads PROVE Sees(u)'
      <3>1. UNCHANGED <<wpc, error, promised, semantic, broken>>
        BY <2>1
      <3>2. pc[u] = pc'[u] \/ pc[u] = "moderate"
        BY <2>1
      <3> QED
        BY <2>2, <3>1, <3>2 DEF Sees, Usable, PastReads
    <2> QED
      BY <2>3, <2>4
  <1>4. CASE Return(t)
    BY <1>4 DEF Return, Sees, Usable, PastReads
  <1> QED
    BY <1>1, <1>2, <1>3, <1>4

\* ensure_wired: while a thread is in it, no other is past its reads.
LEMMA EnsureWires ==
    ASSUME WiredInv, NEW t \in Threads, EnsureStep(t), UNCHANGED lock,
           \A u \in Threads \ {t} : Out(u)
    PROVE  WiredInv'
  <1> USE DEF WiredInv, Wired, OneWires, Out, Pcs, Steps, registry, wiring, lock
  <1>1. CASE EnsureCheck(t)
    <2>1. PromiseKept'
      BY <1>1 DEF EnsureCheck, PromiseKept
    <2>2. Wired' /\ OneWires'
      BY <1>1 DEF EnsureCheck
    <2>3. ASSUME NEW u \in Threads PROVE Sees(u)'
      BY <1>1 DEF EnsureCheck, Sees, Usable, PastReads
    <2> QED
      BY <2>1, <2>2, <2>3
  <1>2. CASE EnsureSet(t)
    <2>1. PromiseKept'
      <3>1. provider # None /\ Promises(provider.hooks["requires"]) =>
                /\ wpc'[t] = "run" /\ "requires" \in left'[t]
                /\ runs'[t] = provider
        BY <1>2, NoneAssumption DEF EnsureSet, Promises, Hooks, Requires
      <3>2. \A u \in Threads : wpc[u] # "run"
        BY <1>2 DEF EnsureSet
      <3>3. UNCHANGED <<hooks, error, promised>>
        BY <1>2 DEF EnsureSet
      <3> QED
        BY <3>1, <3>2, <3>3 DEF PromiseKept
    <2> QED
      BY <1>2, <2>1 DEF EnsureSet, Sees, Usable, PastReads
  <1>3. CASE ProviderFills(t)
    <2>1. PromiseKept'
      <3>1. PICK some \in SUBSET left[t] :
                /\ hooks' = [h \in Hooks |-> IF h \in some THEN runs[t].hooks[h] ELSE hooks[h]]
                /\ left' = [left EXCEPT ![t] = @ \ some]
                /\ promised' = IF "requires" \in some THEN Promises(hooks'["requires"]) ELSE promised
        BY <1>3 DEF ProviderFills
      <3>2. UNCHANGED <<provider, wired, error, wpc, runs>>
        BY <1>3 DEF ProviderFills
      <3>3. CASE "requires" \in some
        BY <3>1, <3>3 DEF PromiseKept
      <3>4. CASE "requires" \notin some
        <4>1. hooks'["requires"] = hooks["requires"]
          BY <3>1, <3>4 DEF Hooks
        <4>2. \A u \in Threads : "requires" \in left[u] => "requires" \in left'[u]
          BY <3>1, <3>4
        <4>3. promised' = promised
          BY <3>1, <3>4
        <4> QED
          BY <3>2, <4>1, <4>2, <4>3 DEF PromiseKept
      <3> QED
        BY <3>3, <3>4
    <2> QED
      BY <1>3, <2>1 DEF ProviderFills, Sees, Usable, PastReads
  <1>4. CASE ProviderReturns(t)
    <2>1. PromiseKept'
      BY <1>4 DEF ProviderReturns, Leave, PromiseKept
    <2> QED
      BY <1>4, <2>1 DEF ProviderReturns, Leave, Sees, Usable, PastReads
  <1>5. CASE ProviderRaises(t)
    <2>1. PromiseKept'
      BY <1>5 DEF ProviderRaises, PromiseKept
    <2> QED
      BY <1>5, <2>1 DEF ProviderRaises, Leave, Sees, Usable, PastReads
  <1> QED
    BY <1>1, <1>2, <1>3, <1>4, <1>5 DEF EnsureStep

LEMMA HostWires ==
    ASSUME WiredInv, HostStep, Idle, UNCHANGED lock
    PROVE  WiredInv'
  <1>1. \A t \in Threads : wpc[t] = "out"
    BY DEF WiredInv, OneWires, Out, Idle
  <1> USE DEF WiredInv, Wired, OneWires, Out, wiring, lock, Idle, Hooks
  <1>2. UNCHANGED wiring
    BY DEF HostStep, SetProvider, Register, Clear
  <1>3. DOMAIN hooks' = Hooks
    BY DEF HostStep, SetProvider, Register, Clear, Unwired
  <1>4. PromiseKept'
    <2>1. CASE \E p \in Provider \cup {None} : SetProvider(p)
      BY <2>1 DEF SetProvider, PromiseKept
    <2>2. CASE \E does \in Semantic \cup {None} : Register("semantic", does)
      BY <1>1, <2>2 DEF Register, PromiseKept
    <2>3. CASE \E does \in Requires \cup {None} : Register("requires", does)
      <3>1. PICK does : Register("requires", does)
        BY <2>3
      <3>2. hooks'["requires"] = does
        BY <3>1 DEF Register
      <3>3. promised' => \/ Promises(does)
                         \/ provider # None /\ ~wired /\ Promises(provider.hooks["requires"])
        BY <3>1 DEF Register
      <3>4. UNCHANGED <<provider, wired>>
        BY <3>1 DEF Register
      <3> QED
        BY <3>2, <3>3, <3>4 DEF PromiseKept
    <2>4. CASE Clear
      BY <2>4 DEF Clear, PromiseKept
    <2> QED
      BY <2>1, <2>2, <2>3, <2>4 DEF HostStep
  <1>5. OneWires' /\ \A t \in Threads : Sees(t)'
    BY <1>1, <1>2 DEF Sees, PastReads
  <1> QED
    BY <1>2, <1>3, <1>4, <1>5

LEMMA WiredNext == WiredInv /\ [WiredFirstNext]_vars => WiredInv'
  <1> SUFFICES ASSUME WiredInv, [WiredFirstNext]_vars PROVE WiredInv'
    OBVIOUS
  <1>1. ASSUME NEW t \in Threads, LockStep(t), \A u \in Threads \ {t} : Out(u) PROVE WiredInv'
    <2>1. PromiseKept'
      BY <1>1, LockKeepsPromise DEF WiredInv
    <2>2. Wired' /\ OneWires' /\ \A u \in Threads : Sees(u)'
      BY <1>1, ScanWires, TermsWires, ReadsWire, RequiredWires, RestWires DEF LockStep
    <2> QED
      BY <2>1, <2>2 DEF WiredInv
  <1>2. CASE UNCHANGED vars
    BY <1>2 DEF vars, depVars, registry, wiring, lock, WiredInv, Wired, PromiseKept, OneWires,
                Sees, Usable, Out
  <1> QED
    BY <1>1, <1>2, EnsureWires, HostWires DEF WiredFirstNext, Step

LEMMA WiredFirstIsNext == [WiredFirstNext]_vars => [Next]_vars
  BY DEF WiredFirstNext, Next

\* Where the host lets one thread through ensure_wired before the others go on, no text
\* passes unseen by the real backend it was promised, however the provider fails and for
\* any number of threads, texts and rules. (The run of race shows why it has to.)
THEOREM WiredFailsClosed == WiredFirstSpec => []FailClosed
  <1>1. LockInv /\ WiredInv => FailClosed
    <2> SUFFICES ASSUME LockInv, WiredInv, NEW t \in Threads, Passes(t), promised, ~Usable(t)
                 PROVE  FALSE
      BY DEF FailClosed
    <2>1. FindIf("unavailable", TRUE) \subseteq found[t]
      BY DEF WiredInv, Sees, Passes, Enforced
    <2> QED
      BY <2>1, PassesClean DEF FindIf, Find
  <1>2. Init => LockInv /\ WiredInv
    BY LockInvInit, WiredInit
  <1>3. LockInv /\ WiredInv /\ [WiredFirstNext]_vars => LockInv' /\ WiredInv'
    BY LockInvNext, WiredNext, WiredFirstIsNext
  <1> QED
    BY <1>1, <1>2, <1>3, PTL DEF WiredFirstSpec
-----------------------------------------------------------------------------
(* Types, and what a thread and the registry know of each other. *)

\* A provider is run by threads that found the host unwired, and none of them is left
\* when the host wires it anew: so an error is one of the wiring in force.
RegistryInv ==
    /\ DepsTypeOK
    /\ \A t \in Threads :
          /\ wpc[t] = "run" => wired
          /\ pc[t] \notin {"scanned", "hook"} => Out(t)

\* What a call keeps it has from its own steps, and its end forgets.
CallsInv ==
    /\ semantic \in [Threads -> Semantic \cup {None}]
    /\ broken \in [Threads -> BOOLEAN]
    /\ \A t \in Threads :
          /\ pc[t] = "idle" <=> text[t] = None
          /\ decision[t] # None <=> pc[t] = "answered"
          /\ pc[t] = "idle" => found[t] = {} /\ semantic[t] = None /\ ~broken[t]
          /\ rules[t] # None => pc[t] = "answered"

LEMMA TypedInit == Init => RegistryInv /\ CallsInv
  <1> SUFFICES ASSUME Init PROVE RegistryInv /\ CallsInv
    OBVIOUS
  <1>1. RegistryInv
    BY DEF Init, DepsInit, RegistryInv, DepsTypeOK, Wiring, Unwired, Steps, Out
  <1>2. CallsInv
    BY DEF Init, CallsInv
  <1> QED
    BY <1>1, <1>2

\* A step of lock_text enters ensure_wired or leaves it alone, and goes on past the
\* reads of the registry once it is out.
LEMMA LockRegistry ==
    ASSUME Types, RegistryInv, NEW t \in Threads, LockStep(t)
    PROVE  RegistryInv'
  <1>1. /\ UNCHANGED <<registry, runs, left, promised>>
        /\ pc' = [pc EXCEPT ![t] = pc'[t]]
        /\ \/ UNCHANGED wpc
           \/ wpc[t] = "out" /\ wpc' = [wpc EXCEPT ![t] = "check"]
                  /\ pc'[t] \in {"scanned", "hook"}
        /\ pc'[t] \notin {"scanned", "hook"} => wpc[t] = "out"
    <2> USE DEF Types, RegistryInv, Goto, Enter, Out, depVars, wiring
    <2>1. CASE \E x \in Texts, m \in Modes : Scan(t, x, m)
      BY <2>1 DEF Scan
    <2>2. CASE Terms(t)
      BY <2>2 DEF Terms
    <2>3. CASE ReadHook(t) \/ ReadError(t) \/ UseHook(t) \/ UseDefault(t) \/ Required(t)
      BY <2>3 DEF ReadHook, ReadError, UseHook, UseDefault, Required
    <2>4. CASE (\E r \in Rulesets : Moderate(t, r)) \/ Return(t)
      BY <2>4 DEF Moderate, Return
    <2> QED
      BY <2>1, <2>2, <2>3, <2>4 DEF LockStep
  <1>2. \A u \in Threads \ {t} : pc'[u] = pc[u] /\ wpc'[u] = wpc[u]
    BY <1>1 DEF Types, RegistryInv, DepsTypeOK
  <1>3. wpc' \in [Threads -> Steps] /\ \A u \in Threads : wpc'[u] = "run" <=> wpc[u] = "run"
    BY <1>1 DEF RegistryInv, DepsTypeOK, Steps
  <1>4. DepsTypeOK'
    BY <1>1, <1>3 DEF RegistryInv, DepsTypeOK, registry
  <1>5. \A u \in Threads : pc'[u] \notin {"scanned", "hook"} => Out(u)'
    BY <1>1, <1>2 DEF RegistryInv, Out
  <1> QED
    BY <1>1, <1>3, <1>4, <1>5 DEF RegistryInv, registry

LEMMA EnsureRegistry ==
    ASSUME RegistryInv, NEW t \in Threads, EnsureStep(t), UNCHANGED lock
    PROVE  RegistryInv'
  <1> USE DEF RegistryInv, DepsTypeOK, Out, Steps, registry, lock
  <1>1. CASE EnsureCheck(t)
    BY <1>1 DEF EnsureCheck
  <1>2. CASE EnsureSet(t)
    <2>1. runs' \in [Threads -> Provider \cup {None}] /\ left' \in [Threads -> SUBSET Hooks]
      BY <1>2 DEF EnsureSet
    <2> QED
      BY <1>2, <2>1 DEF EnsureSet
  <1>3. CASE ProviderFills(t)
    <2>1. PICK some \in SUBSET left[t] :
              /\ hooks' = [h \in Hooks |-> IF h \in some THEN runs[t].hooks[h] ELSE hooks[h]]
              /\ left' = [left EXCEPT ![t] = @ \ some]
              /\ promised' = IF "requires" \in some THEN Promises(hooks'["requires"]) ELSE promised
      BY <1>3 DEF ProviderFills
    <2>2. runs[t] \in Provider
      BY <1>3 DEF ProviderFills
    <2>3. runs[t].hooks \in Wiring
      BY <2>2 DEF Provider
    <2>4. hooks' \in Wiring
      BY <2>1, <2>3 DEF Wiring, Hooks
    <2>5. promised' \in BOOLEAN
      <3>1. Promises(hooks'["requires"]) \in BOOLEAN
        BY DEF Promises
      <3>2. CASE "requires" \in some
        BY <2>1, <3>1, <3>2
      <3>3. CASE "requires" \notin some
        BY <2>1, <3>3
      <3> QED
        BY <3>2, <3>3
    <2>6. UNCHANGED <<provider, wired, error, wpc, runs>>
      BY <1>3 DEF ProviderFills
    <2>7. left' \in [Threads -> SUBSET Hooks] /\ \A u \in Threads : left'[u] \subseteq left[u]
      BY <2>1
    <2> QED
      BY <2>4, <2>5, <2>6, <2>7
  <1>4. CASE ProviderReturns(t)
    BY <1>4 DEF ProviderReturns, Leave
  <1>5. CASE ProviderRaises(t)
    <2>1. wired /\ error' = TRUE /\ UNCHANGED <<hooks, provider, wired, promised>>
      BY <1>5 DEF ProviderRaises
    <2>2. /\ wpc' = [wpc EXCEPT ![t] = "out"]
          /\ runs' = [runs EXCEPT ![t] = None]
          /\ left' = [left EXCEPT ![t] = {}]
      BY <1>5 DEF ProviderRaises, Leave
    <2> QED
      BY <2>1, <2>2
  <1> QED
    BY <1>1, <1>2, <1>3, <1>4, <1>5 DEF EnsureStep

LEMMA HostRegistry ==
    ASSUME RegistryInv, HostStep, Idle, UNCHANGED lock
    PROVE  RegistryInv'
  <1>1. \A t \in Threads : wpc[t] = "out"
    BY DEF RegistryInv, Out, Idle
  <1>2. UNCHANGED wiring
    BY DEF HostStep, SetProvider, Register, Clear
  <1>3. /\ hooks' \in Wiring /\ provider' \in Provider \cup {None}
        /\ wired' \in BOOLEAN /\ error' \in BOOLEAN /\ (error' => wired')
    <2> USE DEF RegistryInv, DepsTypeOK
    <2>1. CASE \E p \in Provider \cup {None} : SetProvider(p)
      BY <2>1 DEF SetProvider
    <2>2. CASE \E does \in Semantic \cup {None} : Register("semantic", does)
      BY <2>2 DEF Register, Wiring
    <2>3. CASE \E does \in Requires \cup {None} : Register("requires", does)
      BY <2>3 DEF Register, Wiring
    <2>4. CASE Clear
      BY <2>4 DEF Clear, Wiring, Unwired
    <2> QED
      BY <2>1, <2>2, <2>3, <2>4 DEF HostStep
  <1>4. promised' \in BOOLEAN
    <2> USE DEF RegistryInv, DepsTypeOK
    <2>1. CASE \E p \in Provider \cup {None} : SetProvider(p)
      BY <2>1 DEF SetProvider
    <2>2. CASE \E does \in Semantic \cup {None} : Register("semantic", does)
      BY <2>2 DEF Register
    <2>3. CASE \E does \in Requires \cup {None} : Register("requires", does)
      BY <2>3 DEF Register
    <2>4. CASE Clear
      BY <2>4 DEF Clear
    <2> QED
      BY <2>1, <2>2, <2>3, <2>4 DEF HostStep
  <1> QED
    BY <1>1, <1>2, <1>3, <1>4 DEF RegistryInv, DepsTypeOK, wiring, lock, Out

LEMMA LockCalls ==
    ASSUME Types, RegistryInv, CallsInv, NEW t \in Threads, LockStep(t)
    PROVE  CallsInv'
  <1> USE DEF Types, CallsInv, Goto, Pcs
  <1>1. hooks.semantic \in Semantic \cup {None} /\ error \in BOOLEAN
    BY DEF RegistryInv, DepsTypeOK, Wiring
  <1>2. ASSUME NEW x \in Texts, NEW m \in Modes, Scan(t, x, m) PROVE CallsInv'
    BY <1>2, TextAssumption DEF Scan, Add
  <1>3. CASE Terms(t)
    BY <1>3 DEF Terms, Add
  <1>4. CASE ReadHook(t)
    BY <1>1, <1>4 DEF ReadHook
  <1>5. CASE ReadError(t)
    BY <1>1, <1>5 DEF ReadError
  <1>6. CASE UseHook(t) \/ UseDefault(t) \/ Required(t)
    BY <1>6 DEF UseHook, UseDefault, Required, Add
  <1>7. ASSUME NEW r \in Rulesets, Moderate(t, r) PROVE CallsInv'
    <2>1. DecideText(found'[t], text[t], mode[t]) \in Decision
      BY <1>7, TextAssumption, DecisionTypes DEF Moderate
    <2> QED
      BY <1>7, <2>1, DecisionAssumption DEF Moderate, Add
  <1>8. CASE Return(t)
    BY <1>8 DEF Return
  <1> QED
    BY <1>2, <1>3, <1>4, <1>5, <1>6, <1>7, <1>8 DEF LockStep

LEMMA TypedNext ==
    LockInv /\ RegistryInv /\ CallsInv /\ [Next]_vars => RegistryInv' /\ CallsInv'
  <1> SUFFICES ASSUME LockInv, RegistryInv, CallsInv, [Next]_vars
               PROVE  RegistryInv' /\ CallsInv'
    OBVIOUS
  <1>1. Types
    BY DEF LockInv
  <1>2. ASSUME UNCHANGED lock PROVE CallsInv'
    BY <1>2 DEF lock, CallsInv
  <1>3. ASSUME NEW t \in Threads, LockStep(t) PROVE RegistryInv' /\ CallsInv'
    BY <1>1, <1>3, LockRegistry, LockCalls
  <1>4. CASE UNCHANGED vars
    <2>1. RegistryInv'
      BY <1>4 DEF vars, depVars, registry, wiring, lock, RegistryInv, DepsTypeOK, Out
    <2> QED
      BY <1>2, <1>4, <2>1 DEF vars
  <1> QED
    BY <1>2, <1>3, <1>4, EnsureRegistry, HostRegistry DEF Next, Step

\* Types, and the places where a thread can be in ensure_wired, have read the hook, have
\* rules and an answer: also while threads race to wire the host, an error is recorded
\* only of the wiring in force, and none is left from a call that has returned.
THEOREM TextsAlwaysTyped == Spec => []TypeOK
  <1>1. Init => LockInv /\ RegistryInv /\ CallsInv
    BY LockInvInit, TypedInit
  <1>2. LockInv /\ RegistryInv /\ CallsInv /\ [Next]_vars
            => LockInv' /\ RegistryInv' /\ CallsInv'
    BY LockInvNext, TypedNext
  <1>3. LockInv /\ RegistryInv /\ CallsInv => TypeOK
    BY DEF LockInv, Types, RegistryInv, CallsInv, TypeOK
  <1> QED
    BY <1>1, <1>2, <1>3, PTL DEF Spec
=============================================================================
