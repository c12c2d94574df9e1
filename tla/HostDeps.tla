------------------------------ MODULE HostDeps ------------------------------
(***************************************************************************)
(* Lazy wiring of the host's hooks (loomground_lock/host_deps.py).         *)
(*                                                                         *)
(* The hooks are attributes of one module object, filled by register() or  *)
(* by a provider that the first ensure_wired() runs.  Two hooks are        *)
(* modelled, the ones Tier C is decided by: the semantic check and the     *)
(* predicate that promises a real backend.  A hook is what calling it      *)
(* does.  Any number of threads call ensure_wired(), and the interpreter   *)
(* may switch between any two of their steps.                              *)
(***************************************************************************)
CONSTANTS
    Threads,
    None

Hooks == {"semantic", "requires"}

Semantic == {"answers", "crashes"}          \* "crashes": raises, or returns no list
Requires == {"true", "false", "raises"}

ASSUME NoneAssumption == None \notin Semantic \cup Requires

Wiring   == [semantic : Semantic \cup {None}, requires : Requires \cup {None}]
Unwired  == [semantic |-> None, requires |-> None]
\* The hooks a provider fills, and whether it fails on the way.
Provider == [hooks : Wiring, raises : BOOLEAN]

ASSUME ProviderAssumption == None \notin Provider

VARIABLES
    hooks,      \* what the hook attributes hold
    provider,   \* _provider
    wired,      \* _wired
    error,      \* _wiring_error is set
    wpc,        \* thread -> where its ensure_wired() is; "out": in none
    runs,       \* thread -> the provider it runs, or None
    left,       \* thread -> the hooks that provider has still to fill
    promised    \* history: the host means to have a real backend

registry == <<hooks, provider, wired, error>>
wiring   == <<wpc, runs, left>>
depVars  == <<registry, wiring, promised>>

Steps == {"out", "check", "set", "run"}

DepsTypeOK ==
    /\ hooks \in Wiring
    /\ provider \in Provider \cup {None}
    /\ wired \in BOOLEAN
    /\ error \in BOOLEAN
    /\ wpc \in [Threads -> Steps]
    /\ runs \in [Threads -> Provider \cup {None}]
    /\ left \in [Threads -> SUBSET Hooks]
    /\ promised \in BOOLEAN
    /\ error => wired
    /\ \A t \in Threads : runs[t] # None <=> wpc[t] = "run"
    /\ \A t \in Threads : runs[t] = None => left[t] = {}

DepsInit ==
    /\ hooks = Unwired
    /\ provider = None
    /\ wired = FALSE
    /\ error = FALSE
    /\ wpc = [t \in Threads |-> "out"]
    /\ runs = [t \in Threads |-> None]
    /\ left = [t \in Threads |-> {}]
    /\ promised = FALSE

\* A predicate that raises counts as a promise of a real backend.
Promises(does) == does \in {"true", "raises"}

-----------------------------------------------------------------------------
(* The host *)

\* Mutant of SetProvider: an earlier failure stays recorded.
SetProviderKeepError(p) ==
    /\ provider' = p
    /\ wired' = FALSE
    /\ promised' = (promised \/ (p # None /\ Promises(p.hooks.requires)))
    /\ UNCHANGED <<hooks, error, wiring>>

SetProvider(p) ==
    /\ provider' = p
    /\ wired' = FALSE
    /\ error' = FALSE
    /\ promised' = (Promises(hooks.requires) \/ (p # None /\ Promises(p.hooks.requires)))
    /\ UNCHANGED <<hooks, wiring>>

Register(hook, does) ==
    /\ hooks' = [hooks EXCEPT ![hook] = does]
    /\ promised' = IF hook # "requires" THEN promised
                   ELSE \/ Promises(does)
                        \/ provider # None /\ ~wired /\ Promises(provider.hooks.requires)
    /\ UNCHANGED <<provider, wired, error, wiring>>

Clear ==
    /\ hooks' = Unwired
    /\ provider' = None
    /\ wired' = FALSE
    /\ error' = FALSE
    /\ promised' = FALSE
    /\ UNCHANGED wiring

HostStep ==
    \/ \E p \in Provider \cup {None} : SetProvider(p)
    \/ \E does \in Semantic \cup {None} : Register("semantic", does)
    \/ \E does \in Requires \cup {None} : Register("requires", does)
    \/ Clear

-----------------------------------------------------------------------------
(* ensure_wired *)

\* A caller of ensure_wired() conjoins Enter, and goes on once it is Out.
Enter(t) == wpc' = [wpc EXCEPT ![t] = "check"]
Out(t)   == wpc[t] = "out"

EnsureCheck(t) ==
    /\ wpc[t] = "check"
    /\ wpc' = [wpc EXCEPT ![t] = IF wired THEN "out" ELSE "set"]
    /\ UNCHANGED <<registry, runs, left, promised>>

\* The flag is set before the provider has run.
EnsureSet(t) ==
    /\ wpc[t] = "set"
    /\ wired' = TRUE
    /\ wpc' = [wpc EXCEPT ![t] = IF provider = None THEN "out" ELSE "run"]
    /\ runs' = [runs EXCEPT ![t] = provider]
    /\ left' = [left EXCEPT ![t] =
                  IF provider = None THEN {} ELSE {h \in Hooks : provider.hooks[h] # None}]
    /\ UNCHANGED <<hooks, provider, error, promised>>

\* One register() of the provider's, or one attribute it assigns.
ProviderFills(t) ==
    /\ wpc[t] = "run"
    /\ \E some \in SUBSET left[t] :
          /\ some # {}
          /\ hooks' = [h \in Hooks |-> IF h \in some THEN runs[t].hooks[h] ELSE hooks[h]]
          /\ left' = [left EXCEPT ![t] = @ \ some]
          /\ promised' = IF "requires" \in some THEN Promises(hooks'.requires) ELSE promised
    /\ UNCHANGED <<provider, wired, error, wpc, runs>>

Leave(t) ==
    /\ wpc' = [wpc EXCEPT ![t] = "out"]
    /\ runs' = [runs EXCEPT ![t] = None]
    /\ left' = [left EXCEPT ![t] = {}]

ProviderReturns(t) ==
    /\ wpc[t] = "run"
    /\ left[t] = {}
    /\ ~runs[t].raises
    /\ Leave(t)
    /\ UNCHANGED <<registry, promised>>

\* Mutant of ProviderRaises: the exception is swallowed.
ProviderRaisesUnrecorded(t) ==
    /\ wpc[t] = "run"
    /\ runs[t].raises
    /\ Leave(t)
    /\ UNCHANGED <<registry, promised>>

\* Anywhere on its way.
ProviderRaises(t) ==
    /\ wpc[t] = "run"
    /\ runs[t].raises
    /\ error' = TRUE
    /\ Leave(t)
    /\ UNCHANGED <<hooks, provider, wired, promised>>

EnsureStep(t) ==
    \/ EnsureCheck(t) \/ EnsureSet(t)
    \/ ProviderFills(t) \/ ProviderReturns(t) \/ ProviderRaises(t)

=============================================================================
