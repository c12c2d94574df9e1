----------------------------- MODULE Moderation -----------------------------
(***************************************************************************)
(* Tier M (tier_m.py): what a call's moderation_rules make of its text, and *)
(* how lock_text takes it. Rules are what becomes of each of their parts.   *)
(***************************************************************************)

\* banned_terms: no list given, matches or not.
TermRules == {"absent", "misses", "matches", "no_list"}

\* banned_patterns; invalid: one does not compile, by the exception the tier
\* expects (re.error), or cannot be searched for; overflows: by another one
\* (re.compile of a repetition beyond its limit raises OverflowError).
PatternRules == TermRules \cup {"invalid", "overflows"}

\* The classifier the categories are for: it cannot be made; does not say whether
\* it is available; is not; raises; answers no dictionary of flags; answers flags
\* that are no list; answers that none, or one, of the categories is there.
Backends == {"none", "unknown", "down", "raises", "malformed", "no_flags", "clears", "flags"}

Rules == [terms : TermRules, patterns : PatternRules, categories : BOOLEAN, backend : Backends]

OfList(outcome) == CASE outcome \in {"no_list", "invalid"} -> {"unavailable"}
                     [] outcome = "matches"                -> {"match"}
                     [] outcome \in {"absent", "misses"}   -> {}

OfCategories(r) == CASE ~r.categories \/ r.backend = "clears"    -> {}
                     [] r.categories /\ r.backend = "flags"      -> {"match"}
                     [] r.categories /\ r.backend \notin {"clears", "flags"} -> {"unavailable"}

\* What no except clause of the tier is for.
TierRaises(r) == r.patterns = "overflows" \/ (r.categories /\ r.backend = "no_flags")

\* Mutant of RequiresBackend: an unavailable tier is one without a backend.
RequiresBackendNone(r) == r.categories /\ r.backend = "none"

\* tier_m_requires_real_backend
RequiresBackend(r) == r.categories

\* An exception of the tier takes all its findings with it; lock_text puts one in
\* their place if a backend is required.
Moderated(r) ==
    IF TierRaises(r) THEN IF RequiresBackend(r) THEN {"unavailable"} ELSE {}
    ELSE OfList(r.terms) \cup OfList(r.patterns) \cup OfCategories(r)

-----------------------------------------------------------------------------
\* For the properties: rules that a text obeys, as far as they could be enforced.
Enforceable(r) ==
    /\ r.terms # "no_list" /\ r.patterns \notin {"no_list", "invalid", "overflows"}
    /\ r.categories => r.backend \in {"clears", "flags"}

Broken(r) == "matches" \in {r.terms, r.patterns} \/ (r.categories /\ r.backend = "flags")
=============================================================================
