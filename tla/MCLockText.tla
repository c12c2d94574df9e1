----------------------------- MODULE MCLockText -----------------------------
(* Small instances of LockText for TLC. *)
EXTENDS LockText, TLC

Clean == [pattern |-> FALSE, hidden |-> FALSE, term |-> FALSE,
          kind |-> "none", meaning |-> "none"]

\* What each tier alone would stop, or let through less sure.
SomeTexts == {Clean,
              [Clean EXCEPT !.kind = "high"],
              [Clean EXCEPT !.kind = "medium", !.meaning = "high"],
              [Clean EXCEPT !.hidden = TRUE],
              [Clean EXCEPT !.term = TRUE]}

Rule(terms, patterns, categories, backend) ==
    [terms |-> terms, patterns |-> patterns, categories |-> categories, backend |-> backend]

\* None, and the ways to be broken or not to be enforceable: a part of the rules
\* that the tier sees to, one that takes the findings of another part with it, with
\* and without categories, and one of the backend's that does.
SomeRules == {None,
              Rule("misses", "invalid", FALSE, "none"),
              Rule("matches", "overflows", TRUE, "clears"),
              Rule("matches", "overflows", FALSE, "none"),
              Rule("misses", "absent", TRUE, "no_flags")}
NoRules == {None}

Symmetry == Permutations(Threads)
=============================================================================
