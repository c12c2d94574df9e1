------------------------------ MODULE Ensemble ------------------------------
(***************************************************************************)
(* The Tier C ensemble of core.py (tier_c_semantic_check): the models of a  *)
(* role are asked one after the other through the host's classifier hook,   *)
(* and only their agreement counts.                                         *)
(***************************************************************************)
EXTENDS Naturals, SequencesExt

CONSTANTS
    Models,         \* names of models
    Ensembles,      \* tuples of names a caller or a host may configure
    Default,        \* ENSEMBLE_MODELS_DEFAULT
    Nobody          \* no vote, no verdict

Labels  == {"pii_yes", "pii_no", "insufficient"}
\* A hook that raises, or returns no dictionary or one that is not ok, is unavailable.
Answers == Labels \cup {"unavailable"}

ASSUME EnsemblesAssumption ==
    /\ Ensembles \subseteq Seq(Models) \ {<<>>}
    /\ Default \in Ensembles
ASSUME NobodyAssumption == Nobody \notin Labels

VARIABLES
    epc,            \* the check's step
    models,         \* the tuple it asks
    votes,          \* per_model
    unavailable,    \* any_unavailable
    verdict,        \* the label returned, Nobody for None
    given           \* history: the answers, one for each question

ensVars == <<epc, models, votes, unavailable, verdict, given>>

EnsembleTypeOK ==
    /\ epc \in {"idle", "asking", "done"}
    /\ models \in Ensembles \cup {<<>>}
    /\ votes \in [Models -> Labels \cup {Nobody}]
    /\ \A m \in Models : votes[m] # Nobody <=> \E n \in DOMAIN given : models[n] = m
    /\ unavailable = (\E n \in DOMAIN given : given[n] = "unavailable")
    /\ verdict \in Labels \cup {Nobody}
    /\ given \in Seq(Answers) /\ Len(given) <= Len(models)

Unasked == [m \in Models |-> Nobody]

EnsembleInit ==
    /\ epc = "idle" /\ models = <<>> /\ votes = Unasked
    /\ unavailable = FALSE /\ verdict = Nobody /\ given = <<>>

\* The caller's models, else those of the role, else the default. The tuple is
\* empty where there is none, and the role's also where its hook is missing or
\* raises.
Chosen(explicit, role) ==
    CASE explicit # <<>>                 -> explicit
      [] explicit = <<>> /\ role # <<>>  -> role
      [] explicit = <<>> /\ role = <<>>  -> Default

Check(explicit, role) ==
    /\ epc = "idle"
    /\ epc' = "asking"
    /\ models' = Chosen(explicit, role)
    /\ UNCHANGED <<votes, unavailable, verdict, given>>

\* Without a classifier hook there is no verdict.
CheckUnwired ==
    /\ epc = "idle"
    /\ epc' = "done"
    /\ UNCHANGED <<models, votes, unavailable, verdict, given>>

\* Nothing to read about.
CheckEmpty ==
    /\ epc = "idle"
    /\ epc' = "done"
    /\ verdict' = "pii_no"
    /\ UNCHANGED <<models, votes, unavailable, given>>

Ask(a) ==
    /\ epc = "asking" /\ Len(given) < Len(models)
    /\ given' = Append(given, a)
    /\ votes' = [votes EXCEPT ![models[Len(given')]] = IF a = "unavailable" THEN "insufficient" ELSE a]
    /\ unavailable' = (unavailable \/ a = "unavailable")
    /\ UNCHANGED <<epc, models, verdict>>

Cast == {votes[m] : m \in Models} \ {Nobody}

\* Mutant of Verdict: the models that do not know are passed over.
VerdictOfTheSure ==
    LET sure == Cast \ {"insufficient"}
    IN  CASE sure = {} /\ unavailable -> Nobody
          [] sure = {"pii_yes"} -> "pii_yes"
          [] sure = {"pii_no"}  -> "pii_no"
          [] OTHER -> "insufficient"

\* per_model has an entry for each name: fewer than were asked if one came twice.
Verdict ==
    CASE unavailable /\ Cast = {"insufficient"} /\ IsInjective(models) -> Nobody
      [] Cast = {"pii_yes"} -> "pii_yes"
      [] Cast = {"pii_no"}  -> "pii_no"
      [] OTHER              -> "insufficient"

Count ==
    /\ epc = "asking" /\ Len(given) = Len(models)
    /\ epc' = "done"
    /\ verdict' = Verdict
    /\ UNCHANGED <<models, votes, unavailable, given>>

\* Mutant of EnsembleReturn: the votes stay for the next text.
EnsembleReturnKeepVotes ==
    /\ epc = "done"
    /\ epc' = "idle" /\ models' = <<>>
    /\ unavailable' = FALSE /\ verdict' = Nobody /\ given' = <<>>
    /\ UNCHANGED votes

EnsembleReturn ==
    /\ epc = "done"
    /\ epc' = "idle" /\ models' = <<>> /\ votes' = Unasked
    /\ unavailable' = FALSE /\ verdict' = Nobody /\ given' = <<>>

EnsembleNext ==
    \/ \E explicit, role \in Ensembles \cup {<<>>} : Check(explicit, role)
    \/ CheckUnwired \/ CheckEmpty
    \/ \E a \in Answers : Ask(a)
    \/ Count
    \/ EnsembleReturn

EnsembleSpec == EnsembleInit /\ [][EnsembleNext]_ensVars

-----------------------------------------------------------------------------
\* The answers that count: of a name that comes twice the last.
LastOfName(n) == \A k \in DOMAIN given : k > n => models[k] # models[n]
Counted == {given[n] : n \in {k \in DOMAIN given : LastOfName(k)}}

\* A label is the agreement of every model that was asked, and agreement is a label:
\* none that was unavailable, unsure or of another mind is passed over, in whichever
\* order they answered. There is no verdict only where a model was unavailable and none
\* knew. (The documentation says: where every model was unavailable. The code returns
\* None also if some were and the others were unsure, which is not claimed here.)
AgreementIsReal ==
    epc = "done" /\ models # <<>> =>
        /\ \A label \in {"pii_yes", "pii_no"} : verdict = label <=> Counted = {label}
        /\ verdict = Nobody =>
              "unavailable" \in Counted /\ Counted \subseteq {"unavailable", "insufficient"}
=============================================================================
