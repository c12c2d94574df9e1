--------------------------- MODULE EnsembleProofs ---------------------------
(***************************************************************************)
(* TLAPS proofs about the ensemble: a label is the agreement of all the     *)
(* models, for any number of them, any answers and any order of the names.  *)
(***************************************************************************)
EXTENDS Ensemble, SequenceTheorems, TLAPS

\* The vote _per_model_ has for an answer.
VoteOf(a) == IF a = "unavailable" THEN "insufficient" ELSE a

\* per_model is the last answers of the names asked so far; and a check that is not under
\* way has left nothing for the next.
EnsembleInv ==
    /\ EnsembleTypeOK
    /\ \A n \in DOMAIN given : LastOfName(n) => votes[models[n]] = VoteOf(given[n])
    /\ \A m \in Models : votes[m] # Nobody =>
          \E n \in DOMAIN given : LastOfName(n) /\ models[n] = m
    /\ epc = "idle" => models = <<>> /\ given = <<>>
    /\ epc = "asking" => models # <<>>
    /\ epc = "done" /\ models # <<>> => Len(given) = Len(models) /\ verdict = Verdict

LEMMA NamesAreModels ==
    ASSUME NEW ms \in Ensembles \cup {<<>>}
    PROVE  ms \in Seq(Models)
BY EnsemblesAssumption, EmptySeq

LEMMA ChosenIsEnsemble ==
    ASSUME NEW explicit \in Ensembles \cup {<<>>}, NEW role \in Ensembles \cup {<<>>}
    PROVE  Chosen(explicit, role) \in Ensembles /\ Chosen(explicit, role) # <<>>
<1>1. CASE explicit # <<>>
    BY <1>1, EnsemblesAssumption DEF Chosen
<1>2. CASE explicit = <<>> /\ role # <<>>
    BY <1>2, EnsemblesAssumption DEF Chosen
<1>3. CASE explicit = <<>> /\ role = <<>>
    BY <1>3, EnsemblesAssumption DEF Chosen
<1> QED
    BY <1>1, <1>2, <1>3

-----------------------------------------------------------------------------
LEMMA NothingGiven ==
    ASSUME given = <<>>
    PROVE  given \in Seq(Answers) /\ Len(given) = 0 /\ DOMAIN given = {}
BY EmptySeq

LEMMA EnsembleInitInv == EnsembleInit => EnsembleInv
<1> SUFFICES ASSUME EnsembleInit PROVE EnsembleInv
    OBVIOUS
<1>1. given \in Seq(Answers) /\ Len(given) = 0 /\ DOMAIN given = {} /\ Len(models) = 0
    BY NothingGiven, EmptySeq DEF EnsembleInit
<1>2. \A m \in Models : votes[m] = Nobody
    BY DEF EnsembleInit, Unasked
<1>3. votes \in [Models -> Labels \cup {Nobody}]
    BY DEF EnsembleInit, Unasked
<1>4. unavailable = (\E n \in DOMAIN given : given[n] = "unavailable")
    BY <1>1 DEF EnsembleInit
<1>5. EnsembleTypeOK
    BY <1>1, <1>2, <1>3, <1>4 DEF EnsembleInit, EnsembleTypeOK
<1> QED
    BY <1>1, <1>2, <1>5 DEF EnsembleInit, EnsembleInv

\* A check begins: it has its models and no answers.
LEMMA CheckBegins ==
    ASSUME EnsembleInv, NEW explicit \in Ensembles \cup {<<>>}, NEW role \in Ensembles \cup {<<>>},
           Check(explicit, role)
    PROVE  EnsembleInv'
<1>1. models' \in Ensembles /\ models' # <<>> /\ epc' = "asking"
    BY ChosenIsEnsemble DEF Check
<1>2. /\ UNCHANGED <<votes, unavailable, verdict, given>>
      /\ given \in Seq(Answers) /\ Len(given) = 0 /\ DOMAIN given = {}
    BY NothingGiven DEF Check, EnsembleInv
<1>3. Len(models') \in Nat
    BY <1>1, NamesAreModels, LenProperties
<1>4. EnsembleTypeOK'
    BY <1>1, <1>2, <1>3 DEF EnsembleInv, EnsembleTypeOK
<1> QED
    BY <1>1, <1>2, <1>4 DEF EnsembleInv

LEMMA CheckAtOnce ==
    ASSUME EnsembleInv, CheckUnwired \/ CheckEmpty
    PROVE  EnsembleInv'
<1>1. /\ UNCHANGED <<models, votes, unavailable, given>>
      /\ epc = "idle" /\ epc' = "done" /\ verdict' \in Labels \cup {Nobody}
    BY DEF CheckUnwired, CheckEmpty, EnsembleInv, EnsembleTypeOK, Labels
<1> QED
    BY <1>1 DEF EnsembleInv, EnsembleTypeOK

\* The next model answers.
LEMMA AskKeeps ==
    ASSUME EnsembleInv, NEW a \in Answers, Ask(a)
    PROVE  EnsembleInv'
<1>1. /\ models \in Seq(Models) /\ given \in Seq(Answers) /\ models # <<>>
      /\ votes \in [Models -> Labels \cup {Nobody}]
    BY NamesAreModels DEF Ask, EnsembleInv, EnsembleTypeOK
<1>2. /\ Len(given) \in Nat /\ Len(models) \in Nat
      /\ DOMAIN given = 1..Len(given) /\ DOMAIN models = 1..Len(models)
    BY <1>1, LenProperties
<1>k. PICK k \in Nat : k = Len(given) + 1
    BY <1>2
<1>n. k \in 1..Len(models) /\ models[k] \in Models
    BY <1>1, <1>2, <1>k, ElementOfSeq DEF Ask
<1>m. PICK m \in Models : m = models[k]
    BY <1>n
<1>3. k = Len(given) + 1 /\ m = models[k]
    BY <1>k, <1>m
<1>4. k \in 1..Len(models) /\ m \in Models
    BY <1>n
<1>5. /\ given' \in Seq(Answers) /\ Len(given') = k
      /\ \A n \in 1..Len(given) : given'[n] = given[n]
      /\ given'[k] = a
    BY <1>1, <1>3, AppendProperties DEF Ask
<1>6. DOMAIN given' = 1..k
    BY <1>5, LenProperties
<1>7. votes' = [votes EXCEPT ![m] = VoteOf(a)] /\ VoteOf(a) \in Labels /\ VoteOf(a) # Nobody
    BY <1>3, <1>5, NobodyAssumption DEF Ask, VoteOf, Answers, Labels
<1>8. UNCHANGED <<epc, models, verdict>> /\ epc = "asking"
    BY DEF Ask
<1>9. votes' \in [Models -> Labels \cup {Nobody}]
    BY <1>1, <1>7
<1>10. \A i \in DOMAIN given' : i \in DOMAIN given \/ i = k
    BY <1>2, <1>3, <1>6
<1>11. DOMAIN given \subseteq DOMAIN given' /\ k \in DOMAIN given'
    BY <1>2, <1>3, <1>6
<1>12. \A u \in Models : votes'[u] # Nobody <=> \E n \in DOMAIN given' : models[n] = u
  <2> SUFFICES ASSUME NEW u \in Models
               PROVE  votes'[u] # Nobody <=> \E n \in DOMAIN given' : models[n] = u
      OBVIOUS
  <2>1. votes[u] # Nobody <=> \E n \in DOMAIN given : models[n] = u
      BY DEF EnsembleInv, EnsembleTypeOK
  <2>2. votes'[u] = IF u = m THEN VoteOf(a) ELSE votes[u]
      BY <1>1, <1>7
  <2> QED
      BY <1>3, <1>7, <1>10, <1>11, <2>1, <2>2
<1>13. unavailable' = (\E n \in DOMAIN given' : given'[n] = "unavailable")
  <2>1. unavailable = (\E n \in DOMAIN given : given[n] = "unavailable")
      BY DEF EnsembleInv, EnsembleTypeOK
  <2>2. (\E n \in DOMAIN given' : given'[n] = "unavailable")
            = ((\E n \in DOMAIN given : given[n] = "unavailable") \/ a = "unavailable")
      BY <1>2, <1>5, <1>10, <1>11
  <2> QED
      BY <2>1, <2>2 DEF Ask
<1>14. EnsembleTypeOK'
    BY <1>2, <1>4, <1>5, <1>8, <1>9, <1>12, <1>13 DEF EnsembleInv, EnsembleTypeOK
<1>15. \A n \in DOMAIN given' : LastOfName(n)' => n = k \/ (LastOfName(n) /\ models[n] # m)
  <2> SUFFICES ASSUME NEW n \in DOMAIN given', LastOfName(n)', n # k
               PROVE  LastOfName(n) /\ models[n] # m
      OBVIOUS
  <2>1. n \in DOMAIN given /\ k > n
      BY <1>2, <1>3, <1>10
  <2>2. \A j \in DOMAIN given' : j > n => models[j] # models[n]
      BY <1>8 DEF LastOfName
  <2>3. models[n] # m
      BY <1>3, <1>11, <2>1, <2>2
  <2> QED
      BY <1>11, <2>2, <2>3 DEF LastOfName
<1>16. LastOfName(k)'
  <2>1. \A n \in DOMAIN given' : ~(n > k)
      BY <1>6
  <2> QED
      BY <2>1 DEF LastOfName
<1>17. \A n \in DOMAIN given : LastOfName(n) /\ models[n] # m => LastOfName(n)'
    BY <1>3, <1>8, <1>10 DEF LastOfName
<1>18. ASSUME NEW n \in DOMAIN given', LastOfName(n)'
       PROVE  votes'[models[n]] = VoteOf(given'[n])
  <2>1. CASE n = k
      BY <1>1, <1>3, <1>4, <1>5, <1>7, <2>1
  <2>2. CASE n # k
    <3>1. n \in DOMAIN given /\ LastOfName(n) /\ models[n] # m
        BY <1>10, <1>15, <1>18, <2>2
    <3>2. votes'[models[n]] = votes[models[n]] /\ given'[n] = given[n]
        BY <1>1, <1>2, <1>5, <1>7, <3>1
    <3> QED
        BY <3>1, <3>2 DEF EnsembleInv
  <2> QED
      BY <2>1, <2>2
<1>19. ASSUME NEW u \in Models, votes'[u] # Nobody
       PROVE  \E n \in DOMAIN given' : LastOfName(n)' /\ models[n] = u
  <2>1. CASE u = m
      BY <1>3, <1>11, <1>16, <2>1
  <2>2. CASE u # m
    <3>1. votes[u] # Nobody
        BY <1>1, <1>7, <1>19, <2>2
    <3>2. PICK n \in DOMAIN given : LastOfName(n) /\ models[n] = u
        BY <3>1 DEF EnsembleInv
    <3> QED
        BY <1>11, <1>17, <2>2, <3>2
  <2> QED
      BY <2>1, <2>2
<1> QED
    BY <1>1, <1>8, <1>14, <1>18, <1>19 DEF EnsembleInv

LEMMA CountKeeps ==
    ASSUME EnsembleInv, Count
    PROVE  EnsembleInv'
<1>1. /\ UNCHANGED <<models, votes, unavailable, given>>
      /\ epc' = "done" /\ Len(given) = Len(models) /\ verdict' = Verdict
    BY DEF Count
<1>2. Verdict \in Labels \cup {Nobody}
    BY DEF Verdict, Labels
<1>3. Verdict' = Verdict
    BY <1>1 DEF Verdict, Cast
<1>4. EnsembleTypeOK'
    BY <1>1, <1>2 DEF EnsembleInv, EnsembleTypeOK
<1>5. \A n : LastOfName(n)' <=> LastOfName(n)
    BY <1>1 DEF LastOfName
<1> QED
    BY <1>1, <1>3, <1>4, <1>5 DEF EnsembleInv

LEMMA ReturnKeeps ==
    ASSUME EnsembleInv, EnsembleReturn
    PROVE  EnsembleInv'
<1>1. EnsembleInit'
    BY DEF EnsembleReturn, EnsembleInit
<1> QED
    BY <1>1, EnsembleInitInv, PTL

LEMMA EnsembleStep == EnsembleInv /\ [EnsembleNext]_ensVars => EnsembleInv'
<1> SUFFICES ASSUME EnsembleInv, [EnsembleNext]_ensVars PROVE EnsembleInv'
    OBVIOUS
<1>1. CASE EnsembleNext
    BY <1>1, CheckBegins, CheckAtOnce, AskKeeps, CountKeeps, ReturnKeeps DEF EnsembleNext
<1>2. CASE UNCHANGED ensVars
  <2>1. UNCHANGED <<epc, models, votes, unavailable, verdict, given>>
      BY <1>2 DEF ensVars
  <2>2. Verdict' = Verdict
      BY <2>1 DEF Verdict, Cast
  <2>3. EnsembleTypeOK'
      BY <2>1 DEF EnsembleInv, EnsembleTypeOK
  <2>4. \A n : LastOfName(n)' <=> LastOfName(n)
      BY <2>1 DEF LastOfName
  <2> QED
      BY <2>1, <2>2, <2>3, <2>4 DEF EnsembleInv
<1> QED
    BY <1>1, <1>2

LEMMA EnsembleAlways == EnsembleSpec => []EnsembleInv
BY EnsembleInitInv, EnsembleStep, PTL DEF EnsembleSpec

\* An ensemble's variables keep their types: a name has a vote when one of its questions
\* was answered, and any_unavailable says whether an answer was missing.
THEOREM EnsembleAlwaysTyped == EnsembleSpec => []EnsembleTypeOK
<1>1. EnsembleInv => EnsembleTypeOK
    BY DEF EnsembleInv
<1> QED
    BY <1>1, EnsembleAlways, PTL

-----------------------------------------------------------------------------
\* Once all have answered, the votes cast are those of the answers that count.
LEMMA CastIsCounted ==
    ASSUME EnsembleInv, Len(given) = Len(models)
    PROVE  Cast = {VoteOf(a) : a \in Counted}
<1>1. models \in Seq(Models) /\ given \in Seq(Answers)
    BY NamesAreModels DEF EnsembleInv, EnsembleTypeOK
<1>2. DOMAIN given = DOMAIN models /\ \A n \in DOMAIN models : models[n] \in Models
    BY <1>1, LenProperties, ElementOfSeq
<1>3. \A n \in DOMAIN given : votes[models[n]] # Nobody
    BY <1>2 DEF EnsembleInv, EnsembleTypeOK
<1>4. \A n \in DOMAIN given : LastOfName(n) => votes[models[n]] = VoteOf(given[n])
    BY DEF EnsembleInv
<1>5. ASSUME NEW v \in Cast PROVE v \in {VoteOf(a) : a \in Counted}
  <2>1. PICK m \in Models : v = votes[m] /\ votes[m] # Nobody
      BY <1>5 DEF Cast
  <2>2. PICK n \in DOMAIN given : LastOfName(n) /\ models[n] = m
      BY <2>1 DEF EnsembleInv
  <2> QED
      BY <1>4, <2>1, <2>2 DEF Counted
<1>6. ASSUME NEW v \in {VoteOf(a) : a \in Counted} PROVE v \in Cast
  <2>1. PICK n \in DOMAIN given : LastOfName(n) /\ v = VoteOf(given[n])
      BY <1>6 DEF Counted
  <2> QED
      BY <1>2, <1>3, <1>4, <2>1 DEF Cast
<1> QED
    BY <1>5, <1>6

\* Who agrees on a label as votes agreed on it as answers.
LEMMA VerdictOfAnswers ==
    ASSUME NEW all \in SUBSET Answers, all # {}, Cast = {VoteOf(a) : a \in all}
    PROVE  /\ \A label \in {"pii_yes", "pii_no"} : Verdict = label <=> all = {label}
           /\ Verdict = Nobody =>
                  unavailable /\ IsInjective(models) /\ all \subseteq {"unavailable", "insufficient"}
<1> USE DEF Answers, Labels
<1>1. \A a \in Answers : VoteOf(a) \in Labels
    BY DEF VoteOf
<1>2. /\ "pii_yes" \in Cast <=> "pii_yes" \in all
      /\ "pii_no" \in Cast <=> "pii_no" \in all
      /\ "insufficient" \in Cast <=> "insufficient" \in all \/ "unavailable" \in all
      /\ Cast \subseteq Labels
    BY DEF VoteOf
<1>3. Cast = {"pii_yes"} <=> all = {"pii_yes"}
    BY <1>2
<1>4. Cast = {"pii_no"} <=> all = {"pii_no"}
    BY <1>2
<1>5. Cast = {"insufficient"} => all \subseteq {"unavailable", "insufficient"}
    BY <1>2
<1>6. /\ Verdict = "pii_yes" <=> Cast = {"pii_yes"}
      /\ Verdict = "pii_no" <=> Cast = {"pii_no"}
      /\ Verdict = Nobody => unavailable /\ Cast = {"insufficient"} /\ IsInjective(models)
    BY NobodyAssumption DEF Verdict
<1> QED
    BY <1>3, <1>4, <1>5, <1>6

LEMMA InvAgreementIsReal == EnsembleInv => AgreementIsReal
<1> SUFFICES ASSUME EnsembleInv, epc = "done", models # <<>>
             PROVE  /\ \A label \in {"pii_yes", "pii_no"} : verdict = label <=> Counted = {label}
                    /\ verdict = Nobody =>
                           /\ "unavailable" \in Counted
                           /\ Counted \subseteq {"unavailable", "insufficient"}
    BY DEF AgreementIsReal
<1>1. Len(given) = Len(models) /\ verdict = Verdict
    BY DEF EnsembleInv
<1>2. models \in Seq(Models) /\ given \in Seq(Answers)
    BY NamesAreModels DEF EnsembleInv, EnsembleTypeOK
<1>3. /\ Len(given) \in Nat /\ Len(given) # 0
      /\ DOMAIN given = 1..Len(given) /\ DOMAIN models = DOMAIN given
      /\ \A n \in DOMAIN given : given[n] \in Answers
    BY <1>1, <1>2, EmptySeq, LenProperties, ElementOfSeq
<1>4. Counted \in SUBSET Answers
    BY <1>3 DEF Counted
<1>5. Len(given) \in DOMAIN given /\ LastOfName(Len(given))
    BY <1>3 DEF LastOfName
<1>6. Counted # {}
    BY <1>5 DEF Counted
<1>7. ASSUME unavailable, IsInjective(models) PROVE "unavailable" \in Counted
  <2>1. PICK n \in DOMAIN given : given[n] = "unavailable"
      BY <1>7 DEF EnsembleInv, EnsembleTypeOK
  <2>2. LastOfName(n)
    <3>1. \A k \in DOMAIN given : k > n => k # n
        BY <1>3
    <3> QED
        BY <1>3, <1>7, <2>1, <3>1 DEF LastOfName, IsInjective
  <2> QED
      BY <2>1, <2>2 DEF Counted
<1>8. Cast = {VoteOf(a) : a \in Counted}
    BY <1>1, CastIsCounted
<1> QED
    BY <1>1, <1>4, <1>6, <1>7, <1>8, VerdictOfAnswers

\* For any models and any answers of theirs, in any order and with any names repeated: a
\* label is what the last answers of all names agree on, and agreement is a label; a
\* missing verdict means that one was unavailable and none of the others knew.
THEOREM AgreementIsAlwaysReal == EnsembleSpec => []AgreementIsReal
BY EnsembleAlways, InvAgreementIsReal, PTL
=============================================================================
