------------------------------- MODULE MCHost -------------------------------
(* Small instances for TLC of components that share no state: sealing by a  *)
(* host that runs one call at a time, the tool gate, the classification of  *)
(* pairs, the ensemble. Each is explored by itself: `part` says which one a *)
(* behaviour is about.                                                      *)
EXTENDS Seal, Gate, Pairs, Ensemble, TLC

VARIABLE part

-----------------------------------------------------------------------------
(* The gate: requests. *)

Value(path, under, pattern) == [path |-> path, under |-> under, pattern |-> pattern]

OnlyA == {<<"a">>}
AandB == {<<"a">>, <<"b">>}
Deep  == {<<"a">>, <<"a", "b">>, <<"b">>}
SomeScopes == {OnlyA, AandB, Deep}

Plain == {Value(<<"a">>, "dict", FALSE), Value(<<"b">>, "dict", FALSE)}
Mail  == {Value(<<"a">>, "dict", TRUE), Value(<<"b">>, "dict", FALSE)}
Inner == {Value(<<"a", "b">>, "dict", FALSE), Value(<<"b">>, "dict", FALSE)}
InnerMail == {Value(<<"a", "b">>, "dict", TRUE)}
ListMail  == {Value(<<"a">>, "list", TRUE), Value(<<"b">>, "dict", FALSE)}
ListInner == {Value(<<"a", "b">>, "list", TRUE)}
ListList  == {Value(<<"a">>, "nest", TRUE)}

Asked(kind, content, scope, mode, token) ==
    [kind |-> kind, content |-> content, scope |-> scope, mode |-> mode, token |-> token,
     audited |-> TRUE]

\* Every place a value can be in, in scope and out of it.
Shapes == {<<Plain, OnlyA>>, <<Mail, AandB>>, <<Inner, AandB>>, <<InnerMail, Deep>>,
           <<ListMail, AandB>>, <<ListInner, OnlyA>>, <<ListList, OnlyA>>}

\* A good token, one for another tool, one without a valid signature.
SomeTokens == {[key |-> "k1", forTool |-> TRUE, exp |-> 1],
               [key |-> "k1", forTool |-> FALSE, exp |-> 1],
               [key |-> Nothing, forTool |-> TRUE, exp |-> 1]}

SomeRequests ==
    {Asked(k, s[1], s[2], m, Nothing) : k \in {"call", "response"}, s \in Shapes, m \in {"standard", "strict"}}
    \cup {Asked("call", Inner, Deep, "strict", k) : k \in SomeTokens}
    \cup {Asked("note", {}, OnlyA, "standard", Nothing),
          [Asked("call", Mail, OnlyA, "audit_only", Nothing) EXCEPT !.audited = FALSE]}

-----------------------------------------------------------------------------
(* Pairs and models. *)

Text(summary, facet, term, scope, format) ==
    [s \in PairSlots |-> CASE s = "summary" -> summary [] s = "facet" -> facet
                       [] s = "term" -> term [] s = "scope" -> scope [] s = "format" -> format]

SomeTexts == {Text("secret", "late", "secret", "plain", "plain"),
              Text("object", "mild", "late", "late", "object")}

\* No call fails, or two do.
SomeFailures == {{}, {<<"fingerprint", "summary">>, <<"triples", "facet">>}}

\* Two and three models, and one of two asked twice.
SomeEnsembles == {<<"phi", "qwen">>, <<"phi", "qwen", "mistral">>, <<"phi", "qwen", "phi">>}
ThreeModels   == <<"phi", "qwen", "mistral">>

\* The parts share the names of what runs (Writers, Threads and Hosts) and of what it
\* works on (the records that stay, and Ids), so there are few permutations of them.
Symmetry == Permutations(Writers) \cup Permutations(Records \ Erasable)

-----------------------------------------------------------------------------
OnlySeal     == part = "seal" /\ UNCHANGED <<part, gateVars, pairsVars, ensVars>>
OnlyGate     == part = "gate" /\ UNCHANGED <<part, vars, pairsVars, ensVars>>
OnlyPairs    == part = "pairs" /\ UNCHANGED <<part, vars, gateVars, ensVars>>
OnlyEnsemble == part = "ensemble" /\ UNCHANGED <<part, vars, gateVars, pairsVars>>

HostInit ==
    /\ part \in {"seal", "gate", "pairs", "ensemble"}
    /\ Init /\ (part # "seal" => ~dir[Legacy])
    /\ GateInit /\ (part # "gate" => ~strictSig /\ trust = "unusable")
    /\ PairsInit /\ (part # "pairs" => \A i \in Ids : wrote[i]["facet"] = "mild")
    /\ EnsembleInit

HostNext ==
    \/ OnlySeal /\ SerialNext
    \/ \E t \in Threads, r \in Requests :
        \/ OnlyGate /\ Egress(t, r)
        \/ OnlyGate /\ Ingress(t, r)
        \/ OnlyGate /\ Note(t, r)
    \/ \E t \in Threads :
        \/ OnlyGate /\ TokenEnv(t)
        \/ OnlyGate /\ TokenVerify(t)
        \/ OnlyGate /\ TokenTime(t)
        \/ OnlyGate /\ Audit(t)
        \/ OnlyGate /\ AuditRaises(t)
        \/ OnlyGate /\ Return(t)
        \/ OnlyGate /\ Die(t)
    \/ OnlyGate /\ Tick
    \/ OnlyGate /\ \E b \in BOOLEAN : SetStrictSig(b)
    \/ OnlyGate /\ \E s \in Stores : WriteStore(s)
    \/ OnlyPairs /\ \E h \in Hosts, i \in Ids, x \in Texts, raising \in Failures : Ingest(h, i, x, raising)
    \/ \E h \in Hosts :
        \/ OnlyPairs /\ SweepList(h)
        \/ OnlyPairs /\ SweepReturn(h)
        \/ OnlyPairs /\ Restart(h)
        \/ OnlyPairs /\ \E e \in todo[h] : SweepSkip(h, e)
        \/ OnlyPairs /\ \E e \in todo[h], raising \in Failures : SweepRewrite(h, e, raising)
    \/ OnlyPairs /\ Release
    \/ OnlyEnsemble /\ \E explicit, role \in Ensembles \cup {<<>>} : Check(explicit, role)
    \/ OnlyEnsemble /\ CheckUnwired
    \/ OnlyEnsemble /\ CheckEmpty
    \/ OnlyEnsemble /\ \E a \in Answers : Ask(a)
    \/ OnlyEnsemble /\ Count
    \/ OnlyEnsemble /\ EnsembleReturn

HostSpec == HostInit /\ [][HostNext]_<<part, vars, gateVars, pairsVars, ensVars>>
=============================================================================
