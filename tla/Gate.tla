-------------------------------- MODULE Gate --------------------------------
(***************************************************************************)
(* The tool gate of core.py: egress decides about a call before it is made, *)
(* ingress about the response, validate_token about the capability token of *)
(* a call, and AuditLog appends one line for each decision. Threads of the  *)
(* host share the clock, the environment, the issuers' trust store and the  *)
(* audit file.                                                              *)
(***************************************************************************)
EXTENDS Naturals, FiniteSets, SequencesExt

CONSTANTS
    Threads,
    Requests,       \* what the host may ask, see Request below
    Scopes,         \* task scopes: sets of paths
    Names,          \* keys of arguments and payloads
    SigningKeys,    \* the issuer's signing keys, old and new
    MaxTime,        \* bound of the clock
    MaxCalls,       \* bound of the requests of a behaviour
    MaxTorn,        \* bound of the audit lines cut short
    Nothing

(* Arguments and payloads are nested dictionaries. One is the set of its    *)
(* leaves: the path of keys that leads to a value, what is between the      *)
(* first key and the rest of the path ("dict": dictionaries only; "list": a *)
(* list; "nest": a list in a list), and whether Tier B finds a pattern in   *)
(* the value.                                                               *)
Leaf == [path : Seq(Names) \ {<<>>}, under : {"dict", "list", "nest"}, pattern : BOOLEAN]

(* A token is signed, as it stands, by one of the issuer's keys or by none. *)
Token == [key : SigningKeys \cup {Nothing}, forTool : BOOLEAN, exp : Nat]

Modes   == {"standard", "strict", "permissive", "audit_only"}
Request == [kind : {"call", "response", "note"}, content : SUBSET Leaf, scope : Scopes,
            mode : Modes, token : Token \cup {Nothing}, audited : BOOLEAN]

(* What is at LOCK_CAPABILITY_TRUST_STORE: a key for the issuer; nothing    *)
(* usable (no path, no file, no such issuer, no JSON, no Ed25519 key); or a *)
(* key the cryptography package cannot load, for which it has an exception  *)
(* that is not among those _verify_capability_signature takes.              *)
Stores == SigningKeys \cup {"unusable", "unsupported"}

ASSUME RequestAssumption ==
    \A r \in Requests :
        /\ r.content \subseteq Leaf
        /\ [r EXCEPT !.content = {}] \in Request
ASSUME GateBoundsAssumption == MaxTime \in Nat /\ MaxCalls \in Nat /\ MaxTorn \in Nat
ASSUME NothingAssumption == Nothing \notin Token \cup Requests \cup SigningKeys

VARIABLES
    now, strictSig, trust,      \* the clock, LOCK_BETA_STRICT_TOKEN_SIG, the store
    lines, tail,                \* the audit file: readable lines, an unterminated one
    gpc, req, id, tok,          \* a request in progress: step, content, name, token verdict
    begun, returned, torn,      \* history: requests begun, decisions returned, lines cut short
    live, trusted, forced       \* history, of a request's token: see TokenHonoured

env     == <<now, strictSig, trust>>
file    == <<lines, tail>>
seen    == <<live, trusted, forced>>
gateVars == <<env, file, gpc, req, id, tok, begun, returned, torn, seen>>

GateTypeOK ==
    /\ now \in 0..MaxTime /\ strictSig \in BOOLEAN /\ trust \in Stores
    /\ lines \subseteq 1..begun /\ tail \in BOOLEAN
    /\ begun \in 0..MaxCalls /\ torn \in 0..MaxTorn
    /\ returned \subseteq 1..begun
    /\ gpc \in [Threads -> {"idle", "env", "verify", "time", "audit", "done"}]
    /\ \A t \in Threads :
        /\ req[t] \in Requests \cup {Nothing}
        /\ (req[t] = Nothing) <=> (gpc[t] = "idle")
        /\ id[t] \in 0..begun
        /\ tok[t] \in {"none", "ok", "bad"}
        /\ gpc[t] \in {"env", "verify", "time"} => req[t].token # Nothing /\ tok[t] = "none"
        /\ gpc[t] = "done" /\ req[t].audited => id[t] \in returned
    /\ live \in [Threads -> BOOLEAN]
    /\ trusted \in [Threads -> BOOLEAN]
    /\ forced \in [Threads -> BOOLEAN]

GateInit ==
    /\ now = 0 /\ strictSig \in BOOLEAN /\ trust \in Stores
    /\ lines = {} /\ tail = FALSE
    /\ gpc = [t \in Threads |-> "idle"]
    /\ req = [t \in Threads |-> Nothing]
    /\ id = [t \in Threads |-> 0]
    /\ tok = [t \in Threads |-> "none"]
    /\ begun = 0 /\ returned = {} /\ torn = 0
    /\ live = [t \in Threads |-> FALSE]
    /\ trusted = [t \in Threads |-> FALSE]
    /\ forced = [t \in Threads |-> FALSE]

-----------------------------------------------------------------------------
(* The decision.                                                            *)

\* The dotted paths of a leaf: dictionaries are expanded, lists are not.
Paths(l) == IF l.under = "dict" THEN {SubSeq(l.path, 1, n) : n \in 1..Len(l.path)}
                                ELSE {<<Head(l.path)>>}

Requested(c) == UNION {Paths(l) : l \in c}
Returned(c)  == {<<Head(l.path)>> : l \in c}

\* Mutant of Patterned: no list is looked into.
PatternedOutsideLists(c) == {l \in c : l.pattern /\ l.under = "dict"}

\* Tier B goes into lists, but not into a list in a list.
Patterned(c) == {l \in c : l.pattern /\ l.under # "nest"}

\* Its findings carry the innermost key.
Fields(c) == {<<Last(l.path)>> : l \in Patterned(c)}

\* The keys of the outermost dictionary are what is stripped or redacted.
Without(c, fields) == {l \in c : <<Head(l.path)>> \notin fields}

Allow(r)  == [action |-> "allow", sent |-> r.content, gone |-> {}]
Refuse(r) == [action |-> "refuse", sent |-> {}, gone |-> {}]
TakeOut(action, r, fields) ==
    [action |-> action, sent |-> Without(r.content, fields), gone |-> fields]

\* Mutant of DecideEgress: strict refuses for high findings only.
DecideEgressHighOnly(r, verdict) ==
    LET over == Requested(r.content) \ r.scope
        high == Patterned(r.content) # {} \/ verdict = "bad"
    IN  CASE r.mode \in {"audit_only", "permissive"} -> Allow(r)
          [] r.mode = "strict" -> IF high THEN Refuse(r) ELSE Allow(r)
          [] r.mode = "standard" -> IF over # {} THEN TakeOut("strip", r, over) ELSE Allow(r)

DecideEgress(r, verdict) ==
    LET over == Requested(r.content) \ r.scope
        high == Patterned(r.content) # {} \/ verdict = "bad"
    IN  CASE r.mode \in {"audit_only", "permissive"} -> Allow(r)
          [] r.mode = "strict" -> IF high \/ over # {} THEN Refuse(r) ELSE Allow(r)
          [] r.mode = "standard" -> IF over # {} THEN TakeOut("strip", r, over) ELSE Allow(r)

DecideIngress(r) ==
    LET fields == (Returned(r.content) \ r.scope) \cup Fields(r.content)
    IN  IF r.mode \in {"audit_only", "permissive"} \/ fields = {}
        THEN Allow(r) ELSE TakeOut("redact", r, fields)

Decision(r, verdict) ==
    CASE r.kind = "call" -> DecideEgress(r, verdict)
      [] r.kind = "response" -> DecideIngress(r)
      [] r.kind = "note" -> Refuse(r)

-----------------------------------------------------------------------------
(* One request: its scans, then the token in the order of validate_token,   *)
(* then the decision and its audit line.                                    *)

Moves(t, from, to) == gpc[t] = from /\ gpc' = [gpc EXCEPT ![t] = to]

\* Mutant of Reset: the verdict on the token stays for the next request.
ResetKeepVerdict(t) ==
    /\ gpc' = [gpc EXCEPT ![t] = "idle"]
    /\ req' = [req EXCEPT ![t] = Nothing]
    /\ live' = [live EXCEPT ![t] = FALSE]
    /\ trusted' = [trusted EXCEPT ![t] = FALSE]
    /\ forced' = [forced EXCEPT ![t] = FALSE]
    /\ UNCHANGED tok

\* The thread is done with the request, one way or another.
Reset(t) ==
    /\ gpc' = [gpc EXCEPT ![t] = "idle"]
    /\ req' = [req EXCEPT ![t] = Nothing]
    /\ tok' = [tok EXCEPT ![t] = "none"]
    /\ live' = [live EXCEPT ![t] = FALSE]
    /\ trusted' = [trusted EXCEPT ![t] = FALSE]
    /\ forced' = [forced EXCEPT ![t] = FALSE]

HasToken(r) == r.kind = "call" /\ r.token # Nothing

Begin(t, r) ==
    /\ begun < MaxCalls
    /\ Moves(t, "idle", IF HasToken(r) THEN "env" ELSE "audit")
    /\ begun' = begun + 1
    /\ id' = [id EXCEPT ![t] = begun']
    /\ req' = [req EXCEPT ![t] = r]
    /\ live' = [live EXCEPT ![t] = HasToken(r) /\ r.token.exp > now]
    /\ trusted' = [trusted EXCEPT ![t] = HasToken(r) /\ r.token.key = trust]
    /\ forced' = [forced EXCEPT ![t] = HasToken(r) /\ strictSig]
    /\ UNCHANGED <<env, file, tok, returned, torn>>

\* No token, no look at one: a low finding, and the scope the host inferred.
Egress(t, r)  == r.kind = "call" /\ Begin(t, r)
Ingress(t, r) == r.kind = "response" /\ Begin(t, r)

\* lock_text and a host that has switched the lock off put lines into the same
\* file (write_text, write_bypass).
Note(t, r) == r.kind = "note" /\ Begin(t, r)

Judge(t, verdict) == tok' = [tok EXCEPT ![t] = verdict]
Elsewhere == UNCHANGED <<env, file, req, id, begun, returned, torn, seen>>

TokenEnv(t) ==
    /\ Moves(t, "env", IF strictSig THEN "verify" ELSE "time")
    /\ UNCHANGED tok /\ Elsewhere

\* Mutant of TokenVerify: without a usable store no signature is asked for.
TokenVerifyIfStored(t) ==
    /\ gpc[t] = "verify" /\ trust # "unsupported"
    /\ IF trust \in {req[t].token.key, "unusable"}
       THEN Moves(t, "verify", "time") /\ UNCHANGED tok
       ELSE Moves(t, "verify", "audit") /\ Judge(t, "bad")
    /\ Elsewhere

TokenVerify(t) ==
    /\ gpc[t] = "verify" /\ trust # "unsupported"
    /\ IF trust = req[t].token.key
       THEN Moves(t, "verify", "time") /\ UNCHANGED tok
       ELSE Moves(t, "verify", "audit") /\ Judge(t, "bad")
    /\ Elsewhere

TokenTime(t) ==
    /\ Moves(t, "time", "audit")
    /\ Judge(t, IF req[t].token.exp > now /\ req[t].token.forTool THEN "ok" ELSE "bad")
    /\ Elsewhere

\* A line that follows an unterminated one is not readable either.
Audit(t) ==
    /\ Moves(t, "audit", "done")
    /\ IF req[t].audited
       THEN /\ lines' = IF tail THEN lines ELSE lines \cup {id[t]}
            /\ tail' = FALSE
            /\ returned' = returned \cup {id[t]}
       ELSE UNCHANGED <<file, returned>>
    /\ UNCHANGED <<env, req, id, tok, begun, torn, seen>>

\* Mutant of AuditRaises: the exception is swallowed and the decision returned.
AuditRaisesSwallowed(t) ==
    /\ gpc[t] = "audit" /\ req[t].audited
    /\ \/ UNCHANGED <<tail, torn>>
       \/ torn < MaxTorn /\ torn' = torn + 1 /\ tail' = TRUE
    /\ Moves(t, "audit", "done")
    /\ returned' = returned \cup {id[t]}
    /\ UNCHANGED <<env, lines, req, id, tok, begun, seen>>

\* The file cannot be opened or is full: the exception takes the decision with it.
AuditRaises(t) ==
    /\ gpc[t] = "audit" /\ req[t].audited
    /\ \/ UNCHANGED <<tail, torn>>
       \/ torn < MaxTorn /\ torn' = torn + 1 /\ tail' = TRUE
    /\ Reset(t)
    /\ UNCHANGED <<env, lines, id, begun, returned>>

\* The host has the decision and acts on it.
Return(t) ==
    /\ gpc[t] = "done"
    /\ Reset(t)
    /\ UNCHANGED <<env, file, id, begun, returned, torn>>

\* The process dies, or a library it calls raises: no decision. The line may
\* have been written.
Die(t) ==
    /\ gpc[t] \notin {"idle", "done"}
    /\ Reset(t)
    /\ UNCHANGED <<env, file, id, begun, returned, torn>>

-----------------------------------------------------------------------------
(* Around it: time, the host's environment, the operator's trust store.     *)
Tick ==
    /\ now < MaxTime
    /\ now' = now + 1
    /\ UNCHANGED <<strictSig, trust, file, gpc, req, id, tok, begun, returned, torn, seen>>

SetStrictSig(b) ==
    /\ strictSig # b
    /\ strictSig' = b
    /\ forced' = [t \in Threads |-> forced[t] /\ b]
    /\ UNCHANGED <<now, trust, file, gpc, req, id, tok, begun, returned, torn, live, trusted>>

WriteStore(s) ==
    /\ trust # s
    /\ trust' = s
    /\ trusted' = [t \in Threads |->
                    trusted[t] \/ (gpc[t] # "idle" /\ HasToken(req[t]) /\ req[t].token.key = s)]
    /\ UNCHANGED <<now, strictSig, file, gpc, req, id, tok, begun, returned, torn, live, forced>>

GateNext ==
    \/ \E t \in Threads, r \in Requests : Egress(t, r) \/ Ingress(t, r) \/ Note(t, r)
    \/ \E t \in Threads : \/ TokenEnv(t) \/ TokenVerify(t) \/ TokenTime(t)
                          \/ Audit(t) \/ AuditRaises(t) \/ Return(t) \/ Die(t)
    \/ Tick
    \/ \E b \in BOOLEAN : SetStrictSig(b)
    \/ \E s \in Stores : WriteStore(s)

GateSpec == GateInit /\ [][GateNext]_gateVars

-----------------------------------------------------------------------------
Outcome(t)  == Decision(req[t], tok[t])
Answered(t) == gpc[t] = "done" /\ req[t].kind # "note"
Enforced(t) == Answered(t) /\ req[t].mode \in {"standard", "strict"}

\* The host acts only on decisions the audit file shows: of the decisions
\* returned with an audit log, those without a readable line are no more than
\* the lines that were cut short, whichever threads write and die meanwhile.
Audited == Cardinality(returned \ lines) <= torn

\* Strict mode sends no call with a token that was expired when the call came
\* in, is for another tool, or, where signatures are required all the while, is
\* signed with a key the trust store never held while the call was decided: a
\* key revoked before is refused, however the store is rewritten or broken.
TokenHonoured ==
    \A t \in Threads :
        Answered(t) /\ req[t].mode = "strict" /\ HasToken(req[t]) /\ Outcome(t).action # "refuse"
            => /\ live[t] /\ req[t].token.forTool
               /\ forced[t] => trusted[t]

\* What an enforcing mode lets go on. Nothing under a top-level key that is out of
\* the task scope. Of a call, strict mode sends only what is in scope down to its
\* innermost key and has no pattern, but for a list in a list, which is not looked
\* into; standard mode only warns of patterns. Of a response, both modes take out
\* every pattern found directly under a top-level key; for those found deeper see
\* FindingsCaptured.
EnforcedContent ==
    \A t \in Threads : Enforced(t) => \A l \in Outcome(t).sent :
        /\ <<Head(l.path)>> \in req[t].scope
        /\ req[t].kind = "call" /\ req[t].mode = "strict" =>
               /\ Paths(l) \subseteq req[t].scope
               /\ l.pattern => l.under = "nest"
        /\ req[t].kind = "response" /\ l.pattern => l.under = "nest" \/ Len(l.path) > 1

\* What the comment in _decide_ingress says of standard and strict: every finding of
\* high severity is captured, so no value with a pattern that Tier B has found is in
\* a response that goes on.
FindingsCaptured ==
    \A t \in Threads :
        Enforced(t) /\ req[t].kind = "response" => Patterned(Outcome(t).sent) = {}

\* No mode passes on what a laxer mode would have taken out of the same request.
TighterPassesNoMore ==
    \A t \in Threads : Answered(t) =>
        LET Sent(m) == Decision([req[t] EXCEPT !.mode = m], tok[t]).sent
        IN  Sent("strict") \subseteq Sent("standard") /\ Sent("standard") \subseteq Sent("permissive")
=============================================================================
