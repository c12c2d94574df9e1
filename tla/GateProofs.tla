----------------------------- MODULE GateProofs -----------------------------
(***************************************************************************)
(* The tool gate honours only good tokens and returns only decisions that   *)
(* are in the audit file, whatever the threads, the clock, the environment  *)
(* and the trust store do meanwhile.                                        *)
(***************************************************************************)
EXTENDS Gate, FiniteSetTheorems, SequenceTheorems, TLAPS

\* What is known of the token of a request in progress: it is live as long as it has
\* not expired, trusted once the store has held its key, and forced only while
\* signatures are required; and the verdict on it by the step it has reached.
TokenKnown(t) ==
    /\ gpc[t] # "idle" => req[t] \in Requests
    /\ gpc[t] # "idle" /\ HasToken(req[t]) =>
          /\ req[t].token.exp > now => live[t]
          /\ trust = req[t].token.key => trusted[t]
          /\ forced[t] => strictSig
          /\ gpc[t] \in {"audit", "done"} => tok[t] \in {"ok", "bad"}
          /\ gpc[t] = "time" \/ tok[t] = "ok" => (forced[t] => trusted[t])
          /\ tok[t] = "ok" => live[t] /\ req[t].token.forTool

GateTypes ==
    /\ now \in Nat
    /\ gpc \in [Threads -> {"idle", "env", "verify", "time", "audit", "done"}]
    /\ req \in [Threads -> Requests \cup {Nothing}]
    /\ tok \in [Threads -> {"none", "ok", "bad"}]
    /\ live \in [Threads -> BOOLEAN]
    /\ trusted \in [Threads -> BOOLEAN]
    /\ forced \in [Threads -> BOOLEAN]
    /\ \A t \in Threads : gpc[t] \notin {"audit", "done"} => tok[t] = "none"

TokenInv == GateTypes /\ \A t \in Threads : TokenKnown(t)

LEMMA TokenTypes ==
    ASSUME NEW r \in Requests
    PROVE  HasToken(r) => r.token.exp \in Nat /\ r.token.forTool \in BOOLEAN
<1>1. [r EXCEPT !.content = {}] \in Request
    BY RequestAssumption
<1>2. [r EXCEPT !.content = {}].token = r.token
    BY <1>1 DEF Request
<1>3. r.token \in Token \cup {Nothing}
    BY <1>1, <1>2 DEF Request
<1> QED
    BY <1>3 DEF HasToken, Token

\* A thread whose request is not touched knows of its token what it knew.
LEMMA TokenKept ==
    ASSUME NEW t \in Threads, TokenKnown(t), UNCHANGED env,
           gpc'[t] = gpc[t], req'[t] = req[t], tok'[t] = tok[t],
           live'[t] = live[t], trusted'[t] = trusted[t], forced'[t] = forced[t]
    PROVE  TokenKnown(t)'
BY DEF TokenKnown, env

-----------------------------------------------------------------------------
LEMMA TokenInit == GateInit => TokenInv
BY DEF GateInit, TokenInv, GateTypes, TokenKnown

LEMMA BeginKeepsToken ==
    ASSUME TokenInv, NEW t \in Threads, NEW r \in Requests, Begin(t, r)
    PROVE  TokenInv'
<1> USE DEF TokenInv, GateTypes, Begin, Moves, env
<1>1. GateTypes'
    BY DEF HasToken
<1>2. \A u \in Threads \ {t} : TokenKnown(u)'
    BY TokenKept
<1>3. TokenKnown(t)'
    BY TokenTypes DEF TokenKnown
<1> QED
    BY <1>1, <1>2, <1>3

LEMMA ResetKeepsToken ==
    ASSUME TokenInv, NEW t \in Threads, Reset(t), UNCHANGED env
    PROVE  TokenInv'
<1> USE DEF TokenInv, GateTypes, Reset, env
<1>1. GateTypes'
    OBVIOUS
<1>2. \A u \in Threads \ {t} : TokenKnown(u)'
    BY TokenKept
<1>3. TokenKnown(t)'
    BY DEF TokenKnown
<1> QED
    BY <1>1, <1>2, <1>3

\* The steps of validate_token, and the audit line.
LEMMA StepKeepsToken ==
    ASSUME TokenInv, NEW t \in Threads, TokenEnv(t) \/ TokenVerify(t) \/ TokenTime(t) \/ Audit(t)
    PROVE  TokenInv'
<1> USE DEF TokenInv, GateTypes, Moves, Judge, Elsewhere, env, seen
<1>1. GateTypes'
    BY DEF TokenEnv, TokenVerify, TokenTime, Audit
<1>2. \A u \in Threads \ {t} : TokenKnown(u)'
    BY TokenKept DEF TokenEnv, TokenVerify, TokenTime, Audit
<1>3. CASE TokenEnv(t)
    BY <1>1, <1>2, <1>3 DEF TokenEnv, TokenKnown
<1>4. CASE TokenVerify(t)
    BY <1>1, <1>2, <1>4 DEF TokenVerify, TokenKnown
<1>5. CASE TokenTime(t)
    BY <1>1, <1>2, <1>5 DEF TokenTime, TokenKnown
<1>6. CASE Audit(t)
    BY <1>1, <1>2, <1>6 DEF Audit, TokenKnown
<1> QED
    BY <1>3, <1>4, <1>5, <1>6

LEMMA WorldKeepsToken ==
    ASSUME TokenInv,
           \/ Tick
           \/ \E b \in BOOLEAN : SetStrictSig(b)
           \/ \E s \in Stores : WriteStore(s)
    PROVE  TokenInv'
<1> USE DEF TokenInv, GateTypes
<1>1. CASE Tick
  <2>1. \A t \in Threads : TokenKnown(t)'
    <3> SUFFICES ASSUME NEW t \in Threads PROVE TokenKnown(t)'
        OBVIOUS
    <3>1. gpc[t] # "idle" /\ HasToken(req[t]) /\ req[t].token.exp > now' => req[t].token.exp > now
        BY <1>1, TokenTypes DEF Tick, TokenKnown
    <3> QED
        BY <1>1, <3>1 DEF Tick, TokenKnown, seen
  <2> QED
      BY <1>1, <2>1 DEF Tick, seen
<1>2. CASE \E b \in BOOLEAN : SetStrictSig(b)
    BY <1>2 DEF SetStrictSig, TokenKnown
<1>3. CASE \E s \in Stores : WriteStore(s)
  <2>1. PICK s \in Stores : WriteStore(s)
      BY <1>3
  <2>2. trusted' \in [Threads -> BOOLEAN]
      BY <2>1 DEF WriteStore
  <2>3. \A t \in Threads : trusted[t] => trusted'[t]
      BY <2>1 DEF WriteStore
  <2>4. \A t \in Threads : gpc[t] # "idle" /\ HasToken(req[t]) /\ trust' = req[t].token.key
                            => trusted'[t]
      BY <2>1 DEF WriteStore
  <2>5. UNCHANGED <<now, strictSig, gpc, req, tok, live, forced>>
      BY <2>1 DEF WriteStore
  <2>6. \A t \in Threads : TokenKnown(t)'
      BY <2>3, <2>4, <2>5 DEF TokenKnown
  <2> QED
      BY <2>2, <2>5, <2>6
<1> QED
    BY <1>1, <1>2, <1>3

LEMMA TokenNext == TokenInv /\ [GateNext]_gateVars => TokenInv'
<1> SUFFICES ASSUME TokenInv, [GateNext]_gateVars PROVE TokenInv'
    OBVIOUS
<1>1. CASE \E t \in Threads, r \in Requests : Egress(t, r) \/ Ingress(t, r) \/ Note(t, r)
    BY <1>1, BeginKeepsToken DEF Egress, Ingress, Note
<1>2. CASE \E t \in Threads : TokenEnv(t) \/ TokenVerify(t) \/ TokenTime(t) \/ Audit(t)
    BY <1>2, StepKeepsToken
<1>3. CASE \E t \in Threads : AuditRaises(t) \/ Return(t) \/ Die(t)
    BY <1>3, ResetKeepsToken DEF AuditRaises, Return, Die, env
<1>4. CASE Tick \/ (\E b \in BOOLEAN : SetStrictSig(b)) \/ (\E s \in Stores : WriteStore(s))
    BY <1>4, WorldKeepsToken
<1>5. CASE UNCHANGED gateVars
    BY <1>5 DEF gateVars, env, seen, TokenInv, GateTypes, TokenKnown
<1> QED
    BY <1>1, <1>2, <1>3, <1>4, <1>5 DEF GateNext

\* In strict mode a bad token, like any high finding, is a refusal.
LEMMA InvTokenHonoured == TokenInv => TokenHonoured
<1> SUFFICES ASSUME TokenInv, NEW t \in Threads, Answered(t), req[t].mode = "strict",
                    HasToken(req[t]), Outcome(t).action # "refuse"
             PROVE  live[t] /\ req[t].token.forTool /\ (forced[t] => trusted[t])
    BY DEF TokenHonoured
<1>1. TokenKnown(t) /\ gpc[t] = "done"
    BY DEF TokenInv, Answered
<1>2. tok[t] # "bad"
    BY DEF Outcome, Decision, DecideEgress, HasToken, Refuse
<1> QED
    BY <1>1, <1>2 DEF TokenKnown

\* For any number of threads and requests, and any sequence of changes to the clock,
\* the environment and the store between the looks validate_token takes at them,
\* strict mode sends no call on an expired, foreign or untrusted token.
THEOREM TokenAlwaysHonoured == GateSpec => []TokenHonoured
<1>1. GateSpec => []TokenInv
    BY TokenInit, TokenNext, PTL DEF GateSpec
<1> QED
    BY <1>1, InvTokenHonoured, PTL

-----------------------------------------------------------------------------
\* A line that was cut short costs one decision its line: its own, which is not
\* returned, or, while it is the file's last, the one glued to it.
Shortfall == Cardinality(returned \ lines)

AuditInv ==
    /\ IsFiniteSet(returned)
    /\ torn \in Nat
    /\ tail \in BOOLEAN
    /\ Shortfall <= torn
    /\ tail => Shortfall + 1 <= torn

LEMMA AuditInit == GateInit => AuditInv
<1> SUFFICES ASSUME GateInit PROVE AuditInv
    OBVIOUS
<1>1. returned \ lines = {} /\ returned = {}
    BY DEF GateInit
<1>2. Shortfall = 0
    BY <1>1, FS_EmptySet DEF Shortfall
<1>3. IsFiniteSet(returned)
    BY <1>1, FS_EmptySet
<1>4. torn = 0 /\ ~tail /\ tail \in BOOLEAN
    BY DEF GateInit
<1>5. Shortfall <= torn /\ torn \in Nat
    BY <1>2, <1>4
<1> QED
    BY <1>3, <1>4, <1>5 DEF AuditInv

LEMMA AuditKept ==
    ASSUME AuditInv, UNCHANGED <<returned, lines, tail, torn>>
    PROVE  AuditInv'
BY DEF AuditInv, Shortfall

LEMMA AuditLine ==
    ASSUME AuditInv, NEW t \in Threads, Audit(t), req[t].audited
    PROVE  AuditInv'
<1> DEFINE missing == returned \ lines
<1>0. Shortfall = Cardinality(missing)
    BY DEF Shortfall
<1>1. IsFiniteSet(missing) /\ Cardinality(missing) \in Nat
    BY FS_Difference, FS_CardinalityType DEF AuditInv
<1>2. returned' = returned \cup {id[t]} /\ tail' = FALSE /\ torn' = torn
    BY DEF Audit
<1>3. IsFiniteSet(returned')
    BY <1>2, FS_AddElement DEF AuditInv
<1>4. CASE ~tail
  <2>1. returned' \ lines' \subseteq missing
      BY <1>2, <1>4 DEF Audit
  <2>2. Shortfall' <= Cardinality(missing) /\ Shortfall' \in Nat
      BY <1>1, <2>1, FS_Subset, FS_CardinalityType DEF Shortfall
  <2>5. Shortfall' <= torn'
      BY <1>0, <1>1, <1>2, <1>4, <2>2 DEF AuditInv
  <2> QED
      BY <1>2, <1>3, <2>5 DEF AuditInv
<1>5. CASE tail
  <2>1. returned' \ lines' \subseteq missing \cup {id[t]}
      BY <1>2, <1>5 DEF Audit
  <2> HIDE DEF missing
  <2>2. /\ IsFiniteSet(missing \cup {id[t]})
        /\ Cardinality(missing \cup {id[t]}) <= Cardinality(missing) + 1
    <3>1. /\ IsFiniteSet(missing \cup {id[t]})
          /\ Cardinality(missing \cup {id[t]})
                = IF id[t] \in missing THEN Cardinality(missing) ELSE Cardinality(missing) + 1
        BY <1>1, FS_AddElement
    <3> QED
        BY <1>1, <3>1
  <2>4. Cardinality(missing \cup {id[t]}) \in Nat
      BY <2>2, FS_CardinalityType
  <2>3. Shortfall' <= Cardinality(missing \cup {id[t]}) /\ Shortfall' \in Nat
      BY <2>1, <2>2, FS_Subset, FS_CardinalityType DEF Shortfall
  <2>5. Shortfall' <= torn'
      BY <1>0, <1>1, <1>2, <1>5, <2>2, <2>3, <2>4 DEF AuditInv
  <2> QED
      BY <1>2, <1>3, <2>5 DEF AuditInv
<1> QED
    BY <1>4, <1>5 DEF AuditInv

LEMMA AuditLost ==
    ASSUME AuditInv, NEW t \in Threads, AuditRaises(t)
    PROVE  AuditInv'
<1>1. Shortfall \in Nat
    BY FS_Difference, FS_CardinalityType DEF AuditInv, Shortfall
<1>2. UNCHANGED <<returned, lines>> /\ Shortfall' = Shortfall
    BY DEF AuditRaises, Shortfall
<1>3. CASE UNCHANGED <<tail, torn>>
    BY <1>2, <1>3, AuditKept
<1>4. CASE torn' = torn + 1 /\ tail' = TRUE
    BY <1>1, <1>2, <1>4 DEF AuditInv
<1> QED
    BY <1>3, <1>4 DEF AuditRaises

LEMMA AuditNext == AuditInv /\ [GateNext]_gateVars => AuditInv'
<1> SUFFICES ASSUME AuditInv, [GateNext]_gateVars PROVE AuditInv'
    OBVIOUS
<1>1. CASE \E t \in Threads, r \in Requests : Egress(t, r) \/ Ingress(t, r) \/ Note(t, r)
    BY <1>1, AuditKept DEF Egress, Ingress, Note, Begin, file
<1>2. CASE \E t \in Threads : TokenEnv(t) \/ TokenVerify(t) \/ TokenTime(t)
    BY <1>2, AuditKept DEF TokenEnv, TokenVerify, TokenTime, Elsewhere, file
<1>3. CASE \E t \in Threads : Audit(t)
  <2>1. PICK t \in Threads : Audit(t)
      BY <1>3
  <2>2. CASE ~req[t].audited
      BY <2>1, <2>2, AuditKept DEF Audit, file
  <2> QED
      BY <2>1, <2>2, AuditLine
<1>4. CASE \E t \in Threads : AuditRaises(t)
    BY <1>4, AuditLost
<1>5. CASE \E t \in Threads : Return(t) \/ Die(t)
    BY <1>5, AuditKept DEF Return, Die, file
<1>6. CASE Tick \/ (\E b \in BOOLEAN : SetStrictSig(b)) \/ (\E s \in Stores : WriteStore(s))
    BY <1>6, AuditKept DEF Tick, SetStrictSig, WriteStore, file
<1>7. CASE UNCHANGED gateVars
    BY <1>7, AuditKept DEF gateVars, file
<1> QED
    BY <1>1, <1>2, <1>3, <1>4, <1>5, <1>6, <1>7 DEF GateNext

LEMMA InvAudited == AuditInv => Audited
<1> SUFFICES ASSUME AuditInv PROVE Shortfall <= torn
    BY DEF Audited, Shortfall
<1>1. Shortfall \in Nat
    BY FS_Difference, FS_CardinalityType DEF AuditInv, Shortfall
<1> QED
    BY <1>1 DEF AuditInv

\* However many threads write to the file, fail and die, no more returned decisions
\* are without a readable line than lines were cut short.
THEOREM AlwaysAudited == GateSpec => []Audited
<1>1. GateSpec => []AuditInv
    BY AuditInit, AuditNext, PTL DEF GateSpec
<1> QED
    BY <1>1, InvAudited, PTL

-----------------------------------------------------------------------------
\* The parts of a request, and of the same request in another mode.
LEMMA RequestParts ==
    ASSUME NEW r \in Requests
    PROVE  /\ r.kind \in {"call", "response", "note"}
           /\ r.mode \in Modes
           /\ r.content \subseteq Leaf
<1>1. [r EXCEPT !.content = {}] \in Request
    BY RequestAssumption
<1>2. /\ [r EXCEPT !.content = {}].kind = r.kind
      /\ [r EXCEPT !.content = {}].mode = r.mode
    BY <1>1 DEF Request
<1> QED
    BY <1>1, <1>2, RequestAssumption DEF Request

LEMMA RequestInMode ==
    ASSUME NEW r \in Requests, NEW m \in Modes
    PROVE  LET s == [r EXCEPT !.mode = m]
           IN  s.kind = r.kind /\ s.content = r.content /\ s.scope = r.scope /\ s.mode = m
<1>1. [r EXCEPT !.content = {}] \in Request
    BY RequestAssumption
<1>2. DOMAIN [r EXCEPT !.content = {}] = DOMAIN r
    OBVIOUS
<1>3. "mode" \in DOMAIN r
    BY <1>1, <1>2 DEF Request
<1> QED
    BY <1>3

\* A leaf's outermost key is among the paths egress expands.
LEMMA HeadIsRequested ==
    ASSUME NEW c \in SUBSET Leaf, NEW l \in c
    PROVE  <<Head(l.path)>> \in Requested(c)
<1>1. l.path \in Seq(Names) /\ l.path # <<>>
    BY DEF Leaf
<1>2. Len(l.path) \in Nat /\ Len(l.path) >= 1
    BY <1>1, EmptySeq, LenProperties
<1>3. l.path[1] \in Names /\ Head(l.path) = l.path[1]
    BY <1>1, <1>2, ElementOfSeq, HeadTailProperties
<1>4. SubSeq(l.path, 1, 1) = <<Head(l.path)>>
  <2>1. \A i \in 1..1 : l.path[i] \in Names
      BY <1>3
  <2>2. /\ SubSeq(l.path, 1, 1) \in Seq(Names)
        /\ Len(SubSeq(l.path, 1, 1)) = 1
        /\ SubSeq(l.path, 1, 1)[1] = l.path[1]
      BY <2>1, SubSeqProperties
  <2>3. <<Head(l.path)>> \in Seq(Names) /\ Len(<<Head(l.path)>>) = 1
      BY <1>3
  <2>4. \A i \in 1..Len(SubSeq(l.path, 1, 1)) : SubSeq(l.path, 1, 1)[i] = <<Head(l.path)>>[i]
      BY <1>3, <2>2
  <2> QED
      BY <2>2, <2>3, <2>4, SeqEqual
<1>5. <<Head(l.path)>> \in Paths(l)
  <2>1. <<Head(l.path)>> \in {SubSeq(l.path, 1, n) : n \in 1..Len(l.path)}
    <3>1. 1 \in 1..Len(l.path)
        BY <1>2
    <3> QED
        BY <1>4, <3>1
  <2> QED
      BY <2>1 DEF Paths
<1> QED
    BY <1>5 DEF Requested

\* What egress sends has its outermost key in the scope; in strict mode it has every key
\* in it, and a pattern only in a list in a list.
LEMMA EgressEnforces ==
    ASSUME NEW r \in Requests, NEW verdict, r.mode \in {"standard", "strict"},
           NEW l \in DecideEgress(r, verdict).sent
    PROVE  /\ <<Head(l.path)>> \in r.scope
           /\ r.mode = "strict" => Paths(l) \subseteq r.scope
           /\ r.mode = "strict" /\ l.pattern => l.under = "nest"
<1> DEFINE over == Requested(r.content) \ r.scope
<1>1. l \in r.content
    BY DEF DecideEgress, Allow, Refuse, TakeOut, Without
<1>2. <<Head(l.path)>> \in Requested(r.content) /\ l \in Leaf
    BY <1>1, RequestParts, HeadIsRequested
<1>3. CASE r.mode = "strict"
  <2>1. over = {} /\ Patterned(r.content) = {}
      BY <1>3 DEF DecideEgress, Refuse
  <2>2. Paths(l) \subseteq Requested(r.content)
      BY <1>1 DEF Requested
  <2> QED
      BY <1>1, <1>2, <2>1, <2>2 DEF Patterned
<1>4. CASE r.mode = "standard"
  <2>1. CASE over = {}
      BY <1>2, <1>4, <2>1
  <2>2. CASE over # {}
    <3>1. l \in Without(r.content, over)
        BY <1>4, <2>2 DEF DecideEgress, TakeOut
    <3> QED
        BY <1>2, <1>4, <3>1 DEF Without
  <2> QED
      BY <2>1, <2>2
<1> QED
    BY <1>3, <1>4

\* What ingress passes on has its outermost key in the scope, and a pattern only in a
\* list in a list or below the outermost key.
LEMMA IngressEnforces ==
    ASSUME NEW r \in Requests, r.mode \in {"standard", "strict"},
           NEW l \in DecideIngress(r).sent
    PROVE  /\ <<Head(l.path)>> \in r.scope
           /\ l.pattern => l.under = "nest" \/ Len(l.path) > 1
<1> DEFINE fields == (Returned(r.content) \ r.scope) \cup Fields(r.content)
<1>1. l \in r.content /\ <<Head(l.path)>> \notin fields
  <2>1. CASE fields = {}
      BY <2>1 DEF DecideIngress, Allow
  <2>2. CASE fields # {}
      BY <2>2 DEF DecideIngress, TakeOut, Without
  <2> QED
      BY <2>1, <2>2
<1>2. <<Head(l.path)>> \in Returned(r.content)
    BY <1>1 DEF Returned
<1>3. ASSUME l.pattern, l.under # "nest" PROVE <<Last(l.path)>> \in fields
    BY <1>1, <1>3 DEF Fields, Patterned
<1>4. l.pattern /\ l.under # "nest" => Last(l.path) # Head(l.path)
    BY <1>1, <1>3
<1>5. l.path \in Seq(Names) /\ l.path # <<>>
    BY <1>1, RequestParts DEF Leaf
<1>6. Last(l.path) # Head(l.path) => Len(l.path) > 1
    BY <1>5 DEF Last
<1> QED
    BY <1>1, <1>2, <1>4, <1>6

LEMMA InvEnforcedContent == TokenInv => EnforcedContent
<1> SUFFICES ASSUME TokenInv, NEW t \in Threads, Enforced(t), NEW l \in Outcome(t).sent
             PROVE  /\ <<Head(l.path)>> \in req[t].scope
                    /\ req[t].kind = "call" /\ req[t].mode = "strict" =>
                           /\ Paths(l) \subseteq req[t].scope
                           /\ l.pattern => l.under = "nest"
                    /\ req[t].kind = "response" /\ l.pattern =>
                           l.under = "nest" \/ Len(l.path) > 1
    BY DEF EnforcedContent
<1>1. req[t] \in Requests /\ req[t].mode \in {"standard", "strict"}
    BY DEF TokenInv, TokenKnown, Enforced, Answered
<1>2. req[t].kind \in {"call", "response"}
    BY <1>1, RequestParts DEF Enforced, Answered
<1>3. CASE req[t].kind = "call"
  <2>1. l \in DecideEgress(req[t], tok[t]).sent
      BY <1>3 DEF Outcome, Decision
  <2>2. /\ <<Head(l.path)>> \in req[t].scope
        /\ req[t].mode = "strict" => Paths(l) \subseteq req[t].scope
        /\ req[t].mode = "strict" /\ l.pattern => l.under = "nest"
      BY <1>1, <2>1, EgressEnforces
  <2>3. req[t].kind # "response"
      BY <1>3
  <2> QED
      BY <2>2, <2>3, Zenon
<1>4. CASE req[t].kind = "response"
    BY <1>1, <1>4, IngressEnforces DEF Outcome, Decision
<1> QED
    BY <1>2, <1>3, <1>4

\* For any requests and scopes: in standard and strict mode nothing under a top-level key
\* outside the task scope goes on; a strict call sends only what is in scope down to its
\* innermost key, with a pattern only in a list in a list; and what a response passes on
\* has a pattern only there or below its top-level key.
THEOREM EnforcedContentHolds == GateSpec => []EnforcedContent
<1>1. GateSpec => []TokenInv
    BY TokenInit, TokenNext, PTL DEF GateSpec
<1> QED
    BY <1>1, InvEnforcedContent, PTL

-----------------------------------------------------------------------------
LEMMA EgressTightens ==
    ASSUME NEW r, NEW s, NEW p, NEW verdict,
           r.mode = "strict", s.mode = "standard", p.mode = "permissive",
           s.content = r.content, s.scope = r.scope, p.content = r.content
    PROVE  /\ DecideEgress(r, verdict).sent \subseteq DecideEgress(s, verdict).sent
           /\ DecideEgress(s, verdict).sent \subseteq DecideEgress(p, verdict).sent
<1> DEFINE over == Requested(r.content) \ r.scope
<1>1. DecideEgress(r, verdict).sent \subseteq IF over = {} THEN r.content ELSE {}
    BY DEF DecideEgress, Allow, Refuse
<1>2. DecideEgress(s, verdict).sent
        = IF over = {} THEN r.content ELSE Without(r.content, over)
    BY DEF DecideEgress, Allow, TakeOut
<1>3. DecideEgress(p, verdict).sent = r.content
    BY DEF DecideEgress, Allow
<1>4. Without(r.content, over) \subseteq r.content
    BY DEF Without
<1> QED
    BY <1>1, <1>2, <1>3, <1>4

LEMMA IngressTightens ==
    ASSUME NEW r, NEW s, NEW p,
           r.mode = "strict", s.mode = "standard", p.mode = "permissive",
           s.content = r.content, s.scope = r.scope, p.content = r.content
    PROVE  /\ DecideIngress(r).sent \subseteq DecideIngress(s).sent
           /\ DecideIngress(s).sent \subseteq DecideIngress(p).sent
<1> DEFINE fields == (Returned(r.content) \ r.scope) \cup Fields(r.content)
<1>1. DecideIngress(r).sent = IF fields = {} THEN r.content ELSE Without(r.content, fields)
    BY DEF DecideIngress, Allow, TakeOut
<1>2. DecideIngress(s).sent = IF fields = {} THEN r.content ELSE Without(r.content, fields)
    BY DEF DecideIngress, Allow, TakeOut
<1>3. DecideIngress(p).sent = r.content
    BY DEF DecideIngress, Allow
<1> QED
    BY <1>1, <1>2, <1>3 DEF Without

LEMMA InvTighterPassesNoMore == TokenInv => TighterPassesNoMore
<1> SUFFICES ASSUME TokenInv, NEW t \in Threads, Answered(t)
             PROVE  LET Sent(m) == Decision([req[t] EXCEPT !.mode = m], tok[t]).sent
                    IN  /\ Sent("strict") \subseteq Sent("standard")
                        /\ Sent("standard") \subseteq Sent("permissive")
    BY DEF TighterPassesNoMore
<1> DEFINE r == [req[t] EXCEPT !.mode = "strict"]
           s == [req[t] EXCEPT !.mode = "standard"]
           p == [req[t] EXCEPT !.mode = "permissive"]
<1>1. req[t] \in Requests
    BY DEF TokenInv, TokenKnown, Answered
<1>2. req[t].kind \in {"call", "response"}
    BY <1>1, RequestParts DEF Answered
<1>3. /\ r.kind = req[t].kind /\ r.mode = "strict"
      /\ s.kind = req[t].kind /\ s.mode = "standard"
      /\ p.kind = req[t].kind /\ p.mode = "permissive"
      /\ s.content = r.content /\ s.scope = r.scope /\ p.content = r.content
    BY <1>1, RequestInMode DEF Modes
<1> HIDE DEF r, s, p
<1>4. /\ Decision(r, tok[t]).sent \subseteq Decision(s, tok[t]).sent
      /\ Decision(s, tok[t]).sent \subseteq Decision(p, tok[t]).sent
  <2>1. CASE req[t].kind = "call"
      BY <1>3, <2>1, EgressTightens DEF Decision
  <2>2. CASE req[t].kind = "response"
      BY <1>3, <2>2, IngressTightens DEF Decision
  <2> QED
      BY <1>2, <2>1, <2>2
<1> QED
    BY <1>4 DEF r, s, p

\* For any request, a tighter mode sends or passes on no leaf a laxer one takes out.
THEOREM TighterNeverPassesMore == GateSpec => []TighterPassesNoMore
<1>1. GateSpec => []TokenInv
    BY TokenInit, TokenNext, PTL DEF GateSpec
<1> QED
    BY <1>1, InvTighterPassesNoMore, PTL

-----------------------------------------------------------------------------
\* A request in progress has a number, and a line of the file is of a request begun.
Numbered ==
    /\ id \in [Threads -> Nat]
    /\ \A t \in Threads : gpc[t] # "idle" => id[t] # 0

TypeInv == TokenInv /\ Numbered /\ GateTypeOK

\* A thread whose request is not touched keeps its part of the type invariant.
TypedThread(t) ==
    /\ req[t] \in Requests \cup {Nothing}
    /\ (req[t] = Nothing) <=> (gpc[t] = "idle")
    /\ id[t] \in 0..begun
    /\ tok[t] \in {"none", "ok", "bad"}
    /\ gpc[t] \in {"env", "verify", "time"} => req[t].token # Nothing /\ tok[t] = "none"
    /\ gpc[t] = "done" /\ req[t].audited => id[t] \in returned
    /\ gpc[t] # "idle" => id[t] # 0

TypedRest ==
    /\ now \in 0..MaxTime /\ strictSig \in BOOLEAN /\ trust \in Stores
    /\ lines \subseteq 1..begun /\ tail \in BOOLEAN
    /\ begun \in 0..MaxCalls /\ torn \in 0..MaxTorn
    /\ returned \subseteq 1..begun
    /\ id \in [Threads -> Nat]

LEMMA TypeInvByThread == TypeInv <=> TokenInv /\ TypedRest /\ \A t \in Threads : TypedThread(t)
BY DEF TypeInv, TokenInv, GateTypes, Numbered, GateTypeOK, TypedThread, TypedRest

LEMMA TypedKept ==
    ASSUME NEW t \in Threads, TypedThread(t), TypedRest, begun' \in Nat, begun <= begun',
           returned \subseteq returned',
           gpc'[t] = gpc[t], req'[t] = req[t], id'[t] = id[t], tok'[t] = tok[t]
    PROVE  TypedThread(t)'
<1>1. id[t] \in 0..begun'
    BY DEF TypedThread, TypedRest
<1> QED
    BY <1>1 DEF TypedThread

LEMMA TypeInit == GateInit => TypeInv
<1> SUFFICES ASSUME GateInit PROVE TypeInv
    OBVIOUS
<1>1. TypedRest
  <2>1. now \in 0..MaxTime /\ begun \in 0..MaxCalls /\ torn \in 0..MaxTorn
      BY GateBoundsAssumption DEF GateInit
  <2>2. lines \subseteq 1..begun /\ returned \subseteq 1..begun
      BY DEF GateInit
  <2>3. strictSig \in BOOLEAN /\ trust \in Stores /\ tail \in BOOLEAN /\ id \in [Threads -> Nat]
      BY DEF GateInit
  <2> QED
      BY <2>1, <2>2, <2>3 DEF TypedRest
<1>2. \A t \in Threads : TypedThread(t)
    BY DEF GateInit, TypedThread
<1> QED
    BY <1>1, <1>2, TokenInit, TypeInvByThread

LEMMA BeginKeepsTypes ==
    ASSUME TokenInv, TypedRest, \A u \in Threads : TypedThread(u),
           NEW t \in Threads, NEW r \in Requests, Begin(t, r)
    PROVE  TypedRest' /\ \A u \in Threads : TypedThread(u)'
<1> USE DEF TokenInv, GateTypes
<1>1. /\ begun' = begun + 1 /\ begun' \in 0..MaxCalls
      /\ UNCHANGED <<now, strictSig, trust, lines, tail, torn, returned, tok>>
    BY GateBoundsAssumption DEF Begin, TypedRest, env, file
<1>2. id' = [id EXCEPT ![t] = begun'] /\ id' \in [Threads -> Nat]
    BY <1>1 DEF Begin, TypedRest
<1>3. TypedRest'
    BY <1>1, <1>2 DEF TypedRest
<1>4. ASSUME NEW u \in Threads, u # t PROVE TypedThread(u)'
  <2>1. gpc'[u] = gpc[u] /\ req'[u] = req[u] /\ id'[u] = id[u] /\ tok'[u] = tok[u]
      BY <1>1, <1>2, <1>4 DEF Begin, Moves, TypedRest
  <2> QED
      BY <1>1, <2>1, TypedKept DEF TypedRest
<1>5. TypedThread(t)'
  <2>1. req'[t] = r /\ r # Nothing /\ id'[t] = begun' /\ tok'[t] = "none"
      BY <1>1, <1>2, NothingAssumption DEF Begin, Moves, TypedRest
  <2>2. gpc'[t] = IF HasToken(r) THEN "env" ELSE "audit"
      BY DEF Begin, Moves
  <2>3. id'[t] \in 0..begun' /\ id'[t] # 0
      BY <1>1, <2>1 DEF TypedRest
  <2> QED
      BY <2>1, <2>2, <2>3 DEF TypedThread, HasToken
<1> QED
    BY <1>3, <1>4, <1>5

LEMMA ResetKeepsTypes ==
    ASSUME TokenInv, TypedRest, \A u \in Threads : TypedThread(u),
           NEW t \in Threads, Reset(t), UNCHANGED <<env, lines, id, begun, returned>>,
           tail' \in BOOLEAN, torn' \in 0..MaxTorn
    PROVE  TypedRest' /\ \A u \in Threads : TypedThread(u)'
<1> USE DEF TokenInv, GateTypes
<1>1. TypedRest'
    BY DEF TypedRest, env
<1>2. ASSUME NEW u \in Threads, u # t PROVE TypedThread(u)'
    BY <1>2, TypedKept DEF Reset, TypedRest
<1>3. TypedThread(t)'
    BY DEF Reset, TypedThread
<1> QED
    BY <1>1, <1>2, <1>3

LEMMA StepKeepsTypes ==
    ASSUME TokenInv, TypedRest, \A u \in Threads : TypedThread(u),
           NEW t \in Threads, TokenEnv(t) \/ TokenVerify(t) \/ TokenTime(t) \/ Audit(t)
    PROVE  TypedRest' /\ \A u \in Threads : TypedThread(u)'
<1> USE DEF TokenInv, GateTypes
<1>1. /\ UNCHANGED <<now, strictSig, trust, req, id, begun, torn>>
      /\ gpc[t] # "idle" /\ gpc'[t] # "idle"
      /\ \A u \in Threads \ {t} : gpc'[u] = gpc[u] /\ tok'[u] = tok[u]
      /\ tok'[t] \in {"none", "ok", "bad"}
      /\ gpc'[t] \in {"env", "verify", "time"} =>
             gpc[t] \in {"env", "verify", "time"} /\ tok'[t] = tok[t]
    BY DEF TokenEnv, TokenVerify, TokenTime, Audit, Moves, Judge, Elsewhere, env, seen
<1>2. id[t] \in 1..begun
    BY <1>1 DEF TypedThread, TypedRest
<1>3. /\ lines' \subseteq 1..begun /\ tail' \in BOOLEAN
      /\ returned' \subseteq 1..begun /\ returned \subseteq returned'
      /\ gpc'[t] = "done" /\ req[t].audited => id[t] \in returned'
  <2>1. CASE UNCHANGED <<lines, tail, returned>> /\ ~(gpc'[t] = "done" /\ req[t].audited)
      BY <2>1 DEF TypedRest
  <2>2. CASE Audit(t) /\ req[t].audited
    <3>1. /\ lines' \subseteq lines \cup {id[t]} /\ tail' = FALSE
          /\ returned' = returned \cup {id[t]}
        BY <2>2 DEF Audit
    <3> QED
        BY <1>2, <3>1 DEF TypedRest
  <2>3. CASE Audit(t) /\ ~req[t].audited
      BY <2>1, <2>3 DEF Audit, file
  <2>4. CASE TokenEnv(t) \/ TokenVerify(t) \/ TokenTime(t)
      BY <2>1, <2>4 DEF TokenEnv, TokenVerify, TokenTime, Moves, Elsewhere, file
  <2> QED
      BY <2>2, <2>3, <2>4
<1>4. TypedRest'
    BY <1>1, <1>3 DEF TypedRest
<1>5. ASSUME NEW u \in Threads, u # t PROVE TypedThread(u)'
    BY <1>1, <1>3, <1>5, TypedKept DEF TypedRest
<1>6. TypedThread(t)'
    BY <1>1, <1>2, <1>3 DEF TypedThread
<1> QED
    BY <1>4, <1>5, <1>6

LEMMA WorldKeepsTypes ==
    ASSUME TypedRest, \A u \in Threads : TypedThread(u),
           \/ Tick
           \/ \E b \in BOOLEAN : SetStrictSig(b)
           \/ \E s \in Stores : WriteStore(s)
    PROVE  TypedRest' /\ \A u \in Threads : TypedThread(u)'
<1>1. /\ UNCHANGED <<lines, tail, gpc, req, id, tok, begun, returned, torn>>
      /\ now' \in 0..MaxTime /\ strictSig' \in BOOLEAN /\ trust' \in Stores
    BY GateBoundsAssumption DEF Tick, SetStrictSig, WriteStore, file, TypedRest
<1> QED
    BY <1>1 DEF TypedRest, TypedThread

LEMMA TypeNext == TypeInv /\ [GateNext]_gateVars => TypeInv'
<1> SUFFICES ASSUME TypeInv, [GateNext]_gateVars PROVE TypeInv'
    OBVIOUS
<1>1. TokenInv /\ TokenInv' /\ TypedRest /\ \A u \in Threads : TypedThread(u)
    BY TypeInvByThread, TokenNext
<1> SUFFICES TypedRest' /\ \A u \in Threads : TypedThread(u)'
  <2>1. TypeInv' <=> TokenInv' /\ TypedRest' /\ \A t \in Threads : TypedThread(t)'
      BY DEF TypeInv, TokenInv, GateTypes, Numbered, GateTypeOK, TypedThread, TypedRest
  <2> QED
      BY <1>1, <2>1
<1>2. CASE \E t \in Threads, r \in Requests : Egress(t, r) \/ Ingress(t, r) \/ Note(t, r)
    BY <1>1, <1>2, BeginKeepsTypes DEF Egress, Ingress, Note
<1>3. CASE \E t \in Threads : TokenEnv(t) \/ TokenVerify(t) \/ TokenTime(t) \/ Audit(t)
    BY <1>1, <1>3, StepKeepsTypes
<1>4. CASE \E t \in Threads : Return(t) \/ Die(t)
  <2>1. PICK t \in Threads : /\ Reset(t) /\ UNCHANGED <<env, lines, id, begun, returned>>
                             /\ UNCHANGED <<tail, torn>>
      BY <1>4 DEF Return, Die, file
  <2> QED
      BY <1>1, <2>1, ResetKeepsTypes DEF TypedRest
<1>5. CASE \E t \in Threads : AuditRaises(t)
  <2>1. PICK t \in Threads : AuditRaises(t)
      BY <1>5
  <2>2. tail' \in BOOLEAN /\ torn' \in 0..MaxTorn
    <3>1. CASE UNCHANGED <<tail, torn>>
        BY <1>1, <3>1 DEF TypedRest
    <3>2. CASE torn < MaxTorn /\ torn' = torn + 1 /\ tail' = TRUE
        BY <1>1, <3>2, GateBoundsAssumption DEF TypedRest
    <3> QED
        BY <2>1, <3>1, <3>2 DEF AuditRaises
  <2> QED
      BY <1>1, <2>1, <2>2, ResetKeepsTypes DEF AuditRaises
<1>6. CASE Tick \/ (\E b \in BOOLEAN : SetStrictSig(b)) \/ (\E s \in Stores : WriteStore(s))
    BY <1>1, <1>6, WorldKeepsTypes
<1>7. CASE UNCHANGED gateVars
    BY <1>1, <1>7 DEF gateVars, env, file, TypedRest, TypedThread
<1> QED
    BY <1>2, <1>3, <1>4, <1>5, <1>6, <1>7 DEF GateNext

\* The gate's variables keep their types: a step that waits for a look at a token has
\* one and no verdict, and a line or a returned decision is of a request begun.
THEOREM GateAlwaysTyped == GateSpec => []GateTypeOK
<1>1. TypeInv => GateTypeOK
    BY DEF TypeInv
<1> QED
    BY <1>1, TypeInit, TypeNext, PTL DEF GateSpec
=============================================================================
