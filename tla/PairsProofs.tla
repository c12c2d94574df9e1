---------------------------- MODULE PairsProofs ----------------------------
(***************************************************************************)
(* Sweeps of any number of processes, with ingests, releases and restarts   *)
(* between their steps, leave the memory as its classification promises.    *)
(***************************************************************************)
EXTENDS Pairs, TLAPS

\* What a pair can be: as it was before there was a classification, or classified.
Forms == {Unclassified(x) : x \in Texts}
            \cup {Classified(x, v, raising) : x \in Texts, v \in Releases, raising \in Failures}

Types ==
    /\ memory \in [Ids -> Forms]
    /\ release \in Releases
    /\ rules \in [Hosts -> Releases]
    /\ sweep \in [Hosts -> {"idle", "sweeping", "swept"}]
    /\ todo \in [Hosts -> SUBSET [id : Ids, pair : Forms]]
    /\ wrote \in [Ids -> Texts]
    /\ overlapped \in [Ids -> BOOLEAN]
    /\ disturbed \in [Hosts -> BOOLEAN]

\* A sweep that nobody with other rules has disturbed leaves behind only what it still
\* has to do: a pair that is not at its version is one it has listed to rewrite.
SweepSound(h) ==
    /\ sweep[h] = "swept" => todo[h] = {}
    /\ sweep[h] # "idle" /\ ~disturbed[h] =>
          \A i \in Ids : \/ memory[i].version = rules[h]
                         \/ \E e \in todo[h] : e.id = i /\ ~Current(h, e)

\* What a sweep has listed to rewrite is what was ingested last, unless it was
\* ingested again since.
ListedKept(h) ==
    \A e \in todo[h] :
        ~Current(h, e) => e.pair.text = wrote[e.id] \/ overlapped[e.id]

PairsInv ==
    /\ Types
    /\ \A h \in Hosts : SweepSound(h) /\ ListedKept(h)
    /\ IngestKept

-----------------------------------------------------------------------------
(* What a classification is. *)

LEMMA FormFields ==
    ASSUME NEW x \in Texts, NEW v, NEW raising
    PROVE  /\ Unclassified(x).text = x /\ Unclassified(x).version = 0
           /\ Classified(x, v, raising).text = x /\ Classified(x, v, raising).version = v
BY DEF Unclassified, Classified

LEMMA FormText == \A p \in Forms : p.text \in Texts
BY FormFields DEF Forms

LEMMA FormClassified ==
    ASSUME NEW x \in Texts, NEW v \in Releases, NEW raising \in Failures
    PROVE  Classified(x, v, raising) \in Forms
BY DEF Forms

\* Neither way of scrubbing a word lets through what the rules refuse.
LEMMA NotRefused ==
    ASSUME NEW word \in Words, NEW v \in Releases, NEW raises \in BOOLEAN
    PROVE  /\ ~Refused(v, LockString(v, word, raises))
           /\ ~Refused(v, Scrub(v, word, raises))
BY DEF Refused, LockString, Scrub, Words, Releases

LEMMA ClassifiedObeys ==
    ASSUME NEW x \in Texts, NEW v \in Releases, NEW raising
    PROVE  LET p == Classified(x, v, raising) IN
           /\ \A s \in Scrubbed : ~Refused(v, p.fingerprint[s])
           /\ \A s \in Tripled : ~Refused(v, p.triples[s])
<1> DEFINE p == Classified(x, v, raising)
<1>1. \A s \in PairSlots : x[s] \in Words
    BY TextsAssumption
<1>2. ASSUME NEW s \in Scrubbed PROVE ~Refused(v, p.fingerprint[s])
  <2> DEFINE raises == <<"fingerprint", s>> \in raising
  <2>1. /\ s = "summary" => p.fingerprint[s] = LockString(v, x[s], raises)
        /\ s = "facet" => p.fingerprint[s] = Scrub(v, x[s], raises)
      BY DEF Classified, Scrubbed, Raw
  <2>2. x[s] \in Words /\ raises \in BOOLEAN
      BY <1>1 DEF Scrubbed, PairSlots
  <2> HIDE DEF p, raises
  <2> QED
      BY <2>1, <2>2, NotRefused DEF Scrubbed
<1>3. ASSUME NEW s \in Tripled PROVE ~Refused(v, p.triples[s])
  <2> DEFINE raises == <<"triples", s>> \in raising
  <2>1. p.triples[s] = Scrub(v, x[s], raises)
      BY DEF Classified
  <2>2. x[s] \in Words /\ raises \in BOOLEAN
      BY <1>1 DEF Tripled, PairSlots
  <2> HIDE DEF p, raises
  <2> QED
      BY <2>1, <2>2, NotRefused
<1> QED
    BY <1>2, <1>3

LEMMA InvCleanObeysRules == PairsInv => CleanObeysRules
<1> SUFFICES ASSUME PairsInv, NEW i \in Ids, memory[i].version > 0
             PROVE  /\ \A s \in Scrubbed : ~Refused(memory[i].version, memory[i].fingerprint[s])
                    /\ \A s \in Tripled : ~Refused(memory[i].version, memory[i].triples[s])
    BY DEF CleanObeysRules
<1>1. PICK x \in Texts, v \in Releases, raising \in Failures :
            memory[i] = Classified(x, v, raising)
    BY FormFields DEF PairsInv, Types, Forms
<1> QED
    BY <1>1, FormFields, ClassifiedObeys

LEMMA InvSweepLeavesNoneBehind == PairsInv => SweepLeavesNoneBehind
BY DEF PairsInv, SweepSound, SweepLeavesNoneBehind

-----------------------------------------------------------------------------
LEMMA PairsInvInit == PairsInit => PairsInv
<1> SUFFICES ASSUME PairsInit PROVE PairsInv
    OBVIOUS
<1>1. PICK texts \in [Ids -> Texts] :
            /\ memory = [i \in Ids |-> Unclassified(texts[i])]
            /\ wrote = texts
    BY DEF PairsInit
<1>2. memory \in [Ids -> Forms]
    BY <1>1 DEF Forms
<1>3. Types
    BY <1>1, <1>2, BoundsAssumption DEF PairsInit, Types, Releases
<1>4. IngestKept
    BY <1>1, FormFields DEF IngestKept
<1>5. \A h \in Hosts : SweepSound(h) /\ ListedKept(h)
    BY DEF PairsInit, SweepSound, ListedKept
<1> QED
    BY <1>3, <1>4, <1>5 DEF PairsInv

LEMMA IngestKeeps ==
    ASSUME PairsInv, NEW h \in Hosts, NEW i \in Ids, NEW x \in Texts,
           NEW raising \in Failures, Ingest(h, i, x, raising)
    PROVE  PairsInv'
<1> USE DEF PairsInv, Ingest
<1>0. /\ Classified(x, rules[h], raising) \in Forms
      /\ Classified(x, rules[h], raising).version = rules[h]
      /\ Classified(x, rules[h], raising).text = x
    BY FormClassified, FormFields DEF Types
<1>1. Types'
    BY <1>0 DEF Types, Disturb
<1>2. ASSUME NEW g \in Hosts PROVE SweepSound(g)'
    BY <1>0 DEF Types, Disturb, SweepSound, Current
<1>3. ASSUME NEW g \in Hosts PROVE ListedKept(g)'
    BY DEF Types, ListedKept, Current
<1>4. IngestKept'
    BY <1>0 DEF Types, IngestKept
<1> QED
    BY <1>1, <1>2, <1>3, <1>4

LEMMA SweepListKeeps ==
    ASSUME PairsInv, NEW h \in Hosts, SweepList(h)
    PROVE  PairsInv'
<1> USE DEF PairsInv, SweepList, history
<1>1. Types'
    BY DEF Types
<1>2. ASSUME NEW g \in Hosts PROVE SweepSound(g)'
  <2>1. CASE g # h
      BY <2>1 DEF Types, SweepSound, Current
  <2>2. CASE g = h
    <3>1. sweep'[h] = "sweeping" /\ todo'[h] = {[id |-> i, pair |-> memory[i]] : i \in Ids}
        BY DEF Types
    <3>2. ASSUME NEW i \in Ids, memory[i].version # rules[h]
          PROVE  \E e \in todo'[h] : e.id = i /\ e.pair.version # rules[h]
      <4>1. [id |-> i, pair |-> memory[i]] \in todo'[h]
          BY <3>1
      <4> QED
          BY <3>2, <4>1
    <3> QED
        BY <2>2, <3>1, <3>2 DEF SweepSound, Current
  <2> QED
      BY <2>1, <2>2
<1>3. ASSUME NEW g \in Hosts PROVE ListedKept(g)'
    BY DEF Types, ListedKept, Current, IngestKept
<1>4. IngestKept'
    BY DEF IngestKept
<1> QED
    BY <1>1, <1>2, <1>3, <1>4

LEMMA SweepSkipKeeps ==
    ASSUME PairsInv, NEW h \in Hosts, NEW e \in todo[h], SweepSkip(h, e)
    PROVE  PairsInv'
<1> USE DEF PairsInv, SweepSkip, history
<1>1. Types'
    BY DEF Types
<1>2. ASSUME NEW g \in Hosts PROVE SweepSound(g)'
    BY DEF Types, SweepSound, Current
<1>3. ASSUME NEW g \in Hosts PROVE ListedKept(g)'
    BY DEF Types, ListedKept, Current
<1>4. IngestKept'
    BY DEF IngestKept
<1> QED
    BY <1>1, <1>2, <1>3, <1>4

LEMMA SweepRewriteKeeps ==
    ASSUME PairsInv, NEW h \in Hosts, NEW e \in todo[h], NEW raising \in Failures,
           SweepRewrite(h, e, raising)
    PROVE  PairsInv'
<1> USE DEF PairsInv, SweepRewrite, history
<1>0. /\ e.id \in Ids /\ e.pair.text \in Texts
      /\ Classified(e.pair.text, rules[h], raising) \in Forms
      /\ Classified(e.pair.text, rules[h], raising).version = rules[h]
      /\ Classified(e.pair.text, rules[h], raising).text = e.pair.text
    BY FormText, FormClassified, FormFields DEF Types
<1>1. Types'
    BY <1>0 DEF Types, Disturb
<1>2. ASSUME NEW g \in Hosts PROVE SweepSound(g)'
    BY <1>0 DEF Types, Disturb, SweepSound, Current
<1>3. ASSUME NEW g \in Hosts PROVE ListedKept(g)'
    BY DEF Types, ListedKept, Current
<1>4. IngestKept'
    BY <1>0 DEF Types, IngestKept, ListedKept
<1> QED
    BY <1>1, <1>2, <1>3, <1>4

LEMMA SweepEndKeeps ==
    ASSUME PairsInv, NEW h \in Hosts, SweepReturn(h) \/ Restart(h)
    PROVE  PairsInv'
<1> USE DEF PairsInv, SweepReturn, Restart, history
<1>1. Types'
    BY DEF Types
<1>2. ASSUME NEW g \in Hosts PROVE SweepSound(g)'
    BY DEF Types, SweepSound, Current
<1>3. ASSUME NEW g \in Hosts PROVE ListedKept(g)'
    BY DEF Types, ListedKept, Current
<1>4. IngestKept'
    BY DEF IngestKept
<1> QED
    BY <1>1, <1>2, <1>3, <1>4

LEMMA ReleaseKeeps == ASSUME PairsInv, Release PROVE PairsInv'
<1> USE DEF PairsInv, Release, history
<1>1. Types'
    BY BoundsAssumption DEF Types, Releases
<1>2. \A g \in Hosts : SweepSound(g)' /\ ListedKept(g)'
    BY DEF SweepSound, ListedKept, Current
<1> QED
    BY <1>1, <1>2 DEF IngestKept

LEMMA PairsInvNext == PairsInv /\ [PairsNext]_pairsVars => PairsInv'
<1> SUFFICES ASSUME PairsInv, [PairsNext]_pairsVars PROVE PairsInv'
    OBVIOUS
<1>1. CASE UNCHANGED pairsVars
    BY <1>1 DEF pairsVars, history, PairsInv, Types, SweepSound, ListedKept, IngestKept, Current
<1> QED
    BY <1>1, IngestKeeps, SweepListKeeps, SweepSkipKeeps, SweepRewriteKeeps, SweepEndKeeps,
       ReleaseKeeps DEF PairsNext

LEMMA PairsAlways == PairsSpec => []PairsInv
<1> QED
    BY PairsInvInit, PairsInvNext, PTL DEF PairsSpec

-----------------------------------------------------------------------------
\* Whatever a pair says and wherever lock_text raises, what is scrubbed of it has
\* nothing that the rules of its version refuse.
THEOREM CleanAlwaysObeys == PairsSpec => []CleanObeysRules
<1> QED
    BY PairsAlways, InvCleanObeysRules, PTL

\* With any number of processes sweeping, ingesting, being replaced and dying, a
\* sweep that returns undisturbed by other rules leaves every pair at its version.
THEOREM SweepsLeaveNoneBehind == PairsSpec => []SweepLeavesNoneBehind
<1> QED
    BY PairsAlways, InvSweepLeavesNoneBehind, PTL

\* A sweep takes an ingest back only where it had listed the pair to rewrite it,
\* however many sweeps overlap with it.
THEOREM IngestsKept == PairsSpec => []IngestKept
<1>1. PairsInv => IngestKept
    BY DEF PairsInv
<1> QED
    BY <1>1, PairsAlways, PTL

-----------------------------------------------------------------------------
(* The types, with what a process holds by where it is. *)

LEMMA ScrubIsClean ==
    ASSUME NEW word \in Words, NEW v \in Releases, NEW raises \in BOOLEAN
    PROVE  LockString(v, word, raises) \in Cleaned /\ Scrub(v, word, raises) \in Cleaned
BY DEF LockString, Scrub, Refused, Words, Releases, Cleaned

LEMMA FormsArePairs == Forms \subseteq Pair
<1>1. ASSUME NEW x \in Texts PROVE Unclassified(x) \in Pair
    BY DEF Unclassified, Pair, Cleaned, Words
<1>2. ASSUME NEW x \in Texts, NEW v \in Releases, NEW raising \in Failures
      PROVE  Classified(x, v, raising) \in Pair
  <2>1. \A s \in PairSlots : x[s] \in Words
      BY TextsAssumption
  <2>2. \A s \in PairSlots : x[s] \in Cleaned
      BY <2>1 DEF Cleaned
  <2>3. \A s \in PairSlots : \A raises \in BOOLEAN :
            LockString(v, x[s], raises) \in Cleaned /\ Scrub(v, x[s], raises) \in Cleaned
      BY <2>1, ScrubIsClean
  <2>4. Classified(x, v, raising).fingerprint \in [Scrubbed \cup Raw -> Cleaned]
    <3> DEFINE f == Classified(x, v, raising).fingerprint
    <3>1. f = [s \in Scrubbed \cup Raw |->
                LET raises == <<"fingerprint", s>> \in raising
                IN  CASE s \in Raw     -> x[s]
                      [] s = "summary" -> LockString(v, x[s], raises)
                      [] s = "facet"   -> Scrub(v, x[s], raises)]
        BY DEF Classified
    <3>2. ASSUME NEW s \in Scrubbed \cup Raw PROVE f[s] \in Cleaned
      <4> DEFINE raises == <<"fingerprint", s>> \in raising
      <4>1. /\ s \in Raw => f[s] = x[s]
            /\ s = "summary" => f[s] = LockString(v, x[s], raises)
            /\ s = "facet" => f[s] = Scrub(v, x[s], raises)
          BY DEF Classified, Scrubbed, Raw
      <4>2. s \in PairSlots /\ (s \in Raw \/ s = "summary" \/ s = "facet")
          BY DEF Scrubbed, Raw, PairSlots
      <4>3. raises \in BOOLEAN
          OBVIOUS
      <4> HIDE DEF f, raises
      <4> QED
          BY <2>2, <2>3, <4>1, <4>2, <4>3
    <3> QED
        BY <3>1, <3>2
  <2>5. Classified(x, v, raising).triples \in [Tripled -> Cleaned]
    <3>1. Tripled \subseteq PairSlots
        BY DEF Tripled, PairSlots
    <3>2. ASSUME NEW s \in Tripled
          PROVE  Scrub(v, x[s], <<"triples", s>> \in raising) \in Cleaned
      <4> DEFINE raises == <<"triples", s>> \in raising
      <4>1. raises \in BOOLEAN
          OBVIOUS
      <4> HIDE DEF raises
      <4>2. Scrub(v, x[s], raises) \in Cleaned
          BY <2>3, <3>1, <4>1
      <4> QED
          BY <4>2 DEF raises
    <3>3. Classified(x, v, raising).triples
            = [s \in Tripled |-> Scrub(v, x[s], <<"triples", s>> \in raising)]
        BY DEF Classified
    <3> QED
        BY <3>2, <3>3
  <2>6. Classified(x, v, raising)
            = [text |-> x, version |-> v,
               fingerprint |-> Classified(x, v, raising).fingerprint,
               triples |-> Classified(x, v, raising).triples]
      BY DEF Classified
  <2> QED
      BY <2>4, <2>5, <2>6 DEF Pair
<1> QED
    BY <1>1, <1>2 DEF Forms

\* No process runs with rules that are not out yet, and what is listed is listed once,
\* by a sweep that goes on.
Bounded ==
    /\ ingests \in 0..MaxIngests
    /\ \A h \in Hosts : /\ rules[h] <= release
                        /\ todo[h] # {} => sweep[h] = "sweeping"
                        /\ \A e, f \in todo[h] : e.id = f.id => e = f

LEMMA BoundedNext ==
    ASSUME Types, Bounded, [PairsNext]_pairsVars
    PROVE  Bounded'
<1> USE DEF Types, Bounded, history
<1>1. ASSUME NEW h \in Hosts, NEW i \in Ids, NEW x \in Texts, NEW raising \in Failures,
             Ingest(h, i, x, raising)
      PROVE  Bounded'
  <2>1. ingests' \in 0..MaxIngests
      BY <1>1, BoundsAssumption DEF Ingest
  <2> QED
      BY <1>1, <2>1 DEF Ingest
<1>2. ASSUME NEW h \in Hosts, SweepList(h) PROVE Bounded'
  <2>1. \A e, f \in {[id |-> i, pair |-> memory[i]] : i \in Ids} : e.id = f.id => e = f
      OBVIOUS
  <2> QED
      BY <1>2, <2>1 DEF SweepList
<1>3. ASSUME NEW h \in Hosts, SweepReturn(h) PROVE Bounded'
    BY <1>3 DEF SweepReturn
<1>4. ASSUME NEW h \in Hosts, Restart(h) PROVE Bounded'
    BY <1>4 DEF Restart, Releases
<1>5. ASSUME NEW h \in Hosts, NEW e \in todo[h],
             SweepSkip(h, e) \/ \E raising \in Failures : SweepRewrite(h, e, raising)
      PROVE  Bounded'
    BY <1>5 DEF SweepSkip, SweepRewrite
<1>6. CASE Release
    BY <1>6, BoundsAssumption DEF Release, Releases
<1>7. CASE UNCHANGED pairsVars
    BY <1>7 DEF pairsVars
<1> QED
    BY <1>1, <1>2, <1>3, <1>4, <1>5, <1>6, <1>7 DEF PairsNext

\* The memory holds pairs, each classified whole or not at all; and no process is
\* ahead of the rules that are out.
THEOREM PairsAlwaysTyped == PairsSpec => []PairsTypeOK
<1>1. PairsInit => Bounded
    BY BoundsAssumption DEF PairsInit, Bounded
<1>2. PairsInv => Types
    BY DEF PairsInv
<1>3. Types /\ Bounded => PairsTypeOK
    BY FormsArePairs DEF Types, Bounded, PairsTypeOK, Listed
<1>4. Types /\ Bounded /\ [PairsNext]_pairsVars => Bounded'
    BY BoundedNext
<1> QED
    BY <1>1, <1>2, <1>3, <1>4, PairsAlways, PTL DEF PairsSpec
=============================================================================
