----------------------------- MODULE PolicyProofs ---------------------------
(***************************************************************************)
(* What establish_keys() promises, for any risk tables and however the     *)
(* availability of the post-quantum sources changes during the call.       *)
(*                                                                         *)
(* The table, like what is available, may be another at every candidate    *)
(* decide() looks at.  Once one is chosen it is not read again, so that    *)
(* what made the candidate acceptable still holds of the keys.  Of the     *)
(* candidates passed over the invariant remembers that each was, when it   *)
(* was looked at, unavailable or not acceptable.                           *)
(***************************************************************************)
EXTENDS Policy, SequenceTheorems, TLAPS

\* The candidates before k were of no use when they were looked at.
PassedOver(k) == \A i \in 1..(k - 1) : Candidates[cons][i] \notin open

\* Nothing is chosen yet.
SearchInv ==
  pc \in {"new", "ready", "refused", "deciding", "hard_stop"} =>
    /\ keys = <<>>
    /\ PassedOver(next)
    /\ pc = "hard_stop" => next = Len(Candidates[cons]) + 1

\* A candidate is chosen, and keys are those of its sources so far.
ChoiceInv ==
  pc \in {"generating", "done", "unavailable"} =>
    /\ chosen \in ProfileId
    /\ Acceptable(chosen)
    /\ \E k \in 1..Len(Candidates[cons]) : chosen = Candidates[cons][k] /\ PassedOver(k)
    /\ ~degraded => chosen = Candidates[cons][1] /\ ~Mixed(chosen)
    /\ pc = "generating" => Len(keys) < Len(Sources[chosen])
    /\ pc = "done" => Len(keys) = Len(Sources[chosen])
    /\ Len(keys) <= Len(Sources[chosen])
    /\ \A i \in 1..Len(keys) : keys[i] = Sources[chosen][i]

PInv == TypeOK /\ SearchInv /\ ChoiceInv

-----------------------------------------------------------------------------
\* The registry: one or two sources each, of the known algorithms.
LEMMA SourcesType ==
  ASSUME NEW p \in ProfileId
  PROVE  /\ Sources[p] \in Seq(Alg) /\ Len(Sources[p]) \in 1..2
         /\ Algs(p) \subseteq Alg
<1>1. Sources[p] \in Seq(Alg) /\ Len(Sources[p]) \in 1..2
  <2>1. CASE p = "classical_only"   BY <2>1 DEF Sources, Alg
  <2>2. CASE p = "hybrid_standard"  BY <2>2 DEF Sources, Alg, Pqc
  <2>3. CASE p = "hybrid_high"      BY <2>3 DEF Sources, Alg, Pqc
  <2> QED  BY <2>1, <2>2, <2>3 DEF ProfileId
<1> QED  BY <1>1 DEF Algs

\* Every constraint tries each of the three profiles once.
LEMMA CandidatesType ==
  ASSUME NEW c \in Constraint
  PROVE  /\ Len(Candidates[c]) = 3
         /\ \A i \in 1..3 : Candidates[c][i] \in ProfileId
         /\ \A p \in ProfileId : \E i \in 1..3 : Candidates[c][i] = p
         /\ \A i, j \in 1..3 : Candidates[c][i] = Candidates[c][j] => i = j
<1>1. CASE c = "fast"          BY <1>1 DEF Candidates, ProfileId
<1>2. CASE c = "balanced"      BY <1>2 DEF Candidates, ProfileId
<1>3. CASE c = "max_security"  BY <1>3 DEF Candidates, ProfileId
<1> QED  BY <1>1, <1>2, <1>3 DEF Constraint

LEMMA InitInv ==
  ASSUME Init
  PROVE  PInv
<1>1. Len(Candidates[cons]) = 3  BY CandidatesType DEF Init
<1>2. keys \in Seq(Alg)  BY DEF Init
<1>3. degraded \in BOOLEAN /\ safe \in BOOLEAN
  BY Zenon DEF Init
<1>4. TypeOK  BY <1>1, <1>2, <1>3 DEF Init, TypeOK
<1> QED  BY <1>4 DEF Init, PInv, SearchInv, ChoiceInv, PassedOver

\* The steps before the search, and the table at any time until a candidate is
\* chosen: no profile that was of no use becomes of use.
LEMMA BeginKeeps ==
  ASSUME PInv, Construct \/ Decide \/ TableReplaced
  PROVE  PInv'
<1>1. TypeOK'
  BY DEF PInv, TypeOK, Construct, Decide, TableReplaced, call, search, outcome
<1>2. /\ pc \in {"new", "ready", "deciding"} /\ pc' \in {"ready", "refused", "deciding"}
      /\ UNCHANGED <<cons, next, open, keys>>
  BY DEF Construct, Decide, TableReplaced, call, search, outcome
<1> QED
  BY <1>1, <1>2 DEF PInv, SearchInv, ChoiceInv, PassedOver

\* The candidate that is looked at, and that a look only takes profiles away.
LEMMA LookType ==
  ASSUME PInv, Look
  PROVE  /\ pc = "deciding" /\ cons \in Constraint /\ keys = <<>>
         /\ next \in 1..3 /\ next' = next + 1 /\ Len(Candidates[cons]) = 3
         /\ Candidate \in ProfileId /\ Candidate = Candidates[cons][next]
         /\ open' \subseteq open /\ open \subseteq ProfileId
         /\ PassedOver(next)
<1>1. pc = "deciding" /\ cons \in Constraint /\ open \subseteq ProfileId
      /\ next \in 1..(Len(Candidates[cons]) + 1) /\ keys = <<>> /\ PassedOver(next)
  BY DEF PInv, TypeOK, SearchInv, Look
<1>2. Len(Candidates[cons]) = 3 /\ \A i \in 1..3 : Candidates[cons][i] \in ProfileId
  BY <1>1, CandidatesType
<1>3. next \in 1..3
  BY <1>1, <1>2 DEF Look
<1> QED
  BY <1>1, <1>2, <1>3 DEF Look, Candidate

LEMMA SelectKeeps ==
  ASSUME PInv, Select
  PROVE  PInv'
<1>1. /\ Look /\ Eligible(Candidate) /\ chosen' = Candidate /\ pc' = "generating"
      /\ degraded' = (Candidate # Candidates[cons][1] \/ Mixed(Candidate))
      /\ UNCHANGED <<table, cons, safe, avail, keys>>
  BY DEF Select, call
<1>2. /\ cons \in Constraint /\ keys = <<>> /\ next \in 1..3 /\ next' = next + 1
      /\ Len(Candidates[cons]) = 3 /\ Candidate \in ProfileId
      /\ Candidate = Candidates[cons][next]
      /\ open' \subseteq open /\ open \subseteq ProfileId /\ PassedOver(next)
  BY <1>1, LookType
<1>3. degraded' \in BOOLEAN
  BY <1>1
<1>4. TypeOK'
  BY <1>1, <1>2, <1>3 DEF PInv, TypeOK
<1>5. Acceptable(chosen)'
  BY <1>1 DEF Acceptable, Eligible
<1>6. ~degraded' => chosen' = Candidates[cons'][1] /\ ~Mixed(chosen)'
  BY <1>1 DEF Mixed
<1>7. \E k \in 1..Len(Candidates[cons']) : chosen' = Candidates[cons'][k] /\ PassedOver(k)'
  <2>1. ASSUME NEW k \in 1..3, k = next PROVE PassedOver(k)'
    BY <1>1, <1>2, <2>1 DEF PassedOver
  <2> QED
    BY <1>1, <1>2, <2>1
<1>8. Len(keys') = 0 /\ Len(Sources[chosen']) \in 1..2
  BY <1>1, <1>2, SourcesType
<1>9. /\ Len(keys') < Len(Sources[chosen']) /\ Len(keys') <= Len(Sources[chosen'])
      /\ \A i \in 1..Len(keys') : keys'[i] = Sources[chosen'][i]
  BY <1>8
<1>10. ChoiceInv'
  BY Zenon, <1>1, <1>2, <1>5, <1>6, <1>7, <1>9 DEF ChoiceInv
<1> QED
  BY <1>1, <1>4, <1>10 DEF PInv, SearchInv

\* A candidate that is of no use joins those passed over.
LEMMA SkipKeeps ==
  ASSUME PInv, Skip
  PROVE  PInv'
<1>1. /\ Look /\ ~Eligible(Candidate)
      /\ UNCHANGED <<pc, table, cons, safe, avail, chosen, degraded, keys>>
  BY DEF Skip, call, outcome
<1>2. /\ pc = "deciding" /\ keys = <<>> /\ next \in 1..3 /\ next' = next + 1
      /\ Len(Candidates[cons]) = 3 /\ Candidate = Candidates[cons][next]
      /\ open' \subseteq open /\ open \subseteq ProfileId /\ PassedOver(next)
  BY <1>1, LookType
<1>3. TypeOK'
  BY <1>1, <1>2 DEF PInv, TypeOK
<1>4. Candidate \notin open'
  BY <1>1 DEF Look
<1>5. PassedOver(next)'
  BY <1>1, <1>2, <1>4 DEF PassedOver
<1> QED
  BY <1>1, <1>2, <1>3, <1>5 DEF PInv, SearchInv, ChoiceInv

LEMMA HardStopKeeps ==
  ASSUME PInv, HardStop
  PROVE  PInv'
<1>1. pc = "deciding" /\ pc' = "hard_stop" /\ next > Len(Candidates[cons])
      /\ UNCHANGED <<table, cons, safe, avail, next, open, chosen, degraded, keys>>
  BY DEF HardStop, call, search, outcome
<1>2. cons \in Constraint /\ Len(Candidates[cons]) = 3
  BY CandidatesType DEF PInv, TypeOK
<1>3. TypeOK'
  BY <1>1 DEF PInv, TypeOK
<1>4. next' = Len(Candidates[cons']) + 1
  BY <1>1, <1>2 DEF PInv, TypeOK
<1>5. PassedOver(next)'
  BY <1>1 DEF PInv, SearchInv, PassedOver
<1> QED
  BY <1>1, <1>3, <1>4, <1>5 DEF PInv, SearchInv, ChoiceInv

\* A key pair of the next source joins those there are.
LEMMA GenerateKeeps ==
  ASSUME PInv, Generate
  PROVE  PInv'
<1>1. /\ chosen \in ProfileId /\ keys \in Seq(Alg) /\ Len(keys) \in Nat
      /\ Len(keys) < Len(Sources[chosen])
  BY DEF PInv, TypeOK, ChoiceInv, Generate
<1>2. Sources[chosen] \in Seq(Alg) /\ Len(Sources[chosen]) \in Nat
  BY <1>1, SourcesType
<1>3. NextSource \in Alg /\ NextSource = Sources[chosen][Len(keys) + 1]
  BY <1>1, <1>2 DEF NextSource
<1>4. /\ keys' = Append(keys, NextSource) /\ keys' \in Seq(Alg)
      /\ Len(keys') = Len(keys) + 1
  BY <1>1, <1>3 DEF Generate
<1>5. \A i \in 1..Len(keys') : keys'[i] = Sources[chosen][i]
  <2> TAKE i \in 1..Len(keys')
  <2>1. CASE i \in 1..Len(keys)
    <3>1. keys[i] = Sources[chosen][i]
      BY <2>1 DEF PInv, ChoiceInv, Generate
    <3> QED  BY <1>1, <1>4, <2>1, <3>1
  <2>2. CASE i = Len(keys) + 1  BY <1>1, <1>3, <1>4, <2>2
  <2> QED  BY <1>1, <1>4, <2>1, <2>2
<1>6. TypeOK'
  BY <1>4 DEF Generate, PInv, TypeOK, call, search
<1>7. /\ pc' \in {"generating", "done"}
      /\ UNCHANGED <<table, cons, safe, avail, next, open, chosen, degraded>>
  BY DEF Generate, call, search
<1>8. /\ Acceptable(chosen)'
      /\ ~degraded' => chosen' = Candidates[cons'][1] /\ ~Mixed(chosen)'
      /\ \E k \in 1..Len(Candidates[cons']) : chosen' = Candidates[cons'][k] /\ PassedOver(k)'
  BY <1>7 DEF Generate, PInv, ChoiceInv, Acceptable, Mixed, PassedOver
<1>9. /\ Len(keys') <= Len(Sources[chosen'])
      /\ pc' = "done" => Len(keys') = Len(Sources[chosen'])
      /\ pc' = "generating" => Len(keys') < Len(Sources[chosen'])
  BY <1>1, <1>2, <1>4, <1>7 DEF Generate
<1>10. ChoiceInv'
  BY <1>1, <1>5, <1>7, <1>8, <1>9 DEF ChoiceInv
<1> QED
  BY <1>6, <1>7, <1>10 DEF PInv, SearchInv

\* A source that has gone ends the call, and availability may change anywhere.
LEMMA AwayKeeps ==
  ASSUME PInv, SourceGone \/ AvailabilityChanges \/ UNCHANGED vars
  PROVE  PInv'
<1>1. /\ UNCHANGED <<table, cons, safe, next, open, chosen, degraded, keys>>
      /\ avail' \in SUBSET Pqc
      /\ \/ pc' = pc
         \/ pc = "generating" /\ pc' = "unavailable"
  BY DEF SourceGone, AvailabilityChanges, vars, call, search, outcome, PInv, TypeOK
<1>2. TypeOK'
  BY <1>1 DEF PInv, TypeOK
<1>3. SearchInv'
  BY <1>1 DEF PInv, SearchInv, PassedOver
<1>4. ChoiceInv'
  BY <1>1 DEF PInv, ChoiceInv, Acceptable, Mixed, PassedOver
<1> QED
  BY <1>2, <1>3, <1>4 DEF PInv

\* The invariant holds throughout.
THEOREM PolicyInvariant == Spec => []PInv
<1>1. PInv /\ [Next]_vars => PInv'
  BY BeginKeeps, SelectKeeps, SkipKeeps, HardStopKeeps, GenerateKeeps, AwayKeeps
  DEF Next, Call
<1> QED
  BY <1>1, InitInv, PTL DEF Spec

-----------------------------------------------------------------------------
\* The keys of a call that returns, and the profile it chose.
LEMMA KeysAre ==
  ASSUME PInv, pc = "done"
  PROVE  /\ keys = Sources[chosen]
         /\ \A a \in Algs(chosen) : \E i \in 1..Len(keys) : keys[i] = a
         /\ \A i \in 1..Len(keys) : keys[i] \in Algs(chosen)
<1>1. /\ chosen \in ProfileId /\ keys \in Seq(Alg) /\ Len(keys) = Len(Sources[chosen])
      /\ \A i \in 1..Len(keys) : keys[i] = Sources[chosen][i]
  BY DEF PInv, TypeOK, ChoiceInv
<1>2. Sources[chosen] \in Seq(Alg)
  BY <1>1, SourcesType
<1>3. keys = Sources[chosen]
  BY <1>1, <1>2, SeqEqual
<1> QED
  BY <1>3 DEF Algs

\* establish_keys(require_quantum_safe=True) returns keys one of which is of an
\* algorithm that the table it was decided by calls quantum-safe, so of a
\* post-quantum one if that table calls nothing else so; whenever liboqs went
\* away, or the table was replaced, during the call.
THEOREM QuantumSafe == Spec => []QuantumSafeKept
<1>1. PInv => QuantumSafeKept
  <2> SUFFICES ASSUME PInv, pc = "done", safe
               PROVE  \E i \in 1..Len(keys) : keys[i] \in Marked
    BY DEF QuantumSafeKept
  <2>1. PICK a \in Algs(chosen) : table[a].quantum_safe /\ table[a] \in Record
    BY DEF PInv, ChoiceInv, Acceptable
  <2>2. a \in Marked
    BY <2>1, SourcesType DEF PInv, ChoiceInv, Marked
  <2>3. PICK i \in 1..Len(keys) : keys[i] = a
    BY <2>1, KeysAre
  <2> QED
    BY <2>2, <2>3
<1> QED
  BY <1>1, PolicyInvariant, PTL

\* A KeySet has one key pair for each source of its profile, and the table
\* approves of one of them.
THEOREM Complete == Spec => []KeySetComplete
<1>1. PInv => KeySetComplete
  <2> SUFFICES ASSUME PInv, pc = "done" PROVE KeySetComplete
    BY DEF KeySetComplete
  <2>1. PICK a \in Algs(chosen) : table[a].status = "approved"
    BY DEF PInv, ChoiceInv, Acceptable
  <2>2. PICK i \in 1..Len(keys) : keys[i] = a
    BY <2>1, KeysAre
  <2> QED
    BY <2>1, <2>2, KeysAre DEF KeySetComplete
<1> QED
  BY <1>1, PolicyInvariant, PTL

\* Keys not marked degraded are those of the best profile for the constraint,
\* of approved algorithms; a better profile than the one chosen was of no use at
\* some look.
THEOREM Reported == Spec => []FallbackReported
<1>1. PInv => FallbackReported
  <2> SUFFICES ASSUME PInv, pc = "done" PROVE FallbackReported
    BY DEF FallbackReported
  <2>1. /\ keys = Sources[chosen] /\ cons \in Constraint
        /\ \A i \in 1..Len(keys) : keys[i] \in Algs(chosen)
        /\ \A a \in Algs(chosen) : table[a] \in Record
    BY KeysAre DEF PInv, TypeOK, ChoiceInv, Acceptable
  <2>2. ASSUME ~degraded
        PROVE  /\ keys = Sources[Candidates[cons][1]]
               /\ \A i \in 1..Len(keys) : table[keys[i]].status = "approved"
    <3>1. chosen = Candidates[cons][1] /\ ~Mixed(chosen)
      BY <2>2 DEF PInv, ChoiceInv
    <3> QED
      BY <2>1, <3>1 DEF Mixed, Record
  <2>3. ASSUME NEW i \in 1..Len(Candidates[cons]), NEW j \in 1..Len(Candidates[cons]),
               i < j, Candidates[cons][j] = chosen
        PROVE  Candidates[cons][i] \notin open
    <3>1. PICK k \in 1..Len(Candidates[cons]) :
                  chosen = Candidates[cons][k] /\ PassedOver(k)
      BY DEF PInv, ChoiceInv
    <3>2. k = j /\ Len(Candidates[cons]) = 3
      BY <2>1, <2>3, <3>1, CandidatesType
    <3> QED
      BY <2>3, <3>1, <3>2 DEF PassedOver
  <2> QED
    BY <2>2, <2>3 DEF FallbackReported
<1> QED
  BY <1>1, PolicyInvariant, PTL

\* A hard stop means that no profile was available and acceptable throughout.
THEOREM HardStopOnlyThen == Spec => []HardStopJustified
<1>1. PInv => HardStopJustified
  <2> SUFFICES ASSUME PInv, pc = "hard_stop" PROVE open = {}
    BY DEF HardStopJustified
  <2>1. /\ cons \in Constraint /\ open \subseteq ProfileId
        /\ next = Len(Candidates[cons]) + 1 /\ PassedOver(next)
    BY DEF PInv, TypeOK, SearchInv
  <2>2. ASSUME NEW p \in ProfileId PROVE p \notin open
    <3>1. PICK i \in 1..3 : Candidates[cons][i] = p
      BY <2>1, CandidatesType
    <3>2. i \in 1..(next - 1)
      BY <2>1, <3>1, CandidatesType
    <3> QED
      BY <2>1, <3>1, <3>2 DEF PassedOver
  <2> QED
    BY <2>1, <2>2
<1> QED
  BY <1>1, PolicyInvariant, PTL
=============================================================================
