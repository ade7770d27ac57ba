-------------------------------- MODULE Policy ------------------------------
(***************************************************************************)
(* PolicyEngine and establish_keys(): one call, which picks a profile      *)
(* candidate by candidate and then generates a key pair source by source,  *)
(* while the availability of the post-quantum sources changes under it     *)
(* (CRYPTOFLEX_DISABLE_PQC, or liboqs).                                    *)
(***************************************************************************)
EXTENDS Profiles

CONSTANTS
  Tables,    \* the risk tables a caller may install: [Alg -> Record]
  Missing,   \* no record
  Malformed, \* a record with a bad status or a bad quantum_safe flag
  None

Constraint == {"fast", "balanced", "max_security"}

Record == [status : {"approved", "deprecated"}, quantum_safe : BOOLEAN]

ASSUME TablesAssumption ==
  /\ Tables \subseteq [Alg -> Record \cup {Missing, Malformed}]
  /\ {Missing, Malformed} \cap Record = {}
  /\ None \notin ProfileId

\* _candidate_order(): best first, for each constraint.
Candidates == [fast         |-> <<"classical_only", "hybrid_standard", "hybrid_high">>,
               balanced     |-> <<"hybrid_standard", "hybrid_high", "classical_only">>,
               max_security |-> <<"hybrid_high", "hybrid_standard", "classical_only">>]

VARIABLES
  pc,       \* "new", "ready", "deciding", "generating", or how the call ended
  table,    \* the engine's risk_table
  cons,     \* the constraint argument
  safe,     \* the require_quantum_safe argument
  avail,    \* the post-quantum sources that can be used right now
  next,     \* the candidate to look at next
  open,     \* history: the profiles available and acceptable at every look so far
  chosen,   \* decision.profile
  degraded, \* decision.degraded
  keys      \* the algorithms a key pair has been generated for

call    == <<cons, safe>>
search  == <<next, open>>
outcome == <<chosen, degraded, keys>>
vars    == <<pc, table, call, avail, search, outcome>>

Init ==
  /\ pc       = "new"
  /\ table    \in Tables
  /\ cons     \in Constraint
  /\ safe     \in BOOLEAN
  /\ avail    \in SUBSET Pqc
  /\ next     = 1
  /\ open     = ProfileId
  /\ chosen   = None
  /\ degraded = FALSE
  /\ keys     = <<>>

\* A slip: a profile all of whose components are deprecated will do, and a
\* hybrid one is taken to be quantum-safe.
AcceptableIfAny(profile) ==
  /\ \A a \in Algs(profile) : table[a] \in Record
  /\ safe => profile # "classical_only"

\* _is_profile_acceptable(): every record is well formed, not every component
\* is deprecated, and one is quantum-safe if that is required.
Acceptable(profile) ==
  /\ \A a \in Algs(profile) : table[a] \in Record
  /\ safe => \E a \in Algs(profile) : table[a].quantum_safe
  /\ \E a \in Algs(profile) : table[a].status = "approved"

Mixed(profile) == \E a \in Algs(profile) : table[a].status = "deprecated"

-----------------------------------------------------------------------------
\* PolicyEngine.__init__() refuses a malformed table, not an incomplete one.
Construct ==
  /\ pc = "new"
  /\ pc' = IF \E a \in Alg : table[a] = Malformed THEN "refused" ELSE "ready"
  /\ UNCHANGED <<table, call, avail, search, outcome>>

\* establish_keys() calls decide().
Decide ==
  /\ pc = "ready"
  /\ pc' = "deciding"
  /\ UNCHANGED <<table, call, avail, search, outcome>>

Candidate == Candidates[cons][next]

Eligible(profile) == IsAvailable(profile, avail) /\ Acceptable(profile)

\* One turn of the loop: availability is asked for, and the table read, afresh.
Look ==
  /\ pc = "deciding"
  /\ next <= Len(Candidates[cons])
  /\ next' = next + 1
  /\ open' = {p \in open : Eligible(p)}

\* A slip: a fallback is not reported.
SelectQuietly ==
  /\ Look /\ Eligible(Candidate)
  /\ chosen' = Candidate /\ degraded' = Mixed(Candidate) /\ pc' = "generating"
  /\ UNCHANGED <<table, call, avail, keys>>

\* The candidate is the decision, degraded if it is not the ideal one or has a
\* deprecated component.
Select ==
  /\ Look
  /\ Eligible(Candidate)
  /\ chosen'   = Candidate
  /\ degraded' = (Candidate # Candidates[cons][1] \/ Mixed(Candidate))
  /\ pc'       = "generating"
  /\ UNCHANGED <<table, call, avail, keys>>

\* The candidate is not available now, or not acceptable: the next one.
Skip ==
  /\ Look
  /\ ~Eligible(Candidate)
  /\ UNCHANGED <<pc, table, call, avail, outcome>>

\* A slip: the last candidate is not tried.
HardStopEarly ==
  /\ pc = "deciding"
  /\ next = Len(Candidates[cons])
  /\ pc' = "hard_stop"
  /\ UNCHANGED <<table, call, avail, search, outcome>>

\* RuntimeError: no candidate is left.
HardStop ==
  /\ pc = "deciding"
  /\ next > Len(Candidates[cons])
  /\ pc' = "hard_stop"
  /\ UNCHANGED <<table, call, avail, search, outcome>>

NextSource == Sources[chosen][Len(keys) + 1]

\* A slip: a source that has gone is left out of the bundle.
GenerateOrSkip ==
  /\ pc = "generating"
  /\ keys' = Append(keys, IF Usable(NextSource, avail) THEN NextSource ELSE "x25519")
  /\ pc' = IF Len(keys') = Len(Sources[chosen]) THEN "done" ELSE pc
  /\ UNCHANGED <<table, call, avail, search, chosen, degraded>>

\* generate_keypair() of the next source of the profile.
Generate ==
  /\ pc = "generating"
  /\ Usable(NextSource, avail)
  /\ keys' = Append(keys, NextSource)
  /\ pc' = IF Len(keys') = Len(Sources[chosen]) THEN "done" ELSE pc
  /\ UNCHANGED <<table, call, avail, search, chosen, degraded>>

\* The source has gone since the decision: SourceUnavailableError.
SourceGone ==
  /\ pc = "generating"
  /\ ~Usable(NextSource, avail)
  /\ pc' = "unavailable"
  /\ UNCHANGED <<table, call, avail, search, outcome>>

Call == Construct \/ Decide \/ Select \/ Skip \/ HardStop \/ Generate \/ SourceGone

\* The environment variable, or the library, comes and goes.
AvailabilityChanges ==
  /\ avail' \in SUBSET Pqc
  /\ UNCHANGED <<pc, table, call, search, outcome>>

\* Another thread sets the risk_table attribute, which is not validated again,
\* also in the middle of a decision.  Once the candidate is chosen nothing reads
\* it any more: `table' stays the one the decision was made by.
TableReplaced ==
  /\ pc \in {"ready", "deciding"}
  /\ table' \in Tables
  /\ UNCHANGED <<pc, call, avail, search, outcome>>

Next == Call \/ AvailabilityChanges \/ TableReplaced

Spec == Init /\ [][Next]_vars

-----------------------------------------------------------------------------
TypeOK ==
  /\ pc \in {"new", "ready", "refused", "deciding", "generating", "done",
             "hard_stop", "unavailable"}
  /\ table \in Tables /\ cons \in Constraint /\ safe \in BOOLEAN
  /\ avail \subseteq Pqc
  /\ next \in 1..(Len(Candidates[cons]) + 1) /\ open \subseteq ProfileId
  /\ chosen \in ProfileId \cup {None}
  /\ degraded \in BOOLEAN
  /\ keys \in Seq(Alg)

\* The algorithms that the table calls quantum-safe.
Marked == {a \in Alg : table[a] \in Record /\ table[a].quantum_safe}

\* With require_quantum_safe, establish_keys() never returns keys without one of
\* an algorithm that the table it was decided by calls quantum-safe, nor without
\* a post-quantum one if that table calls nothing else so: not when liboqs goes
\* away between the decision and the key generation, nor when liboqs or the
\* table was another while a better candidate was looked at.
QuantumSafeKept ==
  pc = "done" /\ safe =>
     /\ \E i \in 1..Len(keys) : keys[i] \in Marked
     /\ Marked \subseteq Pqc => \E i \in 1..Len(keys) : keys[i] \in Pqc

\* A KeySet has one key pair for every source of the profile it names, and the
\* profile still has a component the table approves of: a source that goes
\* away is never left out.
KeySetComplete ==
  pc = "done" =>
     /\ keys = Sources[chosen]
     /\ \E i \in 1..Len(keys) : table[keys[i]].status = "approved"

\* A fall back is never silent: keys that are not marked degraded are those of
\* the best profile for the constraint, hybrid_high for max_security, and all of
\* approved algorithms.  Nor is it needless: whatever is better than the profile
\* chosen was unavailable, or not acceptable, at some look.
FallbackReported ==
  pc = "done" =>
     /\ ~degraded => /\ keys = Sources[Candidates[cons][1]]
                     /\ \A i \in 1..Len(keys) : table[keys[i]].status = "approved"
     /\ \A i, j \in 1..Len(Candidates[cons]) :
           i < j /\ Candidates[cons][j] = chosen => Candidates[cons][i] \notin open

\* A hard stop means that there was nothing to fall back to: no profile was
\* available and acceptable whenever decide() looked.
HardStopJustified == pc = "hard_stop" => open = {}

=============================================================================
