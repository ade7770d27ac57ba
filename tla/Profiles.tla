------------------------------- MODULE Profiles -----------------------------
(***************************************************************************)
(* The registry of profiles, the key-encapsulation sources they are made   *)
(* of, and which of those can be used.                                     *)
(***************************************************************************)
EXTENDS Naturals, Sequences

Pqc == {"mlkem768", "mlkem1024"}
Alg == {"x25519"} \cup Pqc

ProfileId == {"classical_only", "hybrid_standard", "hybrid_high"}

Sources == [classical_only  |-> <<"x25519">>,
            hybrid_standard |-> <<"x25519", "mlkem768">>,
            hybrid_high     |-> <<"x25519", "mlkem1024">>]

Algs(profile) == {Sources[profile][i] : i \in 1..Len(Sources[profile])}

Strength == [classical_only |-> 0, hybrid_standard |-> 1, hybrid_high |-> 2]

\* _require_available(), with `now' the post-quantum sources there are: those of
\* liboqs, none if it is not installed or CRYPTOFLEX_DISABLE_PQC is set.
Usable(alg, now) == alg \in Pqc => alg \in now

IsAvailable(profile, now) == \A a \in Algs(profile) : Usable(a, now)
=============================================================================
