------------------------------- MODULE MCPolicy -----------------------------
(***************************************************************************)
(* The TLC instance of Policy.                                             *)
(***************************************************************************)
EXTENDS Policy, TLC

Flag(status, quantum) == [status |-> status, quantum_safe |-> quantum]

Bundled == [a \in Alg |-> Flag("approved", a \in Pqc)]

\* Tables that change one or two of the bundled records, to every record there is.
Edited == {[Bundled EXCEPT ![a] = r, ![b] = s] :
             a, b \in Alg, r, s \in Record \cup {Missing, Malformed}}
=============================================================================
