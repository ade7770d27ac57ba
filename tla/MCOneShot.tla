------------------------------- MODULE MCOneShot ----------------------------
(***************************************************************************)
(* A TLC instance of OneShot: a byte has four values.                      *)
(***************************************************************************)
EXTENDS OneShot, TLC

CONSTANTS p1, p2, p3, alice, bob, doc, doc2

MCMagic == <<3>>

\* The longest identifier fills its length byte; no two profiles share one,
\* and no two algorithms.
MCName == [x \in ProfileId \cup Alg |->
  CASE x \in {"classical_only", "x25519"}    -> <<1>>
    [] x \in {"hybrid_standard", "mlkem768"} -> <<2>>
    [] OTHER                                 -> <<2, 1, 2>>]

\* The longest ciphertext needs both bytes of its length.
MCCtLen == [a \in Alg |-> CASE a = "x25519" -> 1 [] a = "mlkem768" -> 2 [] OTHER -> 5]

MCRandom == (p1 :> 0) @@ (p2 :> 1) @@ (p3 :> 2)

Keys(owner, profile) ==
  [i \in 1..Len(Sources[profile]) |-> [owner |-> owner, alg |-> Sources[profile][i]]]

BundleOf(owner, profile) == [profile |-> profile, keys |-> Keys(owner, profile)]

Standard   == BundleOf(alice, "hybrid_standard")
High       == BundleOf(alice, "hybrid_high")
IllMatched == [profile |-> "hybrid_high", keys |-> Standard.keys]
Recipients == {Standard, High, BundleOf(bob, "hybrid_standard"),
               BundleOf(alice, "classical_only")}

\* One call encrypts, another encrypts to the same recipient or migrates to
\* stronger keys, and the third receives.
MCCalls ==
  (p1 :> [op : {"encrypt"}, doc : {doc},
          bundle : {Standard, BundleOf(alice, "classical_only"), IllMatched}]) @@
  (p2 :> ([op : {"ephemeral_encrypt"}, bundle : {Standard}, doc : {doc2}]
          \cup [op : {"migrate"}, handles : {Standard.keys}, min : {"hybrid_standard"},
                bundle : {High}])) @@
  (p3 :> [op : {"decrypt", "recover_root_key"}, handles : {b.keys : b \in Recipients},
          min : {None, "hybrid_high", "unregistered"}])
=============================================================================
