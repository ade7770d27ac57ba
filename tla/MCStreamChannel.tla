--------------------------- MODULE MCStreamChannel --------------------------
(***************************************************************************)
(* TLC instances of StreamChannel.  The limits are the code's, scaled down *)
(* so that a short run meets every one of them.                            *)
(***************************************************************************)
EXTENDS StreamChannel, FiniteSets, TLC

CONSTANTS s1, s2, alice, bob, n1, n2, small, big, high8

\* Two base nonces that share their first 8 bytes.
MCPrefix == [n \in {n1, n2} |-> high8]

MCSize == [c \in {small, big} |-> IF c = small THEN 1 ELSE 2]

Classical == [owner |-> alice, profile |-> "classical_only"]
Hybrid    == [owner |-> alice, profile |-> "hybrid_standard"]
Other     == [owner |-> bob,   profile |-> "hybrid_standard"]

\* Senders use a weak and a strong profile; a receiver may be the wrong one,
\* or of the wrong profile.
FaultyBundles == {Classical, Hybrid}
FaultyHandles == {Classical, Hybrid, Other}
FaultyMinimums == {None, "hybrid_standard"}

FaultyChunkSizes == {MaxChunk}

\* Lengths at the boundaries of the decryptor's checks.
MCLengths == {TagLen, TagLen + 1, MaxChunk + TagLen, MaxChunk + TagLen + 1}

StreamSymmetry == Permutations({s1, s2})
=============================================================================
