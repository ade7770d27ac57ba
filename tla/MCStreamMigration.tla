-------------------------- MODULE MCStreamMigration -------------------------
(***************************************************************************)
(* TLC instances of StreamMigration: an encryptor, a migrator to a         *)
(* stronger profile, and a decryptor.                                      *)
(***************************************************************************)
EXTENDS StreamMigration, FiniteSets, TLC

CONSTANTS old, new, alice, bob, n1, n2, small, big, high8

MCPrefix == [n \in {n1, n2} |-> high8]
MCSize == [c \in {small, big} |-> IF c = small THEN 1 ELSE 2]

Classical == [owner |-> alice, profile |-> "classical_only"]
Hybrid    == [owner |-> alice, profile |-> "hybrid_standard"]
High      == [owner |-> bob,   profile |-> "hybrid_high"]

\* The new bundle may be the old one again: a rotation under the same keys.
OldBundles == {Classical, Hybrid}
NewOnes    == {Hybrid, High}
OneOld     == {Hybrid}
\* The recipient, and another with keys of the same profile.
NewHandles == NewOnes \cup {[owner |-> bob, profile |-> "hybrid_standard"]}
AllBundles == {Classical, Hybrid, High}

AnyMinimum  == {None, "hybrid_standard"}
NoMinimum   == {None}
AllMinimums == {None, "classical_only", "hybrid_standard", "hybrid_high", "unknown"}

MCChunkSizes == {MaxChunk}
MCLengths == {TagLen, TagLen + 1, MaxChunk + TagLen, MaxChunk + TagLen + 1}
=============================================================================
