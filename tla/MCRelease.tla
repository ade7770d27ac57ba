------------------------------ MODULE MCRelease -----------------------------
(***************************************************************************)
(* A TLC instance of Release: a known release whose annotated tag, and a   *)
(* branch, may come to point at another commit.                            *)
(***************************************************************************)
EXTENDS Release, TLC

CONSTANTS c1, c2, t1, v, main

\* The other commit has old artifacts under dist/, and names no backend.
MCLayout ==
  (c1 :> [pyproject |-> TRUE, backend |-> TRUE, dist |-> {}]) @@
  (c2 :> [pyproject |-> TRUE, backend |-> FALSE, dist |-> {Canonical(c1)}])

MCTagged == t1 :> c1

\* None, the artifacts of the release, a directory that holds two releases, and
\* one that lacks an sdist.
MCReferences ==
  {None,
   [wheels |-> {Canonical(c1)}, sdists |-> {Canonical(c1)}],
   [wheels |-> {Canonical(c1), Canonical(c2)}, sdists |-> {Canonical(c2)}],
   [wheels |-> {Canonical(c1)}, sdists |-> {}]}

\* A platform like the one the releases were built on, where only the gzip header
\* needs the hook, and one that leaves every trace.
MCHosts == {{"gzip"}, Trace}
=============================================================================
