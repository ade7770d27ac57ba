------------------------------- MODULE Release ------------------------------
(***************************************************************************)
(* scripts/verify_reproducibility.py and scripts/reproduce_release.py: one *)
(* run of either, step by step, over a repository whose references move    *)
(* and whose unreachable objects are pruned while it runs.                 *)
(*                                                                         *)
(* An artifact is known by the commit it was built from, by the traces the *)
(* platform left in it, and by how it differs from other builds of that    *)
(* commit: not at all, in metadata of the archive, or in the files.  Hash  *)
(* and size of an artifact stand for the artifact; the official ones have  *)
(* no traces, the build hook having removed them.  The normalized sdist is *)
(* for diagnosis only and has no part in the verdict.                      *)
(***************************************************************************)
EXTENDS Naturals, Sequences

CONSTANTS
  Commit,           \* commits
  Tag,              \* annotated tag objects
  Ref,              \* names of references
  Known,            \* the release with an entry in OFFICIAL_RELEASE_REFERENCES
  OfficialCommit,   \* ... its commit
  Targets,          \* what --target or --source-ref may be
  Tagged,           \* the commit each annotated tag object points at
  Layout,           \* of a commit: does it have a pyproject.toml, does that name
                    \* setuptools.build_meta, and what is committed under dist/
  References,       \* what --reference-dir may hold, and None
  Hosts,            \* kinds of platforms: the traces that each would leave
  MaxMoves,         \* bound: changes of the repository during the run
  None

Object == Commit \cup Tag

Difference == {"none", "metadata", "files"}

\* What gives a platform away: line endings and modes of the source tree, line
\* endings of the generated metadata, host fields of the wheel's zip entries,
\* the operating-system byte of the sdist's gzip header.
WheelTrace == {"tree", "text", "zip"}
SdistTrace == {"tree", "text", "gzip"}
Trace      == WheelTrace \cup SdistTrace

Artifact == [of : Commit, traces : SUBSET Trace, differs : Difference]

ASSUME OfficialAssumption == OfficialCommit \in Commit
ASSUME TaggedAssumption   == Tagged \in [Tag -> Commit] /\ Commit \cap Tag = {}
ASSUME LayoutAssumption   ==
  Layout \in [Commit -> [pyproject : BOOLEAN, backend : BOOLEAN, dist : SUBSET Artifact]]
ASSUME ReferencesAssumption ==
  References \subseteq [wheels : SUBSET Artifact, sdists : SUBSET Artifact] \cup {None}
ASSUME HostsAssumption == Hosts \subseteq SUBSET Trace
ASSUME MovesAssumption == MaxMoves \in Nat
ASSUME NoneAssumption ==
  /\ None \notin Object \cup [wheel : Artifact, sdist : Artifact]
  /\ None \notin {"REPRODUCIBLE", "SUCCESS"} /\ None # 0

VARIABLES
  script,     \* the script that runs, and its arguments
  target,
  given,      \* the contents of --reference-dir
  host,       \* the platform it runs on
  refs,       \* the object each reference points at
  store,      \* the objects of the repository
  moves,      \* changes of the repository so far
  pc,
  sha,        \* commit_sha
  ref,        \* reference
  work,       \* the source tree in the temporary directory, if there is one
  results,    \* the artifacts measured, build by build
  made,       \* the artifacts that each build itself made
  outcome,    \* the outcome printed, or the status of the summary
  exit        \* the exit status

arguments == <<script, target, given, host>>
world     == <<refs, store, moves>>
vars      == <<arguments, world, pc, sha, ref, work, results, made, outcome, exit>>

-----------------------------------------------------------------------------
\* Artifacts.
\* What one measurement of dist/ records.
Pair == [wheel : Artifact, sdist : Artifact]

\* The official artifacts, built with the hook.
Canonical(c) == [of |-> c, traces |-> {}, differs |-> "none"]
Official == [wheel |-> Canonical(OfficialCommit), sdist |-> Canonical(OfficialCommit)]

-----------------------------------------------------------------------------
Init ==
  /\ script \in {"verify", "reproduce"}
  /\ target \in Targets /\ given \in References /\ host \in Hosts
  /\ refs \in [Ref -> Object \cup {None}]
  /\ store = Object /\ moves = 0
  /\ pc = "resolve" /\ sha = None /\ ref = None /\ work = None
  /\ results = <<>> /\ made = <<>> /\ outcome = None /\ exit = None

\* git, used by somebody else.
Peel(o) == IF o \in Tag THEN Tagged[o] ELSE o

Reachable(r) == LET named == {r[n] : n \in Ref} \ {None} IN named \cup {Peel(o) : o \in named}

Elsewhere ==
  /\ pc # "done" /\ moves < MaxMoves /\ moves' = moves + 1
  /\ \/ \E n \in Ref, o \in store \cup {None} :
           /\ o # None => Peel(o) \in store
           /\ refs' = [refs EXCEPT ![n] = o]
           /\ UNCHANGED store
     \/ store' = store \cap Reachable(refs) /\ UNCHANGED refs
  /\ UNCHANGED <<arguments, pc, sha, ref, work, results, made, outcome, exit>>

-----------------------------------------------------------------------------
\* The end of a run.  rmtree() is in a finally clause of both scripts.
Stop(o, code) ==
  /\ pc' = "done" /\ outcome' = o /\ exit' = code /\ work' = None
  /\ UNCHANGED <<arguments, world, sha, ref, results, made>>

\* verify catches ValueError while resolving, RuntimeError from the reference
\* directory and any Exception of a build; main() of reproduce catches them all.
Reported == Stop(IF script = "verify" THEN "UNABLE_TO_VERIFY" ELSE "ERROR", 1)

\* Anything else ends verify with a traceback.
Escapes == Stop(IF script = "verify" THEN None ELSE "ERROR", 1)

Goto(next) ==
  /\ pc' = next
  /\ UNCHANGED <<arguments, world, results, made, outcome, exit>>

\* An object id may be given for a reference.
Points(name) == IF name \in Ref THEN refs[name] ELSE IF name \in store THEN name ELSE None

\* Slip: the commit of a known release is not checked.
ResolvedUnchecked(id) == sha' = id /\ Goto("stamp") /\ UNCHANGED <<ref, work>>

\* The check of reproduce against the official commit.
Resolved(id) ==
  IF script = "reproduce" /\ target = Known /\ id # OfficialCommit
  THEN Reported
  ELSE sha' = id /\ Goto("stamp") /\ UNCHANGED <<ref, work>>

\* git rev-parse: verify takes the object it names, be it a tag; reproduce
\* asks for its commit.  When it fails, for whatever reason, rev-list is tried.
RevParse ==
  /\ pc = "resolve"
  /\ \/ /\ Points(target) # None
        /\ Resolved(IF script = "verify" THEN Points(target) ELSE Peel(Points(target)))
     \/ Goto("fallback") /\ UNCHANGED <<sha, ref, work>>

\* git rev-list -1 names a commit, that of the reference as it is by now.
RevList ==
  /\ pc = "fallback"
  /\ \/ Points(target) # None /\ Resolved(Peel(Points(target)))
     \/ Reported

\* git log: the timestamp of the commit, if that is still there.
Stamp ==
  /\ pc = "stamp"
  /\ \/ Peel(sha) \in store /\ Goto("reference") /\ UNCHANGED <<sha, ref, work>>
     \/ Reported

\* The artifacts to compare with: the first wheel and the first sdist of the
\* directory, in the order it lists them; else, for reproduce, the official
\* ones.  A directory that lacks one is reported, one that cannot be read is
\* not.
Reference ==
  /\ pc = "reference"
  /\ \/ /\ given # None
        /\ \/ \E w \in given.wheels, s \in given.sdists :
                 ref' = [wheel |-> w, sdist |-> s] /\ Goto("extract") /\ UNCHANGED <<sha, work>>
           \/ (given.wheels = {} \/ given.sdists = {}) /\ Reported
           \/ Escapes
     \/ /\ given = None
        /\ ref' = IF script = "reproduce" /\ target = Known THEN Official ELSE None
        /\ Goto("extract") /\ UNCHANGED <<sha, work>>

\* A slip: the tree is that of the reference, as it is now.
TreeOfTarget(c) ==
  [of |-> IF Points(target) = None THEN c ELSE Peel(Points(target)),
   canonical |-> script = "reproduce", hook |-> FALSE, dist |-> Layout[c].dist]

\* mkdtemp() and git archive.  The tree is that of the object resolved, wherever
\* the reference points by now; reproduce extracts it alike on every platform.
Tree(c) == [of |-> c, canonical |-> script = "reproduce", hook |-> FALSE,
            dist |-> Layout[c].dist]

Extract ==
  /\ pc = "extract"
  /\ \/ /\ Peel(sha) \in store
        /\ script = "verify" => Layout[Peel(sha)].pyproject
        /\ work' = Tree(Peel(sha))
        /\ Goto("environment") /\ UNCHANGED <<sha, ref>>
     \/ Reported
     \/ Escapes

\* A virtual environment with the pinned tools, checked after installation.
Environment ==
  /\ pc = "environment"
  /\ \/ Goto(IF script = "verify" THEN "build" ELSE "hook") /\ UNCHANGED <<sha, ref, work>>
     \/ Reported

\* reproduce writes its build backend into the tree and names it in
\* pyproject.toml in the place of the one it finds there, if it finds it.
Hook ==
  /\ pc = "hook"
  /\ \/ /\ Layout[work.of].pyproject
        /\ work' = [work EXCEPT !.hook = Layout[work.of].backend]
        /\ Goto("build") /\ UNCHANGED <<sha, ref>>
     \/ Reported

\* What the tree, and the hook if pyproject.toml names it, keep a build from
\* leaving.  The patches of text files are made or the build fails; the one of
\* the zip entries is skipped where wheel cannot be imported, those of the gzip
\* header where anything raises, and neither says so.
Patched ==
  {(IF work.canonical THEN {"tree"} ELSE {}) \cup (IF work.hook THEN {"text"} \cup p ELSE {}) :
     p \in SUBSET {"zip", "gzip"}}

\* python -m build: what a build of this tree on this host may make.  What else
\* differs from one build to the next the hook leaves alone.
Buildable(trace) ==
  [of : {work.of}, traces : {(host \cap trace) \ p : p \in Patched}, differs : Difference]

\* Both scripts measure the first wheel and the first sdist that dist/ lists,
\* the new ones or any that the commit has there.
Measured(w, s) ==
  [wheel : {w} \cup work.dist, sdist : {s} \cup work.dist]

Build ==
  /\ pc = "build"
  /\ \/ \E w \in Buildable(WheelTrace), s \in Buildable(SdistTrace) : \E m \in Measured(w, s) :
           /\ made' = Append(made, [wheel |-> w, sdist |-> s])
           /\ results' = Append(results, m)
           /\ work' = None
           /\ pc' = IF script = "verify" /\ results = <<>> THEN "extract" ELSE "verdict"
           /\ UNCHANGED <<arguments, world, sha, ref, outcome, exit>>
     \/ Reported

-----------------------------------------------------------------------------
\* compute_verdict().
TwoAlike == results[1].wheel = results[2].wheel /\ results[1].sdist = results[2].sdist

LikeReference == ref # None => results[1].wheel = ref.wheel /\ results[1].sdist = ref.sdist

Reproducible == TwoAlike /\ LikeReference

Verdict ==
  /\ pc = "verdict" /\ script = "verify"
  /\ IF Reproducible THEN Stop("REPRODUCIBLE", 0) ELSE Stop("NON_REPRODUCIBLE", 1)

\* The status reproduce_build() returns, and main() after it: writing the
\* summary to --output-json may fail and end the script with a traceback.
Status ==
  /\ pc = "verdict" /\ script = "reproduce"
  /\ \E written \in BOOLEAN :
       CASE ref = None                  -> Stop("BUILD_ONLY", 1)
         [] ref # None /\ LikeReference -> Stop("SUCCESS", IF written THEN 0 ELSE 1)
         [] OTHER                       -> Stop("MISMATCH", 1)

Next ==
  \/ Elsewhere \/ RevParse \/ RevList \/ Stamp \/ Reference \/ Extract
  \/ Environment \/ Hook \/ Build \/ Verdict \/ Status

Spec == Init /\ [][Next]_vars

-----------------------------------------------------------------------------
State == {"resolve", "fallback", "stamp", "reference", "extract", "environment",
          "hook", "build", "verdict", "done"}

WorkTree == [of : Commit, canonical : BOOLEAN, hook : BOOLEAN, dist : SUBSET Artifact]

TypeOK ==
  /\ script \in {"verify", "reproduce"}
  /\ target \in Targets /\ given \in References /\ host \in Hosts
  /\ refs \in [Ref -> Object \cup {None}] /\ store \subseteq Object /\ moves \in 0..MaxMoves
  /\ pc \in State /\ sha \in Object \cup {None} /\ ref \in Pair \cup {None}
  /\ work \in WorkTree \cup {None}
  /\ results \in Seq(Pair) /\ made \in Seq(Pair) /\ Len(made) = Len(results)

\* REPRODUCIBLE is printed, and 0 returned by verify, only of two builds from the commit
\* that was resolved and reported, wherever its reference pointed by then, which agree
\* with each other and with the reference directory that was asked for; unless
\* the commit has artifacts of its own under dist/, they are what was built.
ReproducibleSound ==
  outcome = "REPRODUCIBLE" \/ (script = "verify" /\ exit = 0) =>
    /\ outcome = "REPRODUCIBLE" /\ Len(results) = 2
    /\ results[1] = results[2]
    /\ given # None => results[1].wheel \in given.wheels /\ results[1].sdist \in given.sdists
    /\ \A i \in 1..2 : made[i].wheel.of = Peel(sha) /\ made[i].sdist.of = Peel(sha)
    /\ Layout[Peel(sha)].dist = {} => results = made

\* reproduce returns 0 only of a build that equals what it was to be compared
\* with: of a release it knows, a build of the official commit, and without a
\* directory to compare with, one equal to the official artifacts.
SuccessSound ==
  outcome = "SUCCESS" \/ (script = "reproduce" /\ exit = 0) =>
    /\ outcome = "SUCCESS" /\ Len(results) = 1
    /\ made[1].wheel.of = Peel(sha) /\ made[1].sdist.of = Peel(sha)
    /\ IF given = None
       THEN target = Known /\ results[1] = Official
       ELSE results[1].wheel \in given.wheels /\ results[1].sdist \in given.sdists
    /\ target = Known => made[1].wheel.of = OfficialCommit
    /\ Layout[Peel(sha)].dist = {} => results = made

=============================================================================
