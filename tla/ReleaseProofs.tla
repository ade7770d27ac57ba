---------------------------- MODULE ReleaseProofs ---------------------------
(***************************************************************************)
(* The outcomes of the two release scripts, for any repository, however it *)
(* changes while they run, and whatever the builds make.                   *)
(*                                                                         *)
(* A script looks at a reference once and works with an object id from     *)
(* then on.  The invariant says so: all it holds, trees, artifacts, what it*)
(* compares with, is that of this id and of its arguments, which nobody    *)
(* else can change.                                                        *)
(***************************************************************************)
EXTENDS Release, SequenceTheorems, TLAPS

\* After the object has been resolved.
ShaInv ==
  pc \notin {"resolve", "fallback", "done"} =>
    /\ sha \in Object
    /\ script = "reproduce" /\ target = Known => sha = OfficialCommit

\* After the reference artifacts have been loaded.
LoadedInv ==
  pc \in {"extract", "environment", "hook", "build", "verdict"} =>
    IF given # None
    THEN ref # None /\ ref.wheel \in given.wheels /\ ref.sdist \in given.sdists
    ELSE ref = IF script = "reproduce" /\ target = Known THEN Official ELSE None

\* The tree that is there is the one of this commit.
WorkInv ==
  pc \in {"environment", "hook", "build"} =>
    /\ work \in WorkTree
    /\ work.of = Peel(sha)
    /\ work.dist = Layout[Peel(sha)].dist

\* The artifacts of one build, and what was measured of it.
BuiltWell(m, r) ==
  /\ m.wheel.of = Peel(sha) /\ m.sdist.of = Peel(sha)
  /\ Layout[Peel(sha)].dist = {} => r = m

ResultInv ==
  /\ pc \in {"resolve", "fallback", "stamp", "reference"} => Len(results) = 0
  /\ pc \in {"extract", "environment", "hook", "build"} =>
       Len(results) = 0 \/ (script = "verify" /\ Len(results) = 1)
  /\ pc = "verdict" => Len(results) = IF script = "verify" THEN 2 ELSE 1
  /\ pc # "done" => \A i \in 1..Len(results) : BuiltWell(made[i], results[i])

OpenInv == pc # "done" => outcome = None /\ exit = None

Sound == ReproducibleSound /\ SuccessSound

RInv == TypeOK /\ ShaInv /\ LoadedInv /\ WorkInv /\ ResultInv /\ OpenInv /\ Sound

-----------------------------------------------------------------------------
\* As long as nothing is printed, nothing can be unsound.
LEMMA OpenSound ==
  ASSUME outcome = None, exit = None
  PROVE  Sound
BY NoneAssumption DEF Sound, ReproducibleSound, SuccessSound

LEMMA PeelType ==
  ASSUME NEW o \in Object
  PROVE  Peel(o) \in Commit
BY TaggedAssumption DEF Peel, Object

LEMMA OfficialType == Official \in Pair /\ Official # None
BY OfficialAssumption, NoneAssumption
DEF Official, Canonical, Pair, Artifact, Difference

LEMMA InitInv ==
  ASSUME Init
  PROVE  RInv
<1>1. results \in Seq(Pair) /\ made \in Seq(Pair) /\ Len(made) = 0 /\ Len(results) = 0
  BY DEF Init
<1>2. /\ script \in {"verify", "reproduce"} /\ moves \in 0..MaxMoves
      /\ pc \in State /\ Len(made) = Len(results)
  BY <1>1, MovesAssumption DEF Init, State
<1>3. TypeOK
  BY <1>1, <1>2 DEF Init, TypeOK
<1>4. Sound
  BY OpenSound DEF Init
<1> QED
  BY <1>1, <1>3, <1>4 DEF Init, RInv, ShaInv, LoadedInv, WorkInv, ResultInv, OpenInv

\* What others do to the repository concerns none of this.
LEMMA ElsewhereKeeps ==
  ASSUME RInv, Elsewhere
  PROVE  RInv'
<1>1. /\ UNCHANGED <<script, target, given, host>>
      /\ UNCHANGED <<pc, sha, ref, work, results, made, outcome, exit>>
  BY DEF Elsewhere, arguments
<1>2. /\ refs' \in [Ref -> Object \cup {None}] /\ store' \subseteq Object
      /\ moves' \in 0..MaxMoves
  BY MovesAssumption DEF Elsewhere, RInv, TypeOK
<1>3. TypeOK'
  BY <1>1, <1>2 DEF RInv, TypeOK
<1>4. Sound'
  BY <1>1 DEF RInv, Sound, ReproducibleSound, SuccessSound
<1> QED
  BY <1>1, <1>3, <1>4
  DEF RInv, ShaInv, LoadedInv, WorkInv, ResultInv, BuiltWell, OpenInv

\* A run that ends without an outcome, or with one that claims nothing.
LEMMA StopKeeps ==
  ASSUME RInv, NEW o, o \notin {"REPRODUCIBLE", "SUCCESS"}, Stop(o, 1)
  PROVE  RInv'
<1>1. TypeOK'
  BY DEF RInv, TypeOK, Stop, arguments, world, State
<1>2. outcome' = o /\ exit' = 1 /\ pc' = "done"
  BY DEF Stop
<1>3. Sound'
  BY <1>2 DEF Sound, ReproducibleSound, SuccessSound
<1> QED
  BY <1>1, <1>2, <1>3 DEF RInv, ShaInv, LoadedInv, WorkInv, ResultInv, OpenInv

LEMMA FailureKeeps ==
  ASSUME RInv, Reported \/ Escapes
  PROVE  RInv'
<1>1. CASE Reported  BY <1>1, StopKeeps DEF Reported
<1>2. CASE Escapes   BY <1>2, StopKeeps, NoneAssumption DEF Escapes
<1> QED  BY <1>1, <1>2

\* A step that goes on, and leaves the results and the arguments alone.
LEMMA GotoKeeps ==
  ASSUME RInv, NEW next \in State \ {"resolve", "verdict", "done"}, Goto(next), pc # "done",
         sha' \in Object \cup {None}, ref' \in Pair \cup {None}, work' \in WorkTree \cup {None},
         ShaInv', LoadedInv', WorkInv', ResultInv'
  PROVE  RInv'
<1>1. TypeOK'
  BY DEF RInv, TypeOK, Goto, arguments, world
<1>2. OpenInv' /\ outcome' = None /\ exit' = None
  BY DEF RInv, OpenInv, Goto
<1>3. Sound'
  BY <1>2, NoneAssumption
  DEF Sound, ReproducibleSound, SuccessSound
<1> QED
  BY <1>1, <1>2, <1>3 DEF RInv

LEMMA ResolvedKeeps ==
  ASSUME RInv, pc \in {"resolve", "fallback"}, NEW id \in Object, Resolved(id)
  PROVE  RInv'
<1>1. CASE script = "reproduce" /\ target = Known /\ id # OfficialCommit
  BY <1>1, FailureKeeps DEF Resolved
<1>2. CASE ~(script = "reproduce" /\ target = Known /\ id # OfficialCommit)
  <2>1. sha' = id /\ Goto("stamp") /\ UNCHANGED <<ref, work>>
    BY <1>2 DEF Resolved
  <2>2. ShaInv' /\ LoadedInv' /\ WorkInv'
    BY <1>2, <2>1 DEF Goto, arguments, ShaInv, LoadedInv, WorkInv
  <2>3. Len(results) = 0 /\ results \in Seq(Pair)
    BY DEF RInv, TypeOK, ResultInv
  <2>4. ResultInv'
    BY <2>1, <2>3 DEF Goto, ResultInv
  <2> QED
    BY <2>1, <2>2, <2>4, GotoKeeps DEF RInv, TypeOK, State
<1> QED
  BY <1>1, <1>2

LEMMA RevParseKeeps ==
  ASSUME RInv, RevParse \/ RevList
  PROVE  RInv'
<1>1. ASSUME Points(target) # None
      PROVE  Points(target) \in Object /\ Peel(Points(target)) \in Object
  <2>1. Points(target) \in Object
    BY <1>1 DEF Points, RInv, TypeOK
  <2> QED
    BY <2>1, PeelType DEF Object
<1>2. ASSUME pc = "resolve", Goto("fallback"), UNCHANGED <<sha, ref, work>>
      PROVE  RInv'
  <2>1. ShaInv' /\ LoadedInv' /\ WorkInv'
    BY <1>2 DEF Goto, ShaInv, LoadedInv, WorkInv
  <2>2. Len(results) = 0 /\ results \in Seq(Pair)
    BY <1>2 DEF RInv, TypeOK, ResultInv
  <2>3. ResultInv'
    BY <1>2, <2>2 DEF Goto, ResultInv
  <2> QED
    BY <1>2, <2>1, <2>3, GotoKeeps DEF RInv, TypeOK, State
<1> QED
  BY <1>1, <1>2, ResolvedKeeps, FailureKeeps DEF RevParse, RevList

LEMMA StampKeeps ==
  ASSUME RInv, Stamp
  PROVE  RInv'
<1>1. ASSUME pc = "stamp", Goto("reference"), UNCHANGED <<sha, ref, work>>
      PROVE  RInv'
  <2>1. ShaInv' /\ LoadedInv' /\ WorkInv'
    BY <1>1 DEF RInv, Goto, arguments, ShaInv, LoadedInv, WorkInv
  <2>2. Len(results) = 0 /\ results \in Seq(Pair)
    BY <1>1 DEF RInv, TypeOK, ResultInv
  <2>3. ResultInv'
    BY <1>1, <2>2 DEF Goto, ResultInv
  <2> QED
    BY <1>1, <2>1, <2>3, GotoKeeps DEF RInv, TypeOK, State
<1> QED
  BY <1>1, FailureKeeps DEF Stamp

\* What both scripts compare with, if anything.
LEMMA ReferenceKeeps ==
  ASSUME RInv, Reference
  PROVE  RInv'
<1>1. Len(results) = 0 /\ results \in Seq(Pair)
  BY DEF Reference, RInv, TypeOK, ResultInv
<1>2. ASSUME Goto("extract"), UNCHANGED <<sha, work>>, ref' \in Pair \cup {None}, LoadedInv'
      PROVE  RInv'
  <2>1. pc = "reference"
    BY DEF Reference
  <2>2. ShaInv' /\ WorkInv'
    BY <1>2, <2>1 DEF RInv, Goto, arguments, ShaInv, WorkInv
  <2>3. ResultInv'
    BY <1>1, <1>2 DEF Goto, ResultInv
  <2> QED
    BY <1>2, <2>1, <2>2, <2>3, GotoKeeps DEF RInv, TypeOK, State
<1>3. ASSUME given # None, NEW w \in given.wheels, NEW s \in given.sdists,
             ref' = [wheel |-> w, sdist |-> s], Goto("extract"), UNCHANGED <<sha, work>>
      PROVE  RInv'
  <2>1. given \in [wheels : SUBSET Artifact, sdists : SUBSET Artifact]
    BY <1>3, ReferencesAssumption DEF RInv, TypeOK
  <2>2. ref' \in Pair /\ ref' # None
    BY <1>3, <2>1, NoneAssumption DEF Pair
  <2>3. LoadedInv'
    BY <1>3, <2>2 DEF Goto, arguments, LoadedInv
  <2> QED
    BY <1>2, <1>3, <2>2, <2>3
<1>4. ASSUME given = None, Goto("extract"), UNCHANGED <<sha, work>>,
             ref' = IF script = "reproduce" /\ target = Known THEN Official ELSE None
      PROVE  RInv'
  <2>1. ref' \in Pair \cup {None}
    BY <1>4, OfficialType
  <2>2. LoadedInv'
    BY <1>4 DEF Goto, arguments, LoadedInv
  <2> QED
    BY <1>2, <1>4, <2>1, <2>2
<1> QED
  BY <1>3, <1>4, FailureKeeps DEF Reference

LEMMA ExtractKeeps ==
  ASSUME RInv, Extract
  PROVE  RInv'
<1>1. ASSUME work' = Tree(Peel(sha)), Goto("environment"), UNCHANGED <<sha, ref>>
      PROVE  RInv'
  <2>1. pc = "extract" /\ Peel(sha) \in Commit
    BY PeelType DEF Extract, RInv, ShaInv
  <2>2. work' \in WorkTree
    BY <1>1, <2>1, LayoutAssumption DEF Tree, WorkTree
  <2>3. WorkInv'
    BY <1>1, <2>2 DEF Goto, arguments, WorkInv, Tree, Peel
  <2>4. ShaInv' /\ LoadedInv'
    BY <1>1, <2>1 DEF RInv, Goto, arguments, ShaInv, LoadedInv
  <2>5. ResultInv'
    BY <1>1, <2>1 DEF RInv, Goto, arguments, ResultInv, BuiltWell, Peel
  <2> QED
    BY <1>1, <2>1, <2>2, <2>3, <2>4, <2>5, GotoKeeps DEF RInv, TypeOK, State
<1> QED
  BY <1>1, FailureKeeps DEF Extract

LEMMA EnvironmentKeeps ==
  ASSUME RInv, Environment
  PROVE  RInv'
<1>1. ASSUME Goto(IF script = "verify" THEN "build" ELSE "hook"), UNCHANGED <<sha, ref, work>>
      PROVE  RInv'
  <2>1. pc = "environment" /\ script \in {"verify", "reproduce"}
    BY DEF Environment, RInv, TypeOK
  <2>2. WorkInv'
    BY <1>1, <2>1 DEF RInv, Goto, arguments, WorkInv, Peel
  <2>3. ShaInv' /\ LoadedInv'
    BY <1>1, <2>1 DEF RInv, Goto, arguments, ShaInv, LoadedInv
  <2>4. ResultInv'
    BY <1>1, <2>1 DEF RInv, Goto, arguments, ResultInv, BuiltWell, Peel
  <2> QED
    BY <1>1, <2>1, <2>2, <2>3, <2>4, GotoKeeps DEF RInv, TypeOK, State
<1> QED
  BY <1>1, FailureKeeps DEF Environment

LEMMA HookKeeps ==
  ASSUME RInv, Hook
  PROVE  RInv'
<1>1. ASSUME work' = [work EXCEPT !.hook = Layout[work.of].backend], Goto("build"),
             UNCHANGED <<sha, ref>>
      PROVE  RInv'
  <2>1. pc = "hook" /\ Peel(sha) \in Commit
    BY PeelType DEF Hook, RInv, ShaInv
  <2>2. work \in WorkTree /\ work.of = Peel(sha) /\ Layout[Peel(sha)].backend \in BOOLEAN
    BY <2>1, LayoutAssumption DEF RInv, WorkInv
  <2>3. work' \in WorkTree /\ work'.of = work.of /\ work'.dist = work.dist
    BY <1>1, <2>2 DEF WorkTree
  <2>4. WorkInv'
    BY <1>1, <2>1, <2>3 DEF RInv, Goto, arguments, WorkInv, Peel
  <2>5. ShaInv' /\ LoadedInv'
    BY <1>1, <2>1 DEF RInv, Goto, arguments, ShaInv, LoadedInv
  <2>6. ResultInv'
    BY <1>1, <2>1 DEF RInv, Goto, arguments, ResultInv, BuiltWell, Peel
  <2> QED
    BY <1>1, <2>1, <2>3, <2>4, <2>5, <2>6, GotoKeeps DEF RInv, TypeOK, State
<1> QED
  BY <1>1, FailureKeeps DEF Hook

\* A build makes artifacts of the commit, and what is measured is one of those
\* unless the commit brings its own.
LEMMA BuildWell ==
  ASSUME RInv, pc = "build", NEW w \in Buildable(WheelTrace), NEW s \in Buildable(SdistTrace),
         NEW m \in Measured(w, s)
  PROVE  /\ m \in Pair /\ [wheel |-> w, sdist |-> s] \in Pair
         /\ BuiltWell([wheel |-> w, sdist |-> s], m)
<1>1. /\ Peel(sha) \in Commit /\ work \in WorkTree /\ work.of = Peel(sha)
      /\ work.dist = Layout[Peel(sha)].dist
  BY PeelType DEF RInv, ShaInv, WorkInv
<1>2. host \subseteq Trace
  BY HostsAssumption DEF RInv, TypeOK
<1>3. w \in Artifact /\ s \in Artifact /\ w.of = Peel(sha) /\ s.of = Peel(sha)
  <2>1. ASSUME NEW x, x \subseteq Trace, NEW a \in Buildable(x)
        PROVE  a \in Artifact /\ a.of = Peel(sha)
    <3>1. PICK p \in Patched, d \in Difference :
                  a = [of |-> work.of, traces |-> (host \cap x) \ p, differs |-> d]
      BY DEF Buildable
    <3> QED
      BY <1>1, <1>2, <3>1 DEF Artifact
  <2> QED
    BY <2>1 DEF Trace
<1>5. work.dist \subseteq Artifact
  BY <1>1 DEF WorkTree
<1>6. m \in Pair /\ [wheel |-> w, sdist |-> s] \in Pair
  BY <1>3, <1>5 DEF Measured, Pair
<1>7. ASSUME Layout[Peel(sha)].dist = {} PROVE m = [wheel |-> w, sdist |-> s]
  BY <1>1, <1>7 DEF Measured
<1> QED
  BY <1>3, <1>6, <1>7 DEF BuiltWell

LEMMA BuildKeeps ==
  ASSUME RInv, Build
  PROVE  RInv'
<1>1. ASSUME NEW w \in Buildable(WheelTrace), NEW s \in Buildable(SdistTrace),
             NEW m \in Measured(w, s),
             made' = Append(made, [wheel |-> w, sdist |-> s]),
             results' = Append(results, m), work' = None,
             pc' = IF script = "verify" /\ results = <<>> THEN "extract" ELSE "verdict",
             UNCHANGED <<arguments, world, sha, ref, outcome, exit>>
      PROVE  RInv'
  <2> DEFINE n == Len(results)
  <2>1. pc = "build" /\ script \in {"verify", "reproduce"}
    BY DEF Build, RInv, TypeOK
  <2>2. /\ m \in Pair /\ [wheel |-> w, sdist |-> s] \in Pair
        /\ BuiltWell([wheel |-> w, sdist |-> s], m)
    BY <2>1, BuildWell
  <2>3. results \in Seq(Pair) /\ made \in Seq(Pair) /\ n \in Nat /\ Len(made) = n
    BY DEF RInv, TypeOK
  <2>4. /\ results' \in Seq(Pair) /\ Len(results') = n + 1
        /\ results'[n + 1] = m /\ \A i \in 1..n : results'[i] = results[i]
    BY <1>1, <2>2, <2>3, AppendProperties
  <2>5. /\ made' \in Seq(Pair) /\ Len(made') = n + 1
        /\ made'[n + 1] = [wheel |-> w, sdist |-> s] /\ \A i \in 1..n : made'[i] = made[i]
    BY <1>1, <2>2, <2>3, AppendProperties
  <2>6. n = 0 \/ (script = "verify" /\ n = 1)
    BY <2>1 DEF RInv, ResultInv
  <2>7. results = <<>> <=> n = 0
    BY <2>3, EmptySeq
  <2>8. /\ pc' = "extract" => Len(results') = 1 /\ script' = "verify"
        /\ pc' = "verdict" => Len(results') = IF script' = "verify" THEN 2 ELSE 1
    BY <1>1, <2>1, <2>4, <2>6, <2>7 DEF arguments
  <2>9. \A i \in 1..Len(results') : BuiltWell(made[i], results[i])'
    <3> TAKE i \in 1..Len(results')
    <3>1. CASE i \in 1..n
      BY <1>1, <2>1, <2>4, <2>5, <3>1 DEF RInv, ResultInv, BuiltWell, arguments, Peel
    <3>2. CASE i = n + 1
      BY <1>1, <2>2, <2>4, <2>5, <3>2 DEF BuiltWell, arguments, Peel
    <3> QED
      BY <2>3, <2>4, <3>1, <3>2
  <2>10. ResultInv'
    BY <1>1, <2>8, <2>9 DEF ResultInv
  <2>11. ShaInv' /\ LoadedInv' /\ WorkInv'
    BY <1>1, <2>1 DEF RInv, ShaInv, LoadedInv, WorkInv, arguments
  <2>12. TypeOK'
    BY <1>1, <2>4, <2>5 DEF RInv, TypeOK, arguments, world, State
  <2>13. OpenInv' /\ Sound'
    <3>1. outcome' = None /\ exit' = None
      BY <1>1, <2>1 DEF RInv, OpenInv
    <3> QED
      BY <3>1, NoneAssumption
      DEF OpenInv, Sound, ReproducibleSound, SuccessSound
  <2> QED
    BY <2>10, <2>11, <2>12, <2>13 DEF RInv
<1> QED
  BY <1>1, FailureKeeps DEF Build

-----------------------------------------------------------------------------
\* A run that ends with an outcome that is sound.
LEMMA OutcomeKeeps ==
  ASSUME RInv, NEW o, NEW code, Stop(o, code), Sound'
  PROVE  RInv'
<1>1. TypeOK'
  BY DEF RInv, TypeOK, Stop, arguments, world, State
<1> QED
  BY <1>1 DEF RInv, Stop, ShaInv, LoadedInv, WorkInv, ResultInv, OpenInv

\* What is known when all builds are done.
LEMMA AtVerdict ==
  ASSUME RInv, pc = "verdict"
  PROVE  /\ results \in Seq(Pair) /\ made \in Seq(Pair) /\ Len(made) = Len(results)
         /\ Len(results) = IF script = "verify" THEN 2 ELSE 1
         /\ \A i \in 1..Len(results) : results[i] \in Pair /\ BuiltWell(made[i], results[i])
         /\ Layout[Peel(sha)].dist = {} => results = made
<1>1. /\ results \in Seq(Pair) /\ made \in Seq(Pair) /\ Len(made) = Len(results)
      /\ Len(results) = IF script = "verify" THEN 2 ELSE 1
      /\ \A i \in 1..Len(results) : BuiltWell(made[i], results[i])
  BY DEF RInv, TypeOK, ResultInv
<1>2. \A i \in 1..Len(results) : results[i] \in Pair
  BY <1>1, ElementOfSeq
<1>3. ASSUME Layout[Peel(sha)].dist = {} PROVE results = made
  BY <1>1, <1>3, SeqEqual DEF BuiltWell
<1> QED
  BY <1>1, <1>2, <1>3

\* Two pairs are equal if their components are.
LEMMA PairEqual ==
  ASSUME NEW a \in Pair, NEW b \in Pair, a.wheel = b.wheel, a.sdist = b.sdist
  PROVE  a = b
BY DEF Pair

LEMMA VerdictKeeps ==
  ASSUME RInv, Verdict
  PROVE  RInv'
<1>1. pc = "verdict" /\ script = "verify"
  BY DEF Verdict
<1>2. CASE Reproducible
  <2>1. Stop("REPRODUCIBLE", 0)
    BY <1>2, Zenon DEF Verdict
  <2>2. /\ outcome' = "REPRODUCIBLE" /\ exit' = 0
        /\ UNCHANGED <<script, target, given, sha, ref, results, made>>
    BY <2>1 DEF Stop, arguments
  <2>3. /\ Len(results) = 2 /\ results[1] \in Pair /\ results[2] \in Pair
        /\ BuiltWell(made[1], results[1]) /\ BuiltWell(made[2], results[2])
        /\ Layout[Peel(sha)].dist = {} => results = made
    BY <1>1, AtVerdict
  <2>4. results[1] = results[2]
    BY <1>2, <2>3, PairEqual DEF Reproducible, TwoAlike
  <2>5. ASSUME given # None
        PROVE  results[1].wheel \in given.wheels /\ results[1].sdist \in given.sdists
    BY <1>1, <1>2, <2>5 DEF Reproducible, LikeReference, RInv, LoadedInv
  <2>6. \A i \in 1..2 : made[i].wheel.of = Peel(sha) /\ made[i].sdist.of = Peel(sha)
    BY <2>3 DEF BuiltWell
  <2>7. ReproducibleSound'
    BY <2>2, <2>3, <2>4, <2>5, <2>6 DEF ReproducibleSound, Peel
  <2>8. SuccessSound'
    BY <1>1, <2>2 DEF SuccessSound
  <2> QED
    BY <2>1, <2>7, <2>8, OutcomeKeeps DEF Sound
<1>3. CASE ~Reproducible
  <2>1. Stop("NON_REPRODUCIBLE", 1)
    BY <1>3, Zenon DEF Verdict
  <2> QED
    BY <2>1, StopKeeps
<1> QED
  BY <1>2, <1>3

LEMMA SuccessKeeps ==
  ASSUME RInv, pc = "verdict", script = "reproduce", ref # None, LikeReference,
         NEW code \in {0, 1}, Stop("SUCCESS", code)
  PROVE  RInv'
<1>1. /\ outcome' = "SUCCESS"
      /\ UNCHANGED <<script, target, given, sha, ref, results, made>>
  BY DEF Stop, arguments
<1>2. /\ Len(results) = 1 /\ results[1] \in Pair /\ BuiltWell(made[1], results[1])
      /\ Layout[Peel(sha)].dist = {} => results = made
  BY AtVerdict
<1>3. ref \in Pair /\ results[1] = ref
  BY <1>2, PairEqual DEF LikeReference, RInv, TypeOK
<1>4. IF given = None
      THEN target = Known /\ results[1] = Official
      ELSE results[1].wheel \in given.wheels /\ results[1].sdist \in given.sdists
  BY <1>3 DEF RInv, LoadedInv
<1>5. ASSUME target = Known PROVE made[1].wheel.of = OfficialCommit
  <2>1. sha = OfficialCommit
    BY <1>5 DEF RInv, ShaInv
  <2>2. Peel(sha) = OfficialCommit
    BY <2>1, OfficialAssumption, TaggedAssumption DEF Peel
  <2> QED
    BY <1>2, <2>2 DEF BuiltWell
<1>6. SuccessSound'
  BY <1>1, <1>2, <1>4, <1>5 DEF SuccessSound, BuiltWell, Peel
<1>7. ReproducibleSound'
  BY <1>1 DEF ReproducibleSound
<1> QED
  BY <1>6, <1>7, OutcomeKeeps DEF Sound

LEMMA StatusKeeps ==
  ASSUME RInv, Status
  PROVE  RInv'
<1>1. pc = "verdict" /\ script = "reproduce"
  BY DEF Status
<1> DEFINE S(written) ==
             CASE ref = None                  -> Stop("BUILD_ONLY", 1)
               [] ref # None /\ LikeReference -> Stop("SUCCESS", IF written THEN 0 ELSE 1)
               [] OTHER                       -> Stop("MISMATCH", 1)
<1>0. PICK written \in BOOLEAN : S(written)
  BY DEF Status
<1>2. CASE ref = None
  <2>1. Stop("BUILD_ONLY", 1)
    BY <1>0, <1>2
  <2> QED
    BY <2>1, StopKeeps
<1>3. CASE ref # None /\ LikeReference
  <2>1. Stop("SUCCESS", IF written THEN 0 ELSE 1)
    BY <1>0, <1>3
  <2> QED
    BY <1>1, <1>3, <2>1, SuccessKeeps
<1>4. CASE ref # None /\ ~LikeReference
  <2>1. Stop("MISMATCH", 1)
    BY <1>0, <1>4
  <2> QED
    BY <2>1, StopKeeps
<1> QED
  BY <1>2, <1>3, <1>4

LEMMA StutterKeeps ==
  ASSUME RInv, UNCHANGED vars
  PROVE  RInv'
<1>1. /\ UNCHANGED <<script, target, given, host, refs, store, moves>>
      /\ UNCHANGED <<pc, sha, ref, work, results, made, outcome, exit>>
  BY DEF vars, arguments, world
<1>2. TypeOK'
  BY <1>1 DEF RInv, TypeOK
<1>3. Sound'
  BY <1>1 DEF RInv, Sound, ReproducibleSound, SuccessSound
<1> QED
  BY <1>1, <1>2, <1>3
  DEF RInv, ShaInv, LoadedInv, WorkInv, ResultInv, BuiltWell, OpenInv

\* The invariant holds throughout.
THEOREM ReleaseInvariant == Spec => []RInv
<1>1. RInv /\ [Next]_vars => RInv'
  BY ElsewhereKeeps, RevParseKeeps, StampKeeps, ReferenceKeeps, ExtractKeeps, EnvironmentKeeps,
     HookKeeps, BuildKeeps, VerdictKeeps, StatusKeeps, StutterKeeps
  DEF Next
<1> QED
  BY <1>1, InitInv, PTL DEF Spec

\* verify_reproducibility.py prints REPRODUCIBLE, and returns 0, only of two
\* equal builds of the commit it resolved, equal to the reference if one was
\* asked for, whatever happens to the repository meanwhile.
THEOREM Reproducibility == Spec => []ReproducibleSound
<1>1. RInv => ReproducibleSound  BY DEF RInv, Sound
<1> QED  BY <1>1, ReleaseInvariant, PTL

\* reproduce_release.py returns 0 only of a build that equals its reference;
\* of a known release, a build of the official commit.
THEOREM Reproduction == Spec => []SuccessSound
<1>1. RInv => SuccessSound  BY DEF RInv, Sound
<1> QED  BY <1>1, ReleaseInvariant, PTL

=============================================================================
