--------------------------- MODULE LearningProofs ---------------------------
(***************************************************************************)
(* Theorems about Learning: what an engine adopts, for any number of       *)
(* refits, detectors, chains, crashes in mid-write and edits of the rules, *)
(* and whatever the maps and the tests of the thresholds compute; then of  *)
(* what they compute, on samples of any length: the test's tail, the       *)
(* released threshold, the ranking metrics and the fitted map.  What an    *)
(* engine serves stands between the two, after the sorting it rests on.    *)
(***************************************************************************)
EXTENDS Learning, Samples, Arithmetic, SequenceTheorems

\* What is kept of a refit: maps fitted on one fold, thresholds certified on the other.
Kept(routes, rows) ==
  /\ Numbered(DOMAIN rows)
  /\ \A r \in DOMAIN routes : routes[r] = RouteCalibration(rows, r)

Job(at, version, rows, outcome) ==
  [at |-> at, detector |-> version, rows |-> rows, outcome |-> outcome]
Engine(version, maps, thresholds, rows, source, raised) ==
  [detector |-> version, maps |-> maps, thresholds |-> thresholds, rows |-> rows,
   source |-> source, raised |-> raised]
File(version, routes, rows, whole, mtime) ==
  [detector |-> version, routes |-> routes, rows |-> rows, whole |-> whole, mtime |-> mtime]

(***************************************************************************)
(* Why LoadsLastRelease is not inductive: an engine reads the newest file  *)
(* that is its own or torn.  OnTime states that a file is no newer than    *)
(* the refit at work, and older unless that refit has opened it; AsLast,   *)
(* that of each detector's files the newest, if it is whole, holds what    *)
(* was released last.  A torn file may hide it and never shows another.    *)
(***************************************************************************)
LearningTypes ==
  /\ detector \in Version /\ runs \in Nat
  /\ job.at \in {"idle", "refitted", "reported", "writing"}
  /\ job = Job(job.at, job.detector, job.rows, job.outcome)
  /\ job.at # "idle" => job.detector \in Version
  /\ engine = Engine(engine.detector, engine.maps, engine.thresholds, engine.rows,
                     engine.source, engine.raised)
  /\ engine.detector \in Version
  /\ Numbered(DOMAIN chain.decisions)
  /\ released = [v \in Version |-> released[v]]
  /\ \A f \in learned :
       /\ f = File(f.detector, f.routes, f.rows, f.whole, f.mtime)
       /\ f.detector \in Version /\ f.whole \in BOOLEAN /\ f.mtime \in Nat

OnTime ==
  \A f \in learned :
    \/ f.mtime < runs
    \/ job.at = "idle" /\ f.mtime = runs
    \/ job.at = "writing" /\ f = Artifact(FALSE)

AsLast ==
  \A f \in learned :
    f.whole /\ (\A g \in learned : g.detector = f.detector => g.mtime <= f.mtime)
      => f.routes = released[f.detector]

InHand ==
  /\ job.at # "idle" => Kept(job.outcome.accepted, job.rows)
  /\ \A f \in learned : Kept(f.routes, f.rows)

LearningInv == LearningTypes /\ OnTime /\ AsLast /\ InHand

-----------------------------------------------------------------------------
(* The newest of the files that are no newer than a time.                   *)

LEMMA NewestIsLast ==
  ASSUME NEW files, files # {}, NEW now \in Nat,
         \A f \in files : f.mtime \in Nat /\ f.mtime <= now
  PROVE  /\ Newest(files) \in files
         /\ \A g \in files : g.mtime <= Newest(files).mtime
<1> DEFINE Ages == {now - f.mtime : f \in files}
<1>1. Ages \subseteq Nat /\ Ages # {}
  OBVIOUS
<1>2. OpToRel(<, Nat) = {p \in Nat \X Nat : p[1] < p[2]}
  BY Zenon DEF OpToRel
<1>3. IsWellFoundedOn({p \in Nat \X Nat : p[1] < p[2]}, Nat)
  BY <1>2, NatLessThanWellFounded, Zenon
<1>4. PICK a \in Ages : \A b \in Ages : a <= b
  <2> DEFINE R == {p \in Nat \X Nat : p[1] < p[2]}
  <2>1. IsWellFoundedOn(R, Nat)
    BY <1>3
  <2>2. \A x, y \in Nat : x < y => <<x, y>> \in R
    OBVIOUS
  <2> HIDE DEF Ages, R
  <2>3. PICK a \in Ages : \A b \in Ages : ~(<<b, a>> \in R)
    BY <1>1, <2>1, WFMin
  <2>4. \A b \in Ages : ~(b < a)
    BY <1>1, <2>2, <2>3
  <2>5. \A b \in Ages : a <= b
    BY <1>1, <2>4
  <2> QED BY <2>5
<1>5. PICK f \in files : a = now - f.mtime
  OBVIOUS
<1>6. ASSUME NEW g \in files PROVE g.mtime <= f.mtime
  <2>1. now - g.mtime \in Ages
    OBVIOUS
  <2> HIDE DEF Ages
  <2> QED BY <1>4, <1>5, <2>1
<1> HIDE DEF Ages
<1> QED BY <1>6 DEF Newest

\* What latest_artifact returns, where it does not raise, is the release.
LEMMA LatestIsReleased ==
  ASSUME LearningInv, NEW v \in Version, ~Raises(v), Reached(v) # {}
  PROVE  /\ Newest(Reached(v)) \in learned
         /\ Newest(Reached(v)).routes = released[v]
<1> DEFINE N == Newest(Reached(v))
<1>1. \A f \in Reached(v) : f.mtime \in Nat /\ f.mtime <= runs
  BY DEF LearningInv, LearningTypes, OnTime, Artifact, Reached
<1>2. N \in Reached(v) /\ \A g \in Reached(v) : g.mtime <= N.mtime
  BY <1>1, NewestIsLast DEF LearningInv, LearningTypes
<1>3. N \in learned /\ N.whole /\ N.detector = v
  BY <1>2 DEF Raises, Reached
<1>4. \A g \in learned : g.detector = v => g.mtime <= N.mtime
  BY <1>2 DEF Reached
<1> QED BY <1>3, <1>4 DEF LearningInv, AsLast

LEMMA RefitsAreKept ==
  ASSUME NEW decisions, NEW reviews, Numbered(DOMAIN decisions), NEW incumbent
  PROVE  LET rows == Collect(decisions, reviews)
         IN  Kept(RefitOutcome(rows, incumbent).accepted, rows)
<1> DEFINE rows == Collect(decisions, reviews)
<1>1. DOMAIN rows \in SUBSET DOMAIN decisions
  BY DEF Collect
<1> HIDE DEF rows
<1>2. Numbered(DOMAIN rows)
  BY <1>1, FS_Subset DEF Numbered
<1>3. \A r \in DOMAIN RefitOutcome(rows, incumbent).accepted :
        RefitOutcome(rows, incumbent).accepted[r] = RouteCalibration(rows, r)
  BY DEF RefitOutcome
<1> QED BY <1>2, <1>3 DEF Kept, rows

-----------------------------------------------------------------------------
(* One lemma for each step that touches files, the job or an engine.        *)

LEMMA LearningStarts == LearningInit => LearningInv
<1> SUFFICES ASSUME LearningInit PROVE LearningInv
  OBVIOUS
<1>1. 1 \in Version
  BY LearningAssumption DEF Version
<1>2. Numbered(DOMAIN NoFunction)
  BY FS_EmptySet DEF Numbered, NoFunction
<1>3. LearningTypes
  BY <1>1, <1>2 DEF LearningInit, LearningTypes, Idle, Job, NewEngine, Engine
<1> QED BY <1>3 DEF LearningInit, LearningInv, OnTime, AsLast, InHand, Idle

LEMMA RelearnKeeps == ASSUME LearningInv, Relearn PROVE LearningInv'
<1> DEFINE rows == Collect(chain.decisions, chain.reviews)
           outcome == RefitOutcome(rows, Latest(detector).routes)
<1>1. job' = Job("refitted", detector, rows, outcome)
  BY DEF Relearn, Job
<1>2. Kept(outcome.accepted, rows)
  BY RefitsAreKept DEF LearningInv, LearningTypes
<1> HIDE DEF rows, outcome
<1>3. LearningTypes'
  BY <1>1 DEF LearningInv, LearningTypes, Relearn, Job
<1>4. OnTime'
  BY DEF LearningInv, LearningTypes, OnTime, Relearn
<1>5. AsLast' /\ InHand'
  BY <1>1, <1>2 DEF LearningInv, AsLast, InHand, Kept, Relearn, Job
<1> QED BY <1>3, <1>4, <1>5 DEF LearningInv

LEMMA ReportKeeps == ASSUME LearningInv, WriteRefitReport PROVE LearningInv'
<1>1. job' = Idle \/ job' = Job("reported", job.detector, job.rows, job.outcome)
  BY DEF WriteRefitReport, LearningInv, LearningTypes, Job
<1>2. LearningTypes'
  BY <1>1 DEF LearningInv, LearningTypes, WriteRefitReport, Job, Idle
<1>3. OnTime' /\ AsLast'
  BY DEF LearningInv, OnTime, AsLast, WriteRefitReport
<1>4. InHand'
  BY <1>1 DEF LearningInv, InHand, Kept, WriteRefitReport, Job, Idle
<1> QED BY <1>2, <1>3, <1>4 DEF LearningInv

\* The file that is opened is the newest of all: nothing whole is newer.
LEMMA BeginKeeps == ASSUME LearningInv, BeginWrite PROVE LearningInv'
<1> DEFINE torn == File(job.detector, job.outcome.accepted, job.rows, FALSE, runs)
<1>1. /\ job' = Job("writing", job.detector, job.rows, job.outcome)
      /\ learned' = {f \in learned : ~SameName(f)} \cup {torn}
      /\ UNCHANGED <<detector, chain, released, engine, runs>>
  BY DEF BeginWrite, LearningInv, LearningTypes, Job, Opened, Artifact, File
<1>2. /\ torn.detector = job.detector /\ torn.routes = job.outcome.accepted
      /\ torn.rows = job.rows /\ torn.whole = FALSE /\ torn.mtime = runs
      /\ torn = Artifact(FALSE)'
  BY <1>1 DEF File, Artifact, Job
<1>3. \A f \in learned : f.mtime < runs
  BY DEF BeginWrite, LearningInv, OnTime
<1>4. \A f \in learned' : (f \in learned /\ ~SameName(f)) \/ f = torn
  BY <1>1
<1>5. LearningTypes'
  <2>1. job.detector \in Version /\ runs \in Nat
    BY DEF BeginWrite, LearningInv, LearningTypes
  <2>2. \A f \in learned' :
          /\ f = File(f.detector, f.routes, f.rows, f.whole, f.mtime)
          /\ f.detector \in Version /\ f.whole \in BOOLEAN /\ f.mtime \in Nat
    <3> SUFFICES ASSUME NEW f \in learned'
                 PROVE  /\ f = File(f.detector, f.routes, f.rows, f.whole, f.mtime)
                        /\ f.detector \in Version /\ f.whole \in BOOLEAN /\ f.mtime \in Nat
      OBVIOUS
    <3>1. CASE f \in learned
      BY <3>1 DEF LearningInv, LearningTypes
    <3>2. CASE f = torn
      BY <2>1, <3>2 DEF File
    <3> QED BY <1>4, <3>1, <3>2
  <2>3. job' = Job(job'.at, job'.detector, job'.rows, job'.outcome)
        /\ job'.at = "writing" /\ job'.detector = job.detector
    BY <1>1 DEF Job
  <2> QED BY <1>1, <2>1, <2>2, <2>3 DEF LearningInv, LearningTypes
<1> HIDE DEF torn
<1>6. OnTime'
  BY <1>1, <1>2, <1>3, <1>4 DEF OnTime, Job
<1>7. AsLast'
  <2> SUFFICES ASSUME NEW f \in learned', f.whole,
                      \A g \in learned' : g.detector = f.detector => g.mtime <= f.mtime
               PROVE  f.routes = released[f.detector]
    BY <1>1 DEF AsLast
  <2>1. f \in learned /\ f.mtime < runs /\ f.mtime \in Nat /\ runs \in Nat
    BY <1>2, <1>3, <1>4 DEF LearningInv, LearningTypes
  <2>2. f.detector # job.detector
    <3>1. torn \in learned'
      BY <1>1
    <3>2. torn.detector = job.detector /\ torn.mtime = runs
      BY <1>2
    <3>3. ~(torn.mtime <= f.mtime)
      BY <2>1, <3>2
    <3> QED BY <3>1, <3>2, <3>3
  <2>3. \A g \in learned : g.detector = f.detector => g \in learned'
    BY <1>1, <2>2 DEF SameName
  <2> QED BY <2>1, <2>3 DEF LearningInv, AsLast
<1>8. InHand'
  <2>1. Kept(job.outcome.accepted, job.rows) /\ \A f \in learned : Kept(f.routes, f.rows)
    BY DEF LearningInv, InHand, BeginWrite
  <2>2. job'.outcome = job.outcome /\ job'.rows = job.rows
    BY <1>1 DEF Job
  <2>3. \A f \in learned' : Kept(f.routes, f.rows)
    BY <1>2, <1>4, <2>1
  <2> QED BY <2>1, <2>2, <2>3 DEF InHand, Kept
<1> QED BY <1>5, <1>6, <1>7, <1>8 DEF LearningInv

\* The file that ends is its detector's newest, and what it holds the release.
LEMMA EndKeeps == ASSUME LearningInv, EndWrite PROVE LearningInv'
<1>1. job' = Job("idle", 0, NoFunction, Idle.outcome)
  BY DEF EndWrite, Idle, Job
<1> DEFINE torn == File(job.detector, job.outcome.accepted, job.rows, FALSE, runs)
           done == File(job.detector, job.outcome.accepted, job.rows, TRUE, runs)
<1>2. learned' = (learned \ {torn}) \cup {done} /\ UNCHANGED <<detector, chain, engine, runs>>
  BY DEF EndWrite, Artifact, File
<1>3. /\ done.detector = job.detector /\ done.routes = job.outcome.accepted
      /\ done.rows = job.rows /\ done.whole = TRUE /\ done.mtime = runs
      /\ torn.detector = job.detector
  BY DEF File
<1>4. \A f \in learned' : (f \in learned /\ f.mtime < runs) \/ f = done
  BY <1>2 DEF EndWrite, LearningInv, OnTime, Artifact, File
<1>5. /\ job.detector \in Version
      /\ released' = [released EXCEPT ![job.detector] = job.outcome.accepted]
  BY DEF EndWrite, LearningInv, LearningTypes
<1>6. LearningTypes'
  <2>1. runs \in Nat
    BY DEF LearningInv, LearningTypes
  <2>2. \A f \in learned' :
          /\ f = File(f.detector, f.routes, f.rows, f.whole, f.mtime)
          /\ f.detector \in Version /\ f.whole \in BOOLEAN /\ f.mtime \in Nat
    <3> SUFFICES ASSUME NEW f \in learned'
                 PROVE  /\ f = File(f.detector, f.routes, f.rows, f.whole, f.mtime)
                        /\ f.detector \in Version /\ f.whole \in BOOLEAN /\ f.mtime \in Nat
      OBVIOUS
    <3>1. CASE f \in learned
      BY <3>1 DEF LearningInv, LearningTypes
    <3>2. CASE f = done
      BY <1>5, <2>1, <3>2 DEF File
    <3> QED BY <1>4, <3>1, <3>2
  <2>3. job' = Job(job'.at, job'.detector, job'.rows, job'.outcome) /\ job'.at = "idle"
    BY <1>1 DEF Job
  <2>4. released' = [v \in Version |-> released'[v]]
    BY <1>5 DEF LearningInv, LearningTypes
  <2> QED BY <1>2, <2>1, <2>2, <2>3, <2>4 DEF LearningInv, LearningTypes
<1> HIDE DEF torn, done
<1>7. OnTime'
  BY <1>1, <1>2, <1>3, <1>4 DEF OnTime, Job
<1>8. AsLast'
  <2> SUFFICES ASSUME NEW f \in learned', f.whole,
                      \A g \in learned' : g.detector = f.detector => g.mtime <= f.mtime
               PROVE  f.routes = released'[f.detector]
    BY DEF AsLast
  <2>1. CASE f = done
    BY <1>3, <1>5, <2>1 DEF LearningInv, LearningTypes
  <2>2. CASE f \in learned /\ f.mtime < runs
    <3>1. f.detector # job.detector
      BY <1>2, <1>3, <2>2 DEF LearningInv, LearningTypes
    <3>2. \A g \in learned : g.detector = f.detector => g \in learned'
      BY <1>2, <1>3, <3>1
    <3>3. f.routes = released[f.detector]
      BY <2>2, <3>2 DEF LearningInv, AsLast
    <3> QED BY <1>5, <2>2, <3>1, <3>3 DEF LearningInv, LearningTypes
  <2> QED BY <1>4, <2>1, <2>2
<1>9. InHand'
  <2>1. Kept(job.outcome.accepted, job.rows) /\ \A f \in learned : Kept(f.routes, f.rows)
    BY DEF LearningInv, InHand, EndWrite
  <2>2. \A f \in learned' : Kept(f.routes, f.rows)
    BY <1>3, <1>4, <2>1
  <2> QED BY <1>1, <2>2 DEF InHand, Kept, Job
<1> QED BY <1>6, <1>7, <1>8, <1>9 DEF LearningInv

LEMMA CrashKeeps == ASSUME LearningInv, Crash PROVE LearningInv'
<1>1. LearningTypes'
  BY DEF LearningInv, LearningTypes, Crash, Idle, Job
<1>2. OnTime'
  BY DEF LearningInv, OnTime, Crash, Idle, Artifact
<1>3. AsLast' /\ InHand'
  BY DEF LearningInv, AsLast, InHand, Kept, Crash, Idle
<1> QED BY <1>1, <1>2, <1>3 DEF LearningInv

\* Engines, and the rules and chains they are about, leave the files alone.
LEMMA FilesAside ==
  ASSUME LearningInv, UNCHANGED <<learned, job, released, runs>>, LearningTypes'
  PROVE  LearningInv'
BY DEF LearningInv, OnTime, AsLast, InHand, Kept, Artifact

\* What loading, fitting and failing to fit make of an engine.
LEMMA LoadsInto ==
  ASSUME LearningInv, LoadReleased
  PROVE  engine' = Engine(engine.detector, MapsOf(Latest(engine.detector).routes),
                          ThresholdsOf(Latest(engine.detector).routes),
                          Latest(engine.detector).rows, "artifact", FALSE)
BY DEF LearningInv, LearningTypes, LoadReleased, Engine

LEMMA FitsInto ==
  ASSUME LearningInv, CalibrateEngine
  PROVE  engine' = Engine(engine.detector, CorpusMaps,
                          [r \in Routes(Corpus) |-> ThresholdThrough(CorpusMaps, Corpus, r)],
                          Corpus, "corpus", FALSE)
BY DEF LearningInv, LearningTypes, CalibrateEngine, CalibrateThrough, Engine

LEMMA RaisesInto ==
  ASSUME LearningInv, CalibrateRaises
  PROVE  engine' = Engine(engine.detector, CorpusMaps, engine.thresholds, engine.rows,
                          engine.source, TRUE)
BY DEF LearningInv, LearningTypes, CalibrateRaises, Engine

LEMMA EngineKeeps ==
  ASSUME LearningInv, StartEngine \/ LoadReleased \/ CalibrateEngine \/ CalibrateRaises
  PROVE  LearningInv'
<1>1. LearningTypes'
  <2>1. CASE StartEngine
    BY <2>1 DEF LearningInv, LearningTypes, StartEngine, NewEngine, Engine
  <2>2. CASE LoadReleased
    BY <2>2, LoadsInto DEF LearningInv, LearningTypes, LoadReleased, Engine
  <2>3. CASE CalibrateEngine
    BY <2>3, FitsInto DEF LearningInv, LearningTypes, CalibrateEngine, CalibrateThrough, Engine
  <2>4. CASE CalibrateRaises
    BY <2>4, RaisesInto DEF LearningInv, LearningTypes, CalibrateRaises, Engine
  <2> QED BY <2>1, <2>2, <2>3, <2>4
<1> QED BY <1>1, FilesAside
        DEF StartEngine, LoadReleased, CalibrateEngine, CalibrateThrough, CalibrateRaises

LEMMA OthersKeep == ASSUME LearningInv, EditDetector \/ RunReport PROVE LearningInv'
<1>1. LearningTypes'
  <2>1. CASE EditDetector
    BY <2>1, LearningAssumption DEF LearningInv, LearningTypes, EditDetector, Version
  <2>2. CASE RunReport
    <3>1. PICK c \in Chains :
            chain' = [c EXCEPT !.decisions = [i \in DOMAIN c.decisions |->
                        [route |-> c.decisions[i].route, raw |-> c.decisions[i].raw,
                         verdict |-> c.decisions[i].verdict, by |-> detector]]]
      BY <2>2 DEF RunReport
    <3>2. /\ c = [decisions |-> c.decisions, reviews |-> c.reviews]
          /\ Numbered(DOMAIN c.decisions)
      BY ChainAssumption DEF RecordedSlots
    <3> DEFINE d == [i \in DOMAIN c.decisions |->
                       [route |-> c.decisions[i].route, raw |-> c.decisions[i].raw,
                        verdict |-> c.decisions[i].verdict, by |-> detector]]
    <3>3. chain' = [decisions |-> d, reviews |-> c.reviews] /\ DOMAIN d = DOMAIN c.decisions
      BY <3>1, <3>2
    <3> HIDE DEF d
    <3>4. Numbered(DOMAIN chain'.decisions)
      BY <3>2, <3>3
    <3> QED BY <2>2, <3>4 DEF LearningInv, LearningTypes, RunReport
  <2> QED BY <2>1, <2>2
<1> QED BY <1>1, FilesAside DEF EditDetector, RunReport

LEMMA LearningStep == LearningInv /\ [LearningNext]_learningVars => LearningInv'
<1> SUFFICES ASSUME LearningInv, [LearningNext]_learningVars PROVE LearningInv'
  OBVIOUS
<1>1. CASE UNCHANGED learningVars
  <2>1. LearningTypes'
    BY <1>1 DEF LearningInv, LearningTypes, learningVars
  <2> QED BY <1>1, <2>1, FilesAside DEF learningVars
<1> QED BY <1>1, RelearnKeeps, ReportKeeps, BeginKeeps, EndKeeps, CrashKeeps, EngineKeeps,
           OthersKeep DEF LearningNext

THEOREM LearningHolds == LearningSpec => []LearningInv
BY LearningStarts, LearningStep, PTL DEF LearningSpec

-----------------------------------------------------------------------------
\* The maps and thresholds that an engine adopts are those of the last release for its own
\* detectors, whatever was written, torn or released for others in between.
THEOREM EnginesLoadTheLastRelease == LearningSpec => LoadsLastRelease
<1> DEFINE Loads == engine' # engine /\ engine'.source = "artifact" /\ ~engine'.raised =>
                      /\ engine'.maps = MapsOf(released[engine'.detector])
                      /\ engine'.thresholds = ThresholdsOf(released[engine'.detector])
                      /\ engine'.detector = engine.detector
<1>1. ASSUME LearningInv, [LearningNext]_learningVars, engine' # engine PROVE Loads
  <2>1. CASE StartEngine
    BY <2>1 DEF StartEngine, NewEngine
  <2>2. CASE CalibrateEngine
    BY <1>1, <2>2, FitsInto DEF Engine
  <2>3. CASE CalibrateRaises
    BY <1>1, <2>3, RaisesInto DEF Engine
  <2>4. CASE LoadReleased
    <3>1. engine.detector \in Version /\ ~Raises(engine.detector) /\ Reached(engine.detector) # {}
      BY <1>1, <2>4 DEF LoadReleased, LearningInv, LearningTypes
    <3>2. Latest(engine.detector).routes = released[engine.detector]
      BY <1>1, <3>1, LatestIsReleased DEF Latest
    <3>3. /\ engine'.detector = engine.detector
          /\ engine'.maps = MapsOf(Latest(engine.detector).routes)
          /\ engine'.thresholds = ThresholdsOf(Latest(engine.detector).routes)
      BY <1>1, <2>4, LoadsInto DEF Engine
    <3> QED BY <3>2, <3>3
  <2> QED BY <1>1, <2>1, <2>2, <2>3, <2>4 DEF LearningNext, learningVars, EditDetector, RunReport,
             Relearn, WriteRefitReport, BeginWrite, EndWrite, Crash
<1>2. LearningInv /\ [LearningNext]_learningVars => [Loads]_learningVars
  BY <1>1
<1> HIDE DEF Loads
<1>3. LearningSpec => [][Loads]_learningVars
  BY <1>2, LearningHolds, PTL DEF LearningSpec
<1> QED BY <1>3 DEF Loads, LoadsLastRelease

-----------------------------------------------------------------------------
(* The weights of a refit.                                                  *)

\* So many equal terms add up to their product.
LEMMA SumOfEqual ==
  ASSUME NEW S, IsFiniteSet(S), NEW v, NEW w \in Int, \A x \in S : v[x] = w
  PROVE  SumOf(v, S) = Cardinality(S) * w
<1> DEFINE P == {s \in SUBSET S : SumOf(v, s) = Cardinality(s) * w}
<1>1. {} \in P
  BY SumOfNone, FS_EmptySet
<1>2. ASSUME NEW s \in SUBSET S, NEW x \in S \ s, s \in P PROVE s \cup {x} \in P
  <2>1. IsFiniteSet(s) /\ Cardinality(s) \in Nat
    BY FS_Subset, FS_CardinalityType
  <2>2. SumOf(v, s \cup {x}) = v[x] + SumOf(v, s)
    BY <2>1, SumOfMore
  <2>3. Cardinality(s \cup {x}) = Cardinality(s) + 1
    BY <2>1, FS_AddElement
  <2>4. SumOf(v, s) = Cardinality(s) * w /\ v[x] = w
    BY <1>2
  <2>5. (Cardinality(s) + 1) * w = w + Cardinality(s) * w
    BY <2>1
  <2> HIDE DEF P
  <2>6. SumOf(v, s \cup {x}) = Cardinality(s \cup {x}) * w
    BY <2>2, <2>3, <2>4, <2>5
  <2> QED BY <2>6 DEF P
<1>3. S \in P
  <2> HIDE DEF P
  <2> QED BY <1>1, <1>2, GrowingSets
<1> QED BY <1>3

\* A whole quotient times its divisor.
LEMMA WholeQuotient ==
  ASSUME NEW a \in Nat, NEW n \in Nat \ {0}, a % n = 0
  PROVE  a \div n \in Nat /\ n * (a \div n) = a
BY Z3

LEMMA QuotientIsPositive ==
  ASSUME NEW a \in Nat, NEW n \in Nat \ {0}, n <= a
  PROVE  a \div n > 0
BY Z3

\* On a recorded chain the rows of a route whose case was withheld are those
\* drawn at random, and they weigh as much as all the cases the route raised.
LEMMA DrawnRestoreRaised ==
  ASSUME NEW c, RecordedSlots(c), NEW r
  PROVE  LET rows == Collect(c.decisions, c.reviews)
             drawn == {i \in DOMAIN rows : rows[i].route = r /\ c.reviews[i].withheld}
         IN  drawn # {} =>
               /\ IsFiniteSet(drawn) /\ \A i \in drawn : c.reviews[i].random
               /\ \E w \in Nat : /\ \A i \in drawn : rows[i].weight = w
                                  /\ Cardinality(drawn) * w
                                       = WeightUnit * Cardinality(Raised(c.decisions, r))
<1> DEFINE decisions == c.decisions
           reviews == c.reviews
           R == Raised(decisions, r)
           S == Sampled(decisions, reviews, r)
           rows == Collect(decisions, reviews)
           drawn == {i \in DOMAIN rows : rows[i].route = r /\ reviews[i].withheld}
           a == WeightUnit * Cardinality(R)
<1> SUFFICES ASSUME drawn # {}
             PROVE  /\ IsFiniteSet(drawn) /\ \A i \in drawn : reviews[i].random
                    /\ \E w \in Nat : /\ \A i \in drawn : rows[i].weight = w
                                       /\ Cardinality(drawn) * w = a
  OBVIOUS
<1>1. /\ IsFiniteSet(R) /\ IsFiniteSet(S) /\ S \subseteq R
      /\ Cardinality(S) \in Nat /\ Cardinality(R) \in Nat /\ Cardinality(S) <= Cardinality(R)
  <2>1. R \subseteq DOMAIN decisions /\ S \subseteq R
    BY DEF Raised, Sampled
  <2>2. IsFiniteSet(R)
    BY <2>1, FS_Subset DEF RecordedSlots, Numbered
  <2> HIDE DEF R, S
  <2> QED BY <2>1, <2>2, FS_Subset, FS_CardinalityType
<1>2. a \in Nat /\ a >= Cardinality(R)
  <2>1. WeightUnit \in Nat \ {0} /\ Cardinality(R) \in Nat
    BY <1>1, RefitAssumption
  <2>2. \A x \in Nat \ {0}, y \in Nat : x * y \in Nat /\ x * y >= y
    BY Z3
  <2> HIDE DEF R
  <2> QED BY <2>1, <2>2
<1>3. \A i \in DOMAIN rows :
        /\ i \in DOMAIN decisions \cap DOMAIN reviews
        /\ rows[i].route = decisions[i].route
        /\ rows[i].weight = InclusionWeight(decisions, reviews, i)
        /\ InclusionWeight(decisions, reviews, i) > 0
  <2> HIDE DEF decisions, reviews
  <2> QED BY DEF Collect
<1>4. \A i \in drawn : reviews[i].random
  BY <1>3 DEF InclusionWeight
<1>5. drawn \subseteq S
  <2>1. ASSUME NEW i \in drawn PROVE i \in S
    <3>1. i \in DOMAIN decisions \cap DOMAIN reviews /\ decisions[i].route = r
      BY <1>3
    <3>2. reviews[i].random /\ decisions[i].verdict \in Withheld
      BY <1>4, <3>1 DEF RecordedSlots
    <3> HIDE DEF drawn, rows
    <3> QED BY <3>1, <3>2 DEF Raised, Sampled
  <2> QED BY <2>1
<1>6. Cardinality(S) # 0
  <2> HIDE DEF S, drawn
  <2> QED BY <1>1, <1>5, FS_EmptySet
<1>7. a % Cardinality(S) = 0
  <2>1. PICK i \in drawn : TRUE
    OBVIOUS
  <2>2. r \in Routes(decisions)
    BY <1>3, <2>1 DEF Routes
  <2> QED BY <1>6, <2>2 DEF RecordedSlots
<1> DEFINE w == a \div Cardinality(S)
<1>8. w \in Nat /\ Cardinality(S) * w = a /\ w > 0
  <2> HIDE DEF a, S
  <2> QED BY <1>1, <1>2, <1>6, <1>7, WholeQuotient, QuotientIsPositive
<1>9. \A i \in S : InclusionWeight(decisions, reviews, i) = w
  <2>1. ASSUME NEW i \in S PROVE InclusionWeight(decisions, reviews, i) = w
    <3>1. reviews[i].random /\ decisions[i].route = r
      BY DEF Sampled, Raised
    <3> HIDE DEF decisions, reviews
    <3> QED BY <1>6, <3>1 DEF InclusionWeight
  <2> QED BY <2>1
<1>10. S \subseteq drawn
  <2>1. ASSUME NEW i \in S PROVE i \in drawn
    <3>1. /\ i \in DOMAIN decisions \cap DOMAIN reviews /\ decisions[i].route = r
          /\ reviews[i].random
      BY DEF Sampled, Raised
    <3>2. reviews[i].withheld
      BY <3>1 DEF RecordedSlots
    <3>3. i \in DOMAIN rows
      <4>1. InclusionWeight(decisions, reviews, i) > 0
        BY <1>8, <1>9
      <4> HIDE DEF decisions, reviews
      <4> QED BY <3>1, <4>1 DEF Collect
    <3> QED BY <1>3, <3>1, <3>2, <3>3
  <2> QED BY <2>1
<1>11. drawn = S
  BY <1>5, <1>10
<1>12. \A i \in drawn : rows[i].weight = w
  BY <1>3, <1>9, <1>11
<1> HIDE DEF drawn, S, w, a, rows
<1> QED BY <1>1, <1>4, <1>8, <1>11, <1>12

LEMMA ChainIsRecorded == LearningSpec => []RecordedSlots(chain)
<1>1. LearningInit => RecordedSlots(chain)
  <2> SUFFICES ASSUME LearningInit PROVE RecordedSlots(chain)
    OBVIOUS
  <2>1. chain.decisions = NoFunction /\ chain.reviews = NoFunction
    BY DEF LearningInit
  <2>2. DOMAIN NoFunction = {}
    BY DEF NoFunction
  <2> QED BY <2>1, <2>2, FS_EmptySet DEF RecordedSlots, Numbered, LearningInit, Routes
<1>2. ASSUME RecordedSlots(chain), [LearningNext]_learningVars PROVE RecordedSlots(chain)'
  <2>1. CASE RunReport
    <3>1. PICK c \in Chains :
            chain' = [c EXCEPT !.decisions = [i \in DOMAIN c.decisions |->
                        [route |-> c.decisions[i].route, raw |-> c.decisions[i].raw,
                         verdict |-> c.decisions[i].verdict, by |-> detector]]]
      BY <2>1 DEF RunReport
    <3>2. RecordedSlots(c)
      BY ChainAssumption
    <3> DEFINE d == [i \in DOMAIN c.decisions |->
                       [route |-> c.decisions[i].route, raw |-> c.decisions[i].raw,
                        verdict |-> c.decisions[i].verdict, by |-> detector]]
    <3>3. chain' = [decisions |-> d, reviews |-> c.reviews]
      BY <3>1, <3>2 DEF RecordedSlots
    <3>4. /\ DOMAIN d = DOMAIN c.decisions
          /\ \A i \in DOMAIN c.decisions :
               d[i].route = c.decisions[i].route /\ d[i].verdict = c.decisions[i].verdict
      OBVIOUS
    <3> HIDE DEF d
    <3>5. /\ Routes(d) = Routes(c.decisions)
          /\ \A r : Raised(d, r) = Raised(c.decisions, r)
      BY <3>4 DEF Routes, Raised
    <3>6. \A r : Sampled(d, c.reviews, r) = Sampled(c.decisions, c.reviews, r)
      BY <3>5 DEF Sampled
    <3>7. chain'.decisions = d /\ chain'.reviews = c.reviews
      BY <3>3
    <3> QED BY <3>2, <3>3, <3>4, <3>5, <3>6, <3>7 DEF RecordedSlots
  <2>2. CASE UNCHANGED chain
    BY <1>2, <2>2 DEF RecordedSlots
  <2> QED BY <1>2, <2>1, <2>2 DEF LearningNext, learningVars, EditDetector, Relearn,
             WriteRefitReport, BeginWrite, EndWrite, Crash, StartEngine, LoadReleased,
             CalibrateEngine, CalibrateThrough, CalibrateRaises
<1> QED BY <1>1, <1>2, PTL DEF LearningSpec

\* Whatever the refit collects, the rows drawn at random weigh as much as all
\* the cases their route raised, and no case the serving rule chose is used.
THEOREM WeightsAlwaysRestore == LearningSpec => WeightsRestorePopulation
<1> DEFINE Restores ==
      job.at = "idle" /\ job'.at = "refitted" =>
        LET rows == job'.rows
            drawn(r) == {i \in DOMAIN rows : rows[i].route = r /\ chain.reviews[i].withheld}
        IN  \A r \in Routes(rows) :
              drawn(r) # {} =>
                /\ MapThenSumSet(LAMBDA i : rows[i].weight, drawn(r))
                     = WeightUnit * Cardinality(Raised(chain.decisions, r))
                /\ \A i \in drawn(r) : chain.reviews[i].random
<1>1. ASSUME LearningInv, RecordedSlots(chain), [LearningNext]_learningVars PROVE Restores
  <2> SUFFICES ASSUME job.at = "idle", job'.at = "refitted" PROVE Restores
    OBVIOUS
  <2>1. Relearn
    BY <1>1 DEF LearningNext, learningVars, EditDetector, RunReport, WriteRefitReport,
       BeginWrite, EndWrite, Crash, StartEngine, LoadReleased, CalibrateEngine,
       CalibrateThrough, CalibrateRaises
  <2>2. job'.rows = Collect(chain.decisions, chain.reviews)
    BY <2>1 DEF Relearn
  <2> DEFINE rows == job'.rows
             drawn(r) == {i \in DOMAIN rows : rows[i].route = r /\ chain.reviews[i].withheld}
  <2>3. ASSUME NEW r \in Routes(rows), drawn(r) # {}
        PROVE  /\ MapThenSumSet(LAMBDA i : rows[i].weight, drawn(r))
                    = WeightUnit * Cardinality(Raised(chain.decisions, r))
               /\ \A i \in drawn(r) : chain.reviews[i].random
    <3> DEFINE S == drawn(r)
               a == WeightUnit * Cardinality(Raised(chain.decisions, r))
               v == [i \in S |-> rows[i].weight]
               Adds(g) == g = [s \in SUBSET S |-> IF s = {} THEN 0
                            ELSE rows[CHOOSE x \in s : TRUE].weight
                                 + g[s \ {CHOOSE x \in s : TRUE}]]
    <3>1. /\ IsFiniteSet(S) /\ \A i \in S : chain.reviews[i].random
          /\ \E w \in Nat : (\A i \in S : rows[i].weight = w) /\ Cardinality(S) * w = a
      <4> DEFINE collected == Collect(chain.decisions, chain.reviews)
                 those == {i \in DOMAIN collected :
                             collected[i].route = r /\ chain.reviews[i].withheld}
      <4>1. those # {} =>
              /\ IsFiniteSet(those) /\ \A i \in those : chain.reviews[i].random
              /\ \E w \in Nat : /\ \A i \in those : collected[i].weight = w
                                 /\ Cardinality(those) * w = a
        BY <1>1, DrawnRestoreRaised, Zenon
      <4>2. rows = collected /\ S = those
        BY <2>2
      <4> HIDE DEF collected, those, rows, S, a
      <4> QED BY <2>3, <4>1, <4>2 DEF S
    <3>2. SumOf(v, S) = a
      <4>1. PICK w \in Nat : (\A i \in S : rows[i].weight = w) /\ Cardinality(S) * w = a
        BY <3>1
      <4>2. \A i \in S : v[i] = w
        BY <4>1
      <4>3. w \in Int
        OBVIOUS
      <4> HIDE DEF v, S, a
      <4> QED BY <3>1, <4>1, <4>2, <4>3, SumOfEqual
    <3>3. MapThenSumSet(LAMBDA i : rows[i].weight, S) = (CHOOSE g : Adds(g))[S]
      BY DEF MapThenSumSet, MapThenFoldSet
    <3>4. \A g : SumsUp(g, v, S) <=> Adds(g)
      <4>1. \A s \in SUBSET S : s # {} => Some(s) \in S
        BY DEF Some
      <4> HIDE DEF S, rows
      <4> QED BY <4>1 DEF SumsUp, Some
    <3>5. (CHOOSE g : Adds(g)) = (CHOOSE g : SumsUp(g, v, S))
      <4> HIDE DEF Adds, v, S
      <4> QED BY <3>4
    <3>6. MapThenSumSet(LAMBDA i : rows[i].weight, S) = a
      <4> HIDE DEF Adds, v, S, rows, a
      <4> QED BY <3>2, <3>3, <3>5 DEF SumOf
    <3> QED BY <3>1, <3>6
  <2> QED BY <2>3
<1>2. LearningInv /\ RecordedSlots(chain) /\ [LearningNext]_learningVars => [Restores]_learningVars
  BY <1>1
<1> HIDE DEF Restores
<1>3. LearningSpec => [][Restores]_learningVars
  BY <1>2, LearningHolds, ChainIsRecorded, PTL DEF LearningSpec
<1> QED BY <1>3, PTL DEF Restores, WeightsRestorePopulation

-----------------------------------------------------------------------------
(* Factorials, powers and binomial coefficients.                            *)

LEMMA FactorialIs ==
  /\ \A n \in Nat : factorial[n] \in Nat \ {0}
  /\ factorial[0] = 1
  /\ \A n \in Nat : factorial[n + 1] = (n + 1) * factorial[n]
<1> DEFINE Fits(f) == f = [n \in Nat |-> IF n = 0 THEN 1 ELSE n * f[n - 1]]
           h == [p \in Nat \X Nat |-> p[1] * p[2]]
<1>1. \E f : Fits(f)
  <2>1. h \in [Nat \X Nat -> Nat] /\ 1 \in Nat
    BY ProductIsNat
  <2>2. PICK f \in [Nat -> Nat] : StepsUp(f, 1, h)
    <3> HIDE DEF h
    <3> QED BY <2>1, RecursionExists
  <2>3. \A n \in Nat : f[n] = IF n = 0 THEN 1 ELSE h[<<n, f[n - 1]>>]
    BY <2>2 DEF StepsUp
  <2>4. \A n \in Nat : n # 0 => h[<<n, f[n - 1]>>] = n * f[n - 1]
    <3> TAKE n \in Nat
    <3> HAVE n # 0
    <3>1. n - 1 \in Nat /\ f[n - 1] \in Nat
      OBVIOUS
    <3> QED BY <3>1
  <2> HIDE DEF h
  <2>5. \A n \in Nat : f[n] = IF n = 0 THEN 1 ELSE n * f[n - 1]
    BY <2>3, <2>4
  <2>6. f = [n \in Nat |-> f[n]]
    OBVIOUS
  <2> QED BY <2>5, <2>6
<1>2. Fits(factorial)
  <2>1. factorial = CHOOSE f : Fits(f)
    BY DEF factorial
  <2> HIDE DEF Fits
  <2> QED BY <1>1, <2>1
<1>3. \A n \in Nat : factorial[n] = IF n = 0 THEN 1 ELSE n * factorial[n - 1]
  BY <1>2
<1>4. /\ factorial[0] = 1
      /\ \A n \in Nat : factorial[n + 1] = (n + 1) * factorial[n]
  BY <1>3
<1> DEFINE P == {n \in Nat : factorial[n] \in Nat \ {0}}
<1>5. ASSUME NEW n \in Nat, n \in P PROVE n + 1 \in P
  <2>1. \A a, b \in Nat \ {0} : a * b \in Nat \ {0}
    BY Z3
  <2>2. factorial[n + 1] = (n + 1) * factorial[n] /\ n + 1 \in Nat \ {0}
    BY <1>4
  <2> QED BY <1>5, <2>1, <2>2
<1>6. Nat \subseteq P
  <2>1. 0 \in P
    BY <1>4
  <2> HIDE DEF P
  <2> QED BY <1>5, <2>1, UpwardInduction
<1> QED BY <1>4, <1>6

LEMMA PowerIs ==
  ASSUME NEW b \in Nat
  PROVE  /\ \A n \in Nat : PowerOf(b, n) \in Nat
         /\ PowerOf(b, 0) = 1
         /\ \A n \in Nat : PowerOf(b, n + 1) = b * PowerOf(b, n)
<1> DEFINE Fits(f) == f = [i \in Nat |-> IF i = 0 THEN 1 ELSE b * f[i - 1]]
           h == [q \in Nat \X Nat |-> b * q[2]]
           p == CHOOSE f : Fits(f)
<1>1. \E f : Fits(f)
  <2>1. h \in [Nat \X Nat -> Nat] /\ 1 \in Nat
    BY ProductIsNat
  <2>2. PICK f \in [Nat -> Nat] : StepsUp(f, 1, h)
    <3> HIDE DEF h
    <3> QED BY <2>1, RecursionExists
  <2>3. \A n \in Nat : f[n] = IF n = 0 THEN 1 ELSE h[<<n, f[n - 1]>>]
    BY <2>2 DEF StepsUp
  <2>4. \A n \in Nat : n # 0 => h[<<n, f[n - 1]>>] = b * f[n - 1]
    <3> TAKE n \in Nat
    <3> HAVE n # 0
    <3>1. n - 1 \in Nat /\ f[n - 1] \in Nat
      OBVIOUS
    <3> QED BY <3>1
  <2> HIDE DEF h
  <2>5. \A n \in Nat : f[n] = IF n = 0 THEN 1 ELSE b * f[n - 1]
    BY <2>3, <2>4
  <2>6. f = [n \in Nat |-> f[n]]
    OBVIOUS
  <2> QED BY <2>5, <2>6
<1>2. Fits(p)
  <2> HIDE DEF Fits
  <2> QED BY <1>1
<1>3. \A n \in Nat : PowerOf(b, n) = p[n]
  BY DEF PowerOf
<1> HIDE DEF p
<1>4. \A n \in Nat : p[n] = IF n = 0 THEN 1 ELSE b * p[n - 1]
  BY <1>2
<1>5. p[0] = 1 /\ \A n \in Nat : p[n + 1] = b * p[n]
  BY <1>4
<1> DEFINE P == {n \in Nat : p[n] \in Nat}
<1>6. Nat \subseteq P
  <2>1. 0 \in P
    BY <1>5
  <2>2. ASSUME NEW n \in Nat, n \in P PROVE n + 1 \in P
    BY <1>5, <2>2, ProductIsNat
  <2> HIDE DEF P
  <2> QED BY <2>1, <2>2, UpwardInduction
<1> QED BY <1>3, <1>5, <1>6

LEMMA ExactQuotient ==
  ASSUME NEW c \in Nat, NEW m \in Nat \ {0} PROVE (c * m) \div m = c
BY Z3

LEMMA Cancel ==
  ASSUME NEW a \in Nat, NEW b \in Nat, NEW m \in Nat \ {0}, a * m = b * m PROVE a = b
BY Z3

LEMMA Regroup ==
  ASSUME NEW a \in Nat, NEW b \in Nat, NEW c \in Nat
  PROVE  /\ a * b = b * a /\ (a * b) * c = a * (b * c) /\ (a + b) * c = a * c + b * c
BY Z3

\* The quotient by which math.comb is defined leaves no remainder, and the
\* coefficients grow as in Pascal's triangle.
LEMMA PascalStep ==
  ASSUME NEW n \in Nat, NEW k \in 1..n, NEW c \in Nat, NEW d \in Nat,
         c * (factorial[k - 1] * factorial[(n + 1) - k]) = factorial[n],
         d * (factorial[k] * factorial[n - k]) = factorial[n]
  PROVE  (c + d) * (factorial[k] * factorial[(n + 1) - k]) = factorial[n + 1]
<1> DEFINE x == factorial[k - 1]
           y == factorial[n - k]
           m == (n + 1) - k
           N == factorial[n]
<1>1. x \in Nat /\ y \in Nat /\ m \in Nat /\ N \in Nat /\ k \in Nat
  <2>1. k - 1 \in Nat /\ n - k \in Nat /\ k \in Nat /\ (n + 1) - k \in Nat
    OBVIOUS
  <2> QED BY <2>1, FactorialIs
<1>2. factorial[k] = k * x /\ factorial[(n + 1) - k] = m * y /\ factorial[n + 1] = (n + 1) * N
  <2>1. k - 1 \in Nat /\ n - k \in Nat /\ (k - 1) + 1 = k /\ (n - k) + 1 = (n + 1) - k
    OBVIOUS
  <2> QED BY <2>1, FactorialIs
<1>3. c * (x * (m * y)) = N /\ d * ((k * x) * y) = N /\ k + m = n + 1
  BY <1>2
<1> HIDE DEF x, y, m, N
<1>4. (c + d) * ((k * x) * (m * y)) = k * (c * (x * (m * y))) + m * (d * ((k * x) * y))
  <2>1. \A a, b, p, q, e, f \in Nat :
          (a + b) * ((e * p) * (f * q)) = e * (a * (p * (f * q))) + f * (b * ((e * p) * q))
    BY Z3
  <2> QED BY <1>1, <2>1
<1>5. k * N + m * N = (n + 1) * N
  BY <1>1, <1>3, Regroup
<1> QED BY <1>2, <1>3, <1>4, <1>5

LEMMA ChooseIs ==
  ASSUME NEW n \in Nat, NEW k \in 0..n
  PROVE  /\ choose(n, k) \in Nat
         /\ choose(n, k) * (factorial[k] * factorial[n - k]) = factorial[n]
<1> DEFINE P == {i \in Nat : \A j \in 0..i : \E c \in Nat :
                   c * (factorial[j] * factorial[i - j]) = factorial[i]}
<1>1. 0 \in P
  <2>1. 1 * (factorial[0] * factorial[0 - 0]) = factorial[0]
    BY FactorialIs
  <2> QED BY <2>1
<1>2. ASSUME NEW i \in Nat, i \in P PROVE i + 1 \in P
  <2>1. ASSUME NEW j \in 0..(i + 1)
        PROVE  \E c \in Nat : c * (factorial[j] * factorial[(i + 1) - j]) = factorial[i + 1]
    <3>1. factorial[i + 1] \in Nat
      BY FactorialIs
    <3>2. CASE j = 0
      <4>1. 1 * (factorial[j] * factorial[(i + 1) - j]) = factorial[i + 1]
        BY <3>1, <3>2, FactorialIs
      <4> QED BY <4>1
    <3>3. CASE j = i + 1
      <4>1. (i + 1) - j = 0
        BY <3>3
      <4>2. 1 * (factorial[j] * factorial[(i + 1) - j]) = factorial[i + 1]
        BY <3>1, <3>3, <4>1, FactorialIs
      <4> QED BY <4>2
    <3>4. CASE j \in 1..i
      <4>1. j - 1 \in 0..i /\ j \in 0..i /\ i - (j - 1) = (i + 1) - j
        BY <3>4
      <4>2. PICK c \in Nat : c * (factorial[j - 1] * factorial[(i + 1) - j]) = factorial[i]
        BY <1>2, <4>1
      <4>3. PICK d \in Nat : d * (factorial[j] * factorial[i - j]) = factorial[i]
        BY <1>2, <4>1
      <4>4. (c + d) * (factorial[j] * factorial[(i + 1) - j]) = factorial[i + 1]
        BY <3>4, <4>2, <4>3, PascalStep
      <4> QED BY <4>4
    <3> QED BY <3>2, <3>3, <3>4
  <2> QED BY <2>1
<1>3. PICK c \in Nat : c * (factorial[k] * factorial[n - k]) = factorial[n]
  <2>1. Nat \subseteq P
    <3> HIDE DEF P
    <3> QED BY <1>1, <1>2, UpwardInduction
  <2> QED BY <2>1
<1> DEFINE m == factorial[k] * factorial[n - k]
<1>4. m \in Nat \ {0}
  <2>1. \A a, b \in Nat \ {0} : a * b \in Nat \ {0}
    BY Z3
  <2>2. factorial[k] \in Nat \ {0} /\ factorial[n - k] \in Nat \ {0}
    BY FactorialIs
  <2> QED BY <2>1, <2>2
<1>5. choose(n, k) = (c * m) \div m
  BY <1>3 DEF choose
<1> HIDE DEF m
<1>6. choose(n, k) = c
  BY <1>4, <1>5, ExactQuotient
<1> QED BY <1>3, <1>6 DEF m

LEMMA Pascal ==
  ASSUME NEW n \in Nat
  PROVE  /\ choose(n, 0) = 1 /\ choose(n, n) = 1
         /\ \A k \in 1..n : choose(n + 1, k) = choose(n, k - 1) + choose(n, k)
<1>1. \A a \in Nat : a * 1 = a
  OBVIOUS
<1>2. choose(n, 0) = 1 /\ choose(n, n) = 1
  <2>1. factorial[n] \in Nat \ {0} /\ factorial[0] = 1 /\ n - 0 = n /\ n - n = 0
    BY FactorialIs
  <2>2. choose(n, 0) = (1 * factorial[n]) \div factorial[n]
    <3>1. choose(n, 0) = factorial[n] \div (1 * factorial[n])
      BY <2>1 DEF choose
    <3> QED BY <2>1, <3>1
  <2>3. choose(n, n) = (1 * factorial[n]) \div factorial[n]
    <3>1. choose(n, n) = factorial[n] \div (factorial[n] * 1)
      BY <2>1 DEF choose
    <3> QED BY <2>1, <3>1
  <2> QED BY <2>1, <2>2, <2>3, ExactQuotient
<1>3. ASSUME NEW k \in 1..n PROVE choose(n + 1, k) = choose(n, k - 1) + choose(n, k)
  <2> DEFINE m == factorial[k] * factorial[(n + 1) - k]
             s == choose(n, k - 1) + choose(n, k)
  <2>1. k - 1 \in 0..n /\ k \in 0..n /\ k \in 0..(n + 1) /\ n - (k - 1) = (n + 1) - k
    OBVIOUS
  <2>2. choose(n, k - 1) \in Nat /\ choose(n, k) \in Nat /\ choose(n + 1, k) \in Nat
    BY <2>1, ChooseIs
  <2>3. s * m = factorial[n + 1]
    BY <2>1, <2>2, ChooseIs, PascalStep
  <2>4. choose(n + 1, k) * m = factorial[n + 1]
    BY <2>1, ChooseIs
  <2>5. m \in Nat \ {0}
    <3>1. \A a, b \in Nat \ {0} : a * b \in Nat \ {0}
      BY Z3
    <3>2. factorial[k] \in Nat \ {0} /\ factorial[(n + 1) - k] \in Nat \ {0}
      BY FactorialIs
    <3> QED BY <3>1, <3>2
  <2>6. s \in Nat
    BY <2>2
  <2>7. s * m = choose(n + 1, k) * m
    BY <2>3, <2>4
  <2> HIDE DEF m, s
  <2>8. s = choose(n + 1, k)
    BY <2>2, <2>5, <2>6, <2>7, Cancel
  <2> QED BY <2>8 DEF s
<1> QED BY <1>2, <1>3

-----------------------------------------------------------------------------
(* The tails of the binomial test.                                          *)

Rate(a, d) == <<a, d>>
Term(a, d, n, i) == choose(n, i) * (PowerOf(a, i) * PowerOf(d - a, n - i))
Terms(a, d, n) == [i \in 0..n |-> Term(a, d, n, i)]

LEMMA TermIsNat ==
  ASSUME NEW d \in Nat, NEW a \in 0..d, NEW n \in Nat, NEW i \in 0..n
  PROVE  Term(a, d, n, i) \in Nat
<1>1. choose(n, i) \in Nat /\ PowerOf(a, i) \in Nat /\ PowerOf(d - a, n - i) \in Nat
  <2>1. a \in Nat /\ d - a \in Nat /\ i \in Nat /\ n - i \in Nat
    OBVIOUS
  <2> QED BY <2>1, ChooseIs, PowerIs
<1> QED BY <1>1, ProductIsNat DEF Term

LEMMA TailsAre ==
  ASSUME NEW d \in Nat, NEW a \in 0..d, NEW n \in Nat, NEW k \in -1..n
  PROVE  Tails(Rate(a, d), k, n) = SumOf(Terms(a, d, n), 0..k)
<1> DEFINE v == Terms(a, d, n)
           S == 0..k
           Adds(g) == g = [s \in SUBSET S |-> IF s = {} THEN 0
             ELSE choose(n, CHOOSE x \in s : TRUE)
                    * (PowerOf(a, CHOOSE x \in s : TRUE)
                         * PowerOf(d - a, n - (CHOOSE x \in s : TRUE)))
                  + g[s \ {CHOOSE x \in s : TRUE}]]
<1>1. Tails(Rate(a, d), k, n) = (CHOOSE g : Adds(g))[S]
  BY DEF Tails, Rate, MapThenSumSet, MapThenFoldSet
<1>2. \A g : SumsUp(g, v, S) <=> Adds(g)
  <2>1. \A s \in SUBSET S : s # {} =>
          v[Some(s)] = choose(n, Some(s)) * (PowerOf(a, Some(s)) * PowerOf(d - a, n - Some(s)))
    <3>1. \A s \in SUBSET S : s # {} => Some(s) \in 0..n
      <4>1. S \subseteq 0..n
        OBVIOUS
      <4> HIDE DEF S
      <4> QED BY <4>1 DEF Some
    <3> QED BY <3>1 DEF Terms, Term
  <2> HIDE DEF v, S
  <2> QED BY <2>1 DEF SumsUp, Some
<1>3. (CHOOSE g : Adds(g)) = (CHOOSE g : SumsUp(g, v, S))
  <2> HIDE DEF Adds, v, S
  <2> QED BY <1>2
<1> HIDE DEF Adds, v, S
<1> QED BY <1>1, <1>3 DEF SumOf, v, S

\* The first tail, and one more term.
LEMMA TailGrows ==
  ASSUME NEW d \in Nat, NEW a \in 0..d, NEW n \in Nat
  PROVE  /\ Tails(Rate(a, d), -1, n) = 0
         /\ \A k \in -1..n : Tails(Rate(a, d), k, n) \in Nat
         /\ \A k \in 0..n :
              Tails(Rate(a, d), k, n) = Tails(Rate(a, d), k - 1, n) + Term(a, d, n, k)
<1> DEFINE v == Terms(a, d, n)
           T(k) == Tails(Rate(a, d), k, n)
<1>1. \A k \in -1..n : T(k) = SumOf(v, 0..k)
  BY TailsAre
<1>2. \A i \in 0..n : v[i] = Term(a, d, n, i) /\ v[i] \in Nat
  BY TermIsNat DEF Terms
<1> HIDE DEF v, T
<1>3. T(-1) = 0
  <2>1. 0..(-1) = {} /\ -1 \in -1..n
    OBVIOUS
  <2> QED BY <1>1, <2>1, SumOfNone
<1>4. ASSUME NEW k \in 0..n PROVE T(k) = T(k - 1) + Term(a, d, n, k) /\ T(k - 1) \in Int
  <2> DEFINE S == 0..(k - 1)
  <2>1. /\ 0..k = S \cup {k} /\ k \notin S /\ k - 1 \in -1..n /\ k \in -1..n
        /\ 0 \in Int /\ k - 1 \in Int
    OBVIOUS
  <2>2. IsFiniteSet(S)
    BY <2>1, FS_Interval
  <2>3. \A y \in S \cup {k} : v[y] \in Int
    BY <1>2
  <2>4. T(k - 1) = SumOf(v, S) /\ T(k) = SumOf(v, S \cup {k})
    BY <1>1, <2>1
  <2> HIDE DEF S
  <2>5. SumOf(v, S) \in Int /\ SumOf(v, S \cup {k}) = v[k] + SumOf(v, S)
    BY <2>1, <2>2, <2>3, SumOfMore
  <2>6. v[k] = Term(a, d, n, k) /\ v[k] \in Nat
    BY <1>2
  <2> QED BY <2>4, <2>5, <2>6
<1>5. \A k \in -1..n : T(k) \in Nat
  <2> DEFINE P == {i \in Nat : i <= n + 1 => T(i - 1) \in Nat}
  <2>1. 0 \in P
    BY <1>3
  <2>2. ASSUME NEW i \in Nat, i \in P PROVE i + 1 \in P
    <3> SUFFICES ASSUME i + 1 <= n + 1 PROVE T((i + 1) - 1) \in Nat
      OBVIOUS
    <3>1. i \in 0..n /\ (i + 1) - 1 = i /\ T(i - 1) \in Nat
      BY <2>2
    <3>2. T(i) = T(i - 1) + Term(a, d, n, i) /\ Term(a, d, n, i) \in Nat
      BY <1>2, <1>4, <3>1
    <3> QED BY <3>1, <3>2
  <2>3. Nat \subseteq P
    <3> HIDE DEF P
    <3> QED BY <2>1, <2>2, UpwardInduction
  <2>4. \A k \in -1..n : k + 1 \in P /\ (k + 1) - 1 = k /\ k + 1 <= n + 1
    <3> HIDE DEF P
    <3>1. \A k \in -1..n : k + 1 \in Nat
      OBVIOUS
    <3> QED BY <2>3, <3>1
  <2> QED BY <2>4
<1> QED BY <1>3, <1>4, <1>5 DEF T

\* One more row: it escapes, with the rate, or it does not.
LEMMA TermStep ==
  ASSUME NEW d \in Nat, NEW a \in 0..d, NEW n \in Nat
  PROVE  /\ Term(a, d, n + 1, 0) = (d - a) * Term(a, d, n, 0)
         /\ Term(a, d, n + 1, n + 1) = a * Term(a, d, n, n)
         /\ \A k \in 1..n :
              Term(a, d, n + 1, k) = (d - a) * Term(a, d, n, k) + a * Term(a, d, n, k - 1)
<1> DEFINE b == d - a
<1>1. a \in Nat /\ b \in Nat
  OBVIOUS
<1>2. /\ \A i \in Nat : PowerOf(a, i) \in Nat /\ PowerOf(b, i) \in Nat
      /\ PowerOf(a, 0) = 1 /\ PowerOf(b, 0) = 1
      /\ \A i \in Nat : /\ PowerOf(a, i + 1) = a * PowerOf(a, i)
                        /\ PowerOf(b, i + 1) = b * PowerOf(b, i)
  <2> HIDE DEF b
  <2> QED BY <1>1, PowerIs
<1>3. \A m, i \in Nat : Term(a, d, m, i) = choose(m, i) * (PowerOf(a, i) * PowerOf(b, m - i))
  BY DEF Term
<1> HIDE DEF b
<1>4. Term(a, d, n + 1, 0) = b * Term(a, d, n, 0)
  <2>1. choose(n + 1, 0) = 1 /\ choose(n, 0) = 1 /\ n - 0 = n /\ (n + 1) - 0 = n + 1
    BY Pascal
  <2>2. PowerOf(b, n + 1) = b * PowerOf(b, n) /\ PowerOf(b, n) \in Nat
    BY <1>2
  <2>3. /\ Term(a, d, n + 1, 0) = 1 * (1 * PowerOf(b, n + 1))
        /\ Term(a, d, n, 0) = 1 * (1 * PowerOf(b, n))
    BY <1>2, <1>3, <2>1
  <2> QED BY <1>1, <2>2, <2>3
<1>5. Term(a, d, n + 1, n + 1) = a * Term(a, d, n, n)
  <2>1. choose(n + 1, n + 1) = 1 /\ choose(n, n) = 1 /\ n - n = 0 /\ (n + 1) - (n + 1) = 0
    BY Pascal
  <2>2. PowerOf(a, n + 1) = a * PowerOf(a, n) /\ PowerOf(a, n) \in Nat
    BY <1>2
  <2>3. /\ Term(a, d, n + 1, n + 1) = 1 * (PowerOf(a, n + 1) * 1)
        /\ Term(a, d, n, n) = 1 * (PowerOf(a, n) * 1)
    BY <1>2, <1>3, <2>1
  <2> QED BY <1>1, <2>2, <2>3
<1>6. ASSUME NEW k \in 1..n
      PROVE  Term(a, d, n + 1, k) = b * Term(a, d, n, k) + a * Term(a, d, n, k - 1)
  <2> DEFINE c == choose(n, k - 1)
             e == choose(n, k)
             p == PowerOf(a, k - 1)
             q == PowerOf(b, n - k)
  <2>1. /\ k - 1 \in Nat /\ k \in Nat /\ n - k \in Nat
        /\ (k - 1) + 1 = k /\ n - (k - 1) = (n - k) + 1
        /\ (n + 1) - k = (n - k) + 1 /\ n + 1 \in Nat /\ k - 1 \in 0..n /\ k \in 0..n
    OBVIOUS
  <2>2. c \in Nat /\ e \in Nat /\ choose(n + 1, k) = c + e
    BY <2>1, Pascal, ChooseIs
  <2>3. p \in Nat /\ q \in Nat /\ PowerOf(a, k) = a * p /\ PowerOf(b, (n - k) + 1) = b * q
    BY <1>2, <2>1
  <2>4. Term(a, d, n + 1, k) = (c + e) * ((a * p) * (b * q))
    BY <1>3, <2>1, <2>2, <2>3
  <2>5. Term(a, d, n, k) = e * ((a * p) * q)
    BY <1>3, <2>1, <2>3
  <2>6. Term(a, d, n, k - 1) = c * (p * (b * q))
    BY <1>3, <2>1, <2>3
  <2>7. \A v, w, x, y, z, u \in Nat :
          (v + w) * ((x * y) * (z * u)) = z * (w * ((x * y) * u)) + x * (v * (y * (z * u)))
    BY Z3
  <2> HIDE DEF c, e, p, q
  <2>8. (c + e) * ((a * p) * (b * q)) = b * (e * ((a * p) * q)) + a * (c * (p * (b * q)))
    BY <1>1, <2>2, <2>3, <2>7
  <2> QED BY <2>4, <2>5, <2>6, <2>8
<1> QED BY <1>4, <1>5, <1>6 DEF b

LEMMA TailStep ==
  ASSUME NEW d \in Nat, NEW a \in 0..d, NEW n \in Nat, NEW k \in 0..n
  PROVE  Tails(Rate(a, d), k, n + 1)
           = (d - a) * Tails(Rate(a, d), k, n) + a * Tails(Rate(a, d), k - 1, n)
<1> DEFINE T(m, i) == Tails(Rate(a, d), i, m)
           b == d - a
           P == {i \in Nat : i <= n => T(n + 1, i) = b * T(n, i) + a * T(n, i - 1)}
<1>1. a \in Nat /\ b \in Nat /\ n + 1 \in Nat
  OBVIOUS
<1>2. \A m \in Nat : /\ T(m, -1) = 0
                     /\ \A i \in -1..m : T(m, i) \in Nat
                     /\ \A i \in 0..m : T(m, i) = T(m, i - 1) + Term(a, d, m, i)
  BY TailGrows
<1>3. \A m \in Nat : \A i \in 0..m : Term(a, d, m, i) \in Nat
  BY TermIsNat
<1>4. /\ Term(a, d, n + 1, 0) = b * Term(a, d, n, 0)
      /\ \A i \in 1..n : Term(a, d, n + 1, i) = b * Term(a, d, n, i) + a * Term(a, d, n, i - 1)
  BY TermStep
<1> HIDE DEF T, b
<1>5. 0 \in P
  <2>1. 0 \in 0..n /\ 0 \in 0..(n + 1) /\ 0 - 1 = -1
    OBVIOUS
  <2>2. T(n + 1, 0) = 0 + Term(a, d, n + 1, 0) /\ T(n, 0) = 0 + Term(a, d, n, 0)
    BY <1>1, <1>2, <2>1
  <2>3. Term(a, d, n + 1, 0) \in Nat /\ Term(a, d, n, 0) \in Nat
    BY <1>1, <1>3, <2>1
  <2>4. T(n + 1, 0) = b * T(n, 0) + a * T(n, -1)
    BY <1>1, <1>2, <1>4, <2>2, <2>3
  <2> QED BY <2>1, <2>4
<1>6. ASSUME NEW i \in Nat, i \in P PROVE i + 1 \in P
  <2> SUFFICES ASSUME i + 1 <= n PROVE T(n + 1, i + 1) = b * T(n, i + 1) + a * T(n, i)
    OBVIOUS
  <2>1. /\ i + 1 \in 1..n /\ i + 1 \in 0..n /\ i + 1 \in 0..(n + 1) /\ i \in 0..n
        /\ (i + 1) - 1 = i /\ i \in -1..n /\ i - 1 \in -1..n /\ i + 1 \in -1..n
    OBVIOUS
  <2>2. T(n + 1, i) = b * T(n, i) + a * T(n, i - 1)
    BY <1>6, <2>1
  <2> DEFINE x == Term(a, d, n, i + 1)
             y == Term(a, d, n, i)
             s == T(n, i)
             r == T(n, i - 1)
  <2>3. T(n + 1, i + 1) = T(n + 1, i) + Term(a, d, n + 1, i + 1)
    BY <1>1, <1>2, <2>1
  <2>4. Term(a, d, n + 1, i + 1) = b * x + a * y
    BY <1>4, <2>1
  <2>5. T(n, i + 1) = s + x /\ s = r + y
    BY <1>2, <2>1
  <2>6. x \in Nat /\ y \in Nat /\ s \in Nat /\ r \in Nat
    BY <1>2, <1>3, <2>1
  <2> HIDE DEF x, y, s, r
  <2>7. (b * s + a * r) + (b * x + a * y) = b * (s + x) + a * (r + y)
    BY <1>1, <2>6, Z3
  <2> QED BY <2>2, <2>3, <2>4, <2>5, <2>7 DEF s, r
<1>7. Nat \subseteq P
  <2> HIDE DEF P
  <2> QED BY <1>5, <1>6, UpwardInduction
<1> QED BY <1>7 DEF T, b

\* A row released beyond the test makes as few escapes less likely, and one
\* more escape with it likelier: both tails out of rate[2] times as many.
LEMMA RowMovesTail ==
  ASSUME NEW d \in Nat, NEW a \in 0..d, NEW n \in Nat, NEW k \in 0..n
  PROVE  /\ Tails(Rate(a, d), k, n + 1) <= d * Tails(Rate(a, d), k, n)
         /\ k < n => d * Tails(Rate(a, d), k, n) <= Tails(Rate(a, d), k + 1, n + 1)
<1> DEFINE T(m, i) == Tails(Rate(a, d), i, m)
           b == d - a
<1>1. a \in Nat /\ b \in Nat /\ a + b = d
  OBVIOUS
<1>2. ASSUME NEW i \in 0..n PROVE T(n, i - 1) <= T(n, i) /\ T(n, i) \in Nat /\ T(n, i - 1) \in Nat
  <2>1. i - 1 \in -1..n /\ i \in -1..n
    OBVIOUS
  <2>2. T(n, i) = T(n, i - 1) + Term(a, d, n, i) /\ Term(a, d, n, i) \in Nat
    BY TailGrows, TermIsNat
  <2>3. T(n, i) \in Nat /\ T(n, i - 1) \in Nat
    BY <2>1, TailGrows
  <2> HIDE DEF T
  <2> QED BY <2>2, <2>3
<1>3. \A i \in 0..n : T(n + 1, i) = b * T(n, i) + a * T(n, i - 1)
  BY TailStep
<1>4. \A x, y, u, v \in Nat : x <= y => u * y + v * x <= (u + v) * y /\ (u + v) * x <= u * y + v * x
  BY Z3
<1> HIDE DEF T, b
<1>5. T(n + 1, k) <= d * T(n, k)
  <2>1. T(n, k - 1) <= T(n, k) /\ T(n, k) \in Nat /\ T(n, k - 1) \in Nat
    BY <1>2
  <2>2. b * T(n, k) + a * T(n, k - 1) <= (b + a) * T(n, k)
    BY <1>1, <1>4, <2>1
  <2>3. T(n + 1, k) = b * T(n, k) + a * T(n, k - 1)
    BY <1>3
  <2> QED BY <1>1, <2>2, <2>3
<1>6. ASSUME k < n PROVE d * T(n, k) <= T(n + 1, k + 1)
  <2>1. k + 1 \in 0..n /\ (k + 1) - 1 = k
    BY <1>6
  <2>2. T(n, k) <= T(n, k + 1) /\ T(n, k) \in Nat /\ T(n, k + 1) \in Nat
    BY <1>2, <2>1
  <2>3. T(n + 1, k + 1) = b * T(n, k + 1) + a * T(n, k)
    BY <1>3, <2>1
  <2>4. (b + a) * T(n, k) <= b * T(n, k + 1) + a * T(n, k)
    BY <1>1, <1>4, <2>2
  <2> QED BY <1>1, <2>3, <2>4
<1> QED BY <1>5, <1>6 DEF T

\* The last tail has all of it, at every rate.
LEMMA TailOfAll ==
  ASSUME NEW d \in Nat, NEW a \in 0..d, NEW n \in Nat
  PROVE  Tails(Rate(a, d), n, n) = PowerOf(d, n)
<1> DEFINE T(m, i) == Tails(Rate(a, d), i, m)
           P == {m \in Nat : T(m, m) = PowerOf(d, m)}
<1>1. \A m \in Nat : /\ T(m, -1) = 0
                     /\ \A i \in -1..m : T(m, i) \in Nat
                     /\ \A i \in 0..m : T(m, i) = T(m, i - 1) + Term(a, d, m, i)
  BY TailGrows
<1>2. \A m \in Nat : T(m + 1, m) = (d - a) * T(m, m) + a * T(m, m - 1)
  <2>1. \A m \in Nat : m \in 0..m
    OBVIOUS
  <2> QED BY <2>1, TailStep
<1>3. \A m \in Nat : Term(a, d, m + 1, m + 1) = a * Term(a, d, m, m)
  BY TermStep
<1>4. \A m \in Nat : Term(a, d, m, m) \in Nat
  <2>1. \A m \in Nat : m \in 0..m
    OBVIOUS
  <2> QED BY <2>1, TermIsNat
<1>5. a \in Nat /\ d - a \in Nat
  OBVIOUS
<1> HIDE DEF T
<1>6. 0 \in P
  <2>1. 0 \in 0..0 /\ 0 - 1 = -1
    OBVIOUS
  <2>2. T(0, 0) = Term(a, d, 0, 0)
    BY <1>1, <1>4, <2>1
  <2>3. Term(a, d, 0, 0) = 1 * (1 * 1)
    <3>1. choose(0, 0) = 1 /\ PowerOf(a, 0) = 1 /\ PowerOf(d - a, 0) = 1 /\ 0 - 0 = 0
      BY <1>5, Pascal, PowerIs
    <3> QED BY <3>1 DEF Term
  <2> QED BY <2>2, <2>3, PowerIs
<1>7. ASSUME NEW m \in Nat, m \in P PROVE m + 1 \in P
  <2> DEFINE x == T(m, m)
             r == T(m, m - 1)
             y == Term(a, d, m, m)
  <2>1. T(m + 1, m + 1) = T(m + 1, m) + a * y
    <3>1. m + 1 \in 0..(m + 1) /\ (m + 1) - 1 = m /\ m + 1 \in Nat
      OBVIOUS
    <3> QED BY <1>1, <1>3, <3>1
  <2>2. T(m + 1, m) = (d - a) * x + a * r
    BY <1>2
  <2>3. x = r + y /\ x \in Nat /\ r \in Nat /\ y \in Nat
    <3>1. m \in 0..m /\ m \in -1..m /\ m - 1 \in -1..m
      OBVIOUS
    <3> QED BY <1>1, <1>4, <3>1
  <2>4. x = PowerOf(d, m) /\ PowerOf(d, m + 1) = d * PowerOf(d, m)
    BY <1>7, PowerIs
  <2> HIDE DEF x, r, y
  <2>5. ((d - a) * x + a * r) + a * y = d * x
    <3>1. \A u, v, p, q \in Nat : (u * (p + q) + v * p) + v * q = (u + v) * (p + q)
      BY Z3
    <3>2. (d - a) + a = d
      OBVIOUS
    <3> QED BY <1>5, <2>3, <3>1, <3>2
  <2>6. T(m + 1, m + 1) = PowerOf(d, m + 1)
    BY <2>1, <2>2, <2>4, <2>5
  <2> QED BY <2>6
<1>8. Nat \subseteq P
  <2> HIDE DEF P
  <2> QED BY <1>6, <1>7, UpwardInduction
<1> QED BY <1>8 DEF T

\* conformal.py, binomial_upper_bound: "a one-sided exact binomial upper
\* confidence bound" is found by halving the rates between the observed one and
\* 1, which is right only if the tail never rises with the rate.  It does not:
\* of any two rates, over a common denominator, the higher has the lower tail.
\* So the bound is at most alpha exactly if the tail at alpha is low enough,
\* which is what Passes tests.
THEOREM TailFallsWithRate ==
  \A d \in Nat : \A a, e \in 0..d : a <= e =>
    \A n \in Nat : \A k \in 0..n : Tails(Rate(e, d), k, n) <= Tails(Rate(a, d), k, n)
<1> SUFFICES ASSUME NEW d \in Nat, NEW a \in 0..d, NEW e \in 0..d, a <= e
             PROVE  \A n \in Nat : \A k \in 0..n :
                      Tails(Rate(e, d), k, n) <= Tails(Rate(a, d), k, n)
  OBVIOUS
<1> DEFINE T(m, i) == Tails(Rate(a, d), i, m)
           U(m, i) == Tails(Rate(e, d), i, m)
           P == {m \in Nat : \A i \in -1..m : U(m, i) <= T(m, i)}
<1>1. \A m \in Nat : /\ T(m, -1) = 0 /\ U(m, -1) = 0
                     /\ \A i \in -1..m : T(m, i) \in Nat /\ U(m, i) \in Nat
  BY TailGrows
<1>2. \A m \in Nat : T(m, m) = PowerOf(d, m) /\ U(m, m) = PowerOf(d, m) /\ PowerOf(d, m) \in Nat
  <2> TAKE m \in Nat
  <2>1. T(m, m) = PowerOf(d, m)
    BY TailOfAll
  <2>2. U(m, m) = PowerOf(d, m)
    BY TailOfAll
  <2>3. PowerOf(d, m) \in Nat
    BY PowerIs
  <2> QED BY <2>1, <2>2, <2>3
<1>3. \A m \in Nat : \A i \in 0..m : /\ T(m + 1, i) = (d - a) * T(m, i) + a * T(m, i - 1)
                                     /\ U(m + 1, i) = (d - e) * U(m, i) + e * U(m, i - 1)
  BY TailStep
<1>4. \A m \in Nat : \A i \in 0..m : T(m, i - 1) <= T(m, i)
  <2> TAKE m \in Nat
  <2> TAKE i \in 0..m
  <2>1. T(m, i) = T(m, i - 1) + Term(a, d, m, i) /\ Term(a, d, m, i) \in Nat
    BY TailGrows, TermIsNat
  <2>2. T(m, i - 1) \in Nat
    <3>1. i - 1 \in -1..m
      OBVIOUS
    <3> QED BY <3>1, TailGrows
  <2> HIDE DEF T
  <2> QED BY <2>1, <2>2
<1> HIDE DEF T, U
<1>5. 0 \in P
  <2>1. \A i \in -1..0 : i = -1 \/ i = 0
    OBVIOUS
  <2>2. U(0, 0) <= T(0, 0) /\ U(0, -1) <= T(0, -1)
    BY <1>1, <1>2
  <2> QED BY <2>1, <2>2
<1>6. ASSUME NEW m \in Nat, m \in P PROVE m + 1 \in P
  <2>1. ASSUME NEW i \in -1..(m + 1) PROVE U(m + 1, i) <= T(m + 1, i)
    <3>1. CASE i = -1
      BY <1>1, <3>1
    <3>2. CASE i = m + 1
      BY <1>2, <3>2
    <3>3. CASE i \in 0..m
      <4>1. i \in -1..m /\ i - 1 \in -1..m
        BY <3>3
      <4> DEFINE p == T(m, i)
                 q == T(m, i - 1)
                 r == U(m, i)
                 s == U(m, i - 1)
      <4>2. p \in Nat /\ q \in Nat /\ r \in Nat /\ s \in Nat /\ r <= p /\ s <= q /\ q <= p
        BY <1>1, <1>4, <1>6, <3>3, <4>1
      <4>3. T(m + 1, i) = (d - a) * p + a * q /\ U(m + 1, i) = (d - e) * r + e * s
        BY <1>3, <3>3
      <4> HIDE DEF p, q, r, s
      <4>4. (d - e) * r + e * s <= (d - e) * p + e * q
        <5>1. \A x, y, z \in Nat : y <= z => x * y <= x * z /\ x * y \in Nat /\ x * z \in Nat
          BY Z3
        <5>2. d - e \in Nat /\ e \in Nat
          OBVIOUS
        <5>3. (d - e) * r <= (d - e) * p /\ e * s <= e * q
          BY <4>2, <5>1, <5>2
        <5>4. (d - e) * r \in Nat /\ (d - e) * p \in Nat /\ e * s \in Nat /\ e * q \in Nat
          BY <4>2, <5>1, <5>2
        <5> DEFINE a1 == (d - e) * r
                   a2 == (d - e) * p
                   a3 == e * s
                   a4 == e * q
        <5> HIDE DEF a1, a2, a3, a4
        <5>5. a1 + a3 <= a2 + a4
          BY <5>3, <5>4 DEF a1, a2, a3, a4
        <5> QED BY <5>5 DEF a1, a2, a3, a4
      <4>5. (d - e) * p + e * q <= (d - a) * p + a * q
        <5>1. \A x, y, z, u, v \in Nat : v <= u => x * u + (y + z) * v <= (x + z) * u + y * v
          BY Z3
        <5>2. /\ d - e \in Nat /\ a \in Nat /\ e - a \in Nat
              /\ a + (e - a) = e /\ (d - e) + (e - a) = d - a
          BY <1>1
        <5> QED BY <4>2, <5>1, <5>2
      <4>6. /\ (d - e) * r + e * s \in Int /\ (d - e) * p + e * q \in Int
            /\ (d - a) * p + a * q \in Int
        BY <4>2
      <4> QED BY <4>3, <4>4, <4>5, <4>6
    <3> QED BY <3>1, <3>2, <3>3
  <2> QED BY <2>1
<1>7. Nat \subseteq P
  <2> HIDE DEF P
  <2> QED BY <1>5, <1>6, UpwardInduction
<1>8. ASSUME NEW n \in Nat, NEW k \in 0..n PROVE U(n, k) <= T(n, k)
  <2>1. n \in P /\ k \in -1..n
    BY <1>7
  <2> QED BY <2>1
<1> QED BY <1>8 DEF T, U

-----------------------------------------------------------------------------
(* One row more, and the threshold.                                         *)

LEMMA AlphaIsRate ==
  /\ Alpha = Rate(Alpha[1], Alpha[2]) /\ Alpha[2] \in Nat \ {0} /\ Alpha[1] \in 0..Alpha[2]
  /\ CorrectedDelta[1] \in Nat /\ CorrectedDelta[2] \in Nat
<1>1. /\ Alpha = <<Alpha[1], Alpha[2]>> /\ Alpha[1] \in Nat /\ Alpha[2] \in Nat \ {0}
      /\ Delta[1] \in Nat /\ Delta[2] \in Nat \ {0} /\ GridSize \in Nat \ {0, 1}
  BY ConformalAssumption
<1>2. Alpha[1] < Alpha[2]
  <2>1. Alpha[1] * 1 < 1 * Alpha[2]
    BY ConformalAssumption DEF Below, Unit
  <2> QED BY <1>1, <2>1
<1>3. Delta[2] * GridSize \in Nat
  BY <1>1, ProductIsNat
<1> QED BY <1>1, <1>2, <1>3 DEF Rate, CorrectedDelta

LEMMA CleanRowPasses ==
  ASSUME NEW n \in Nat \ {0}, NEW k \in Nat, Passes(k, n)
  PROVE  Passes(k, n + 1)
<1> DEFINE d == Alpha[2]
           T(i, m) == Tails(Alpha, i, m)
           p == CorrectedDelta[1]
           q == CorrectedDelta[2]
<1>1. d \in Nat \ {0} /\ p \in Nat /\ q \in Nat
  BY AlphaIsRate
<1>2. k < n /\ T(k, n) * q <= p * PowerOf(d, n) /\ k \in 0..n
  BY DEF Passes
<1>3. T(k, n + 1) <= d * T(k, n) /\ T(k, n) \in Nat /\ T(k, n + 1) \in Nat
  <2>1. k \in -1..n /\ k \in -1..(n + 1) /\ n + 1 \in Nat /\ d \in Nat
    BY <1>1, <1>2
  <2>2. Tails(Rate(Alpha[1], d), k, n + 1) <= d * Tails(Rate(Alpha[1], d), k, n)
    BY <1>2, <2>1, AlphaIsRate, RowMovesTail
  <2>3. /\ Tails(Rate(Alpha[1], d), k, n) \in Nat
        /\ Tails(Rate(Alpha[1], d), k, n + 1) \in Nat
    BY <2>1, AlphaIsRate, TailGrows
  <2> QED BY <2>2, <2>3, AlphaIsRate
<1>4. PowerOf(d, n) \in Nat /\ PowerOf(d, n + 1) = d * PowerOf(d, n)
  BY <1>1, PowerIs
<1> HIDE DEF d, T, p, q
<1> DEFINE t == T(k, n)
           u == T(k, n + 1)
           w == PowerOf(d, n)
<1>5. t * q <= p * w /\ u <= d * t /\ t \in Nat /\ u \in Nat /\ w \in Nat
  BY <1>2, <1>3, <1>4
<1> HIDE DEF t, u, w
<1>6. u * q <= p * (d * w)
  <2>1. \A x, y, z \in Nat : y <= z => y * x <= z * x /\ x * y <= x * z
    BY Z3
  <2>2. u * q <= (d * t) * q /\ d * t \in Nat
    BY <1>1, <1>5, <2>1, ProductIsNat
  <2>3. d * (t * q) <= d * (p * w)
    BY <1>1, <1>5, <2>1, ProductIsNat
  <2>4. (d * t) * q = d * (t * q) /\ d * (p * w) = p * (d * w)
    BY <1>1, <1>5, Z3
  <2>5. u * q \in Nat /\ d * (t * q) \in Nat /\ p * (d * w) \in Nat
    BY <1>1, <1>5, ProductIsNat
  <2> QED BY <2>2, <2>3, <2>4, <2>5
<1>7. T(k, n + 1) * q <= p * PowerOf(d, n + 1)
  BY <1>4, <1>6 DEF u, w
<1>8. k < n + 1
  BY <1>2
<1> QED BY <1>7, <1>8 DEF Passes, d, T, p, q

LEMMA HarmfulRowPassed ==
  ASSUME NEW n \in Nat, NEW k \in Nat, k <= n, Passes(k + 1, n + 1)
  PROVE  Passes(k, n)
<1> DEFINE d == Alpha[2]
           T(i, m) == Tails(Alpha, i, m)
           p == CorrectedDelta[1]
           q == CorrectedDelta[2]
<1>1. d \in Nat \ {0} /\ p \in Nat /\ q \in Nat
  BY AlphaIsRate
<1>2. k < n /\ T(k + 1, n + 1) * q <= p * PowerOf(d, n + 1) /\ k \in 0..n
  BY DEF Passes
<1>3. d * T(k, n) <= T(k + 1, n + 1) /\ T(k, n) \in Nat /\ T(k + 1, n + 1) \in Nat
  <2>1. k \in -1..n /\ k + 1 \in -1..(n + 1) /\ n + 1 \in Nat /\ d \in Nat
    BY <1>1, <1>2
  <2>2. d * Tails(Rate(Alpha[1], d), k, n) <= Tails(Rate(Alpha[1], d), k + 1, n + 1)
    BY <1>2, <2>1, AlphaIsRate, RowMovesTail
  <2>3. /\ Tails(Rate(Alpha[1], d), k, n) \in Nat
        /\ Tails(Rate(Alpha[1], d), k + 1, n + 1) \in Nat
    BY <2>1, AlphaIsRate, TailGrows
  <2> QED BY <2>2, <2>3, AlphaIsRate
<1>4. PowerOf(d, n) \in Nat /\ PowerOf(d, n + 1) = d * PowerOf(d, n)
  BY <1>1, PowerIs
<1> HIDE DEF d, T, p, q
<1> DEFINE t == T(k, n)
           u == T(k + 1, n + 1)
           w == PowerOf(d, n)
<1>5. u * q <= p * (d * w) /\ d * t <= u /\ t \in Nat /\ u \in Nat /\ w \in Nat
  BY <1>2, <1>3, <1>4
<1> HIDE DEF t, u, w
<1>6. t * q <= p * w
  <2>1. \A x, y, z \in Nat : y <= z => y * x <= z * x
    BY Z3
  <2>2. (d * t) * q <= u * q
    BY <1>1, <1>5, <2>1, ProductIsNat
  <2>3. (d * t) * q = d * (t * q) /\ p * (d * w) = d * (p * w)
    BY <1>1, <1>5, Z3
  <2>4. /\ u * q \in Nat /\ (d * t) * q \in Nat /\ t * q \in Nat
        /\ p * w \in Nat /\ p * (d * w) \in Nat
    BY <1>1, <1>5, ProductIsNat
  <2>5. d * (t * q) <= d * (p * w)
    BY <1>5, <2>2, <2>3, <2>4
  <2>6. \A x \in Nat \ {0}, y, z \in Nat : x * y <= x * z => y <= z
    BY Z3
  <2> QED BY <1>1, <2>4, <2>5, <2>6
<1>7. T(k, n) * q <= p * PowerOf(d, n)
  BY <1>6 DEF t, w
<1> QED BY <1>2, <1>7 DEF Passes, d, T, p, q

\* The rows of a sample below a candidate, and the harmful ones of them.
Released(s, c) == BelowCandidate(ScoreOf(s), c)
Escaped(s, c) == {i \in Released(s, c) : s[i].label}
PassingOf(s) == Passing(ScoreOf(s), [i \in DOMAIN s |-> s[i].label])

LEMMA SampleRows ==
  ASSUME NEW s \in Seq(LabelledRow), NEW c
  PROVE  /\ Released(s, c)
              = {i \in 1..Len(s) : Below(<<s[i].score, Max(ScoreRange) + 1>>, Candidate(c))}
         /\ Escaped(s, c) \subseteq Released(s, c)
         /\ IsFiniteSet(Released(s, c)) /\ IsFiniteSet(Escaped(s, c))
         /\ Cardinality(Released(s, c)) \in Nat /\ Cardinality(Escaped(s, c)) \in Nat
         /\ Cardinality(Escaped(s, c)) <= Cardinality(Released(s, c))
<1>1. DOMAIN s = 1..Len(s) /\ DOMAIN ScoreOf(s) = 1..Len(s) /\ Len(s) \in Nat
  BY DEF ScoreOf
<1>2. \A i \in 1..Len(s) : ScoreOf(s)[i] = <<s[i].score, Max(ScoreRange) + 1>>
  BY <1>1 DEF ScoreOf
<1>3. Released(s, c) = {i \in 1..Len(s) : Below(<<s[i].score, Max(ScoreRange) + 1>>, Candidate(c))}
  BY <1>1, <1>2 DEF Released, BelowCandidate
<1>4. IsFiniteSet(1..Len(s))
  BY <1>1, FS_Interval
<1>5. Released(s, c) \subseteq 1..Len(s) /\ Escaped(s, c) \subseteq Released(s, c)
  BY <1>3 DEF Escaped
<1>6. IsFiniteSet(Released(s, c))
  BY <1>4, <1>5, FS_Subset
<1> QED BY <1>3, <1>5, <1>6, FS_Subset, FS_CardinalityType

LEMMA CertificateIs ==
  ASSUME NEW s \in Seq(LabelledRow), NEW c
  PROVE  Certificate(ScoreOf(s), [i \in DOMAIN s |-> s[i].label], c)
           = [threshold |-> Candidate(c), released |-> Cardinality(Released(s, c)),
              escaped |-> Cardinality(Escaped(s, c))]
<1> DEFINE harmed == [i \in DOMAIN s |-> s[i].label]
<1>1. {i \in BelowCandidate(ScoreOf(s), c) : harmed[i]} = Escaped(s, c)
  <2>1. \A i \in BelowCandidate(ScoreOf(s), c) : i \in DOMAIN s
    BY DEF BelowCandidate, ScoreOf
  <2> QED BY <2>1 DEF Escaped, Released
<1> HIDE DEF harmed
<1>2. Certificate(ScoreOf(s), harmed, c)
        = [threshold |-> Candidate(c), released |-> Cardinality(BelowCandidate(ScoreOf(s), c)),
           escaped |-> Cardinality({i \in BelowCandidate(ScoreOf(s), c) : harmed[i]})]
  BY DEF Certificate
<1> QED BY <1>1, <1>2 DEF Released, harmed

\* Candidate 0 releases nothing and passes.
LEMMA PassingIs ==
  ASSUME NEW s \in Seq(LabelledRow)
  PROVE  /\ PassingOf(s) = {c \in Candidates :
                              Passes(Cardinality(Escaped(s, c)), Cardinality(Released(s, c)))}
         /\ PassingOf(s) \in SUBSET Int /\ IsFiniteSet(PassingOf(s)) /\ 0 \in PassingOf(s)
<1>1. PassingOf(s) = {c \in Candidates :
                        Passes(Cardinality(Escaped(s, c)), Cardinality(Released(s, c)))}
  <2> DEFINE harmed == [i \in DOMAIN s |-> s[i].label]
  <2>1. \A c : /\ Certificate(ScoreOf(s), harmed, c).escaped = Cardinality(Escaped(s, c))
               /\ Certificate(ScoreOf(s), harmed, c).released = Cardinality(Released(s, c))
    <3> TAKE c
    <3>1. Certificate(ScoreOf(s), harmed, c)
            = [threshold |-> Candidate(c), released |-> Cardinality(Released(s, c)),
               escaped |-> Cardinality(Escaped(s, c))]
      BY CertificateIs
    <3> HIDE DEF harmed
    <3> QED BY <3>1
  <2>2. PassingOf(s) = Passing(ScoreOf(s), harmed)
    BY DEF PassingOf
  <2> HIDE DEF harmed
  <2> QED BY <2>1, <2>2 DEF Passing
<1>2. GridSize - 1 \in Nat \ {0} /\ 0 \in Int
  BY ConformalAssumption
<1>3. IsFiniteSet(Candidates) /\ Candidates \subseteq Int /\ 0 \in Candidates
  BY <1>2, FS_Interval DEF Candidates
<1>4. Released(s, 0) = {}
  <2>1. ASSUME NEW i \in 1..Len(s) PROVE ~Below(<<s[i].score, Max(ScoreRange) + 1>>, Candidate(0))
    <3>1. s[i] \in LabelledRow
      OBVIOUS
    <3>2. s[i].score \in Nat
      BY <3>1, SamplesAssumption DEF LabelledRow
    <3>3. Max(ScoreRange) + 1 \in Nat
      <4>1. Max(ScoreRange) \in ScoreRange
        <5>1. ScoreRange \in SUBSET Int
          BY SamplesAssumption
        <5> QED BY <5>1, SamplesAssumption, MaxOfFinite
      <4>2. ScoreRange \subseteq Nat
        BY SamplesAssumption
      <4>3. Max(ScoreRange) \in Nat
        BY <4>1, <4>2
      <4> QED BY <4>3
    <3>4. s[i].score * (GridSize - 1) \in Nat
      BY <1>2, <3>2, ProductIsNat
    <3> DEFINE m == Max(ScoreRange) + 1
               p == s[i].score * (GridSize - 1)
    <3>5. Below(<<s[i].score, m>>, Candidate(0)) <=> p < 0 * m
      BY DEF Below, Candidate
    <3> HIDE DEF m, p
    <3>6. 0 * m = 0
      BY <3>3 DEF m
    <3> QED BY <3>4, <3>5, <3>6 DEF m, p
  <2> QED BY <2>1, SampleRows
<1>5. Cardinality(Released(s, 0)) = 0
  BY <1>4, FS_EmptySet
<1>6. 0 \in PassingOf(s)
  BY <1>1, <1>3, <1>5 DEF Passes
<1>7. PassingOf(s) \subseteq Candidates
  BY <1>1
<1> QED BY <1>1, <1>3, <1>6, <1>7, FS_Subset

\* The new row is released or not, and escapes if it is released and harmful.
LEMMA NewRow ==
  ASSUME NEW s \in Seq(LabelledRow), NEW r \in LabelledRow, NEW c
  PROVE  LET t == Append(s, r)
             n == Cardinality(Released(s, c))
             k == Cardinality(Escaped(s, c))
         IN  \/ Cardinality(Released(t, c)) = n /\ Cardinality(Escaped(t, c)) = k
             \/ /\ Cardinality(Released(t, c)) = n + 1
                /\ Cardinality(Escaped(t, c)) = IF r.label THEN k + 1 ELSE k
<1> DEFINE t == Append(s, r)
           x == Len(s) + 1
           q(row) == Below(<<row.score, Max(ScoreRange) + 1>>, Candidate(c))
<1>1. t \in Seq(LabelledRow) /\ Len(t) = x /\ t[x] = r /\ \A i \in 1..Len(s) : t[i] = s[i]
  OBVIOUS
<1>2. Len(s) \in Nat /\ 1..x = (1..Len(s)) \cup {x} /\ x \notin 1..Len(s)
  OBVIOUS
<1> HIDE DEF t, x
<1>3. /\ Released(s, c) = {i \in 1..Len(s) : q(s[i])}
      /\ Released(t, c) = {i \in 1..x : q(t[i])}
  BY <1>1, SampleRows
<1>4. /\ IsFiniteSet(Released(s, c)) /\ IsFiniteSet(Escaped(s, c))
      /\ Cardinality(Released(s, c)) \in Nat /\ Cardinality(Escaped(s, c)) \in Nat
      /\ Escaped(s, c) \subseteq Released(s, c)
  BY SampleRows
<1> HIDE DEF q
<1>5. CASE ~q(r)
  <2>1. Released(t, c) = Released(s, c)
    BY <1>1, <1>2, <1>3, <1>5
  <2>2. \A i \in Released(s, c) : t[i] = s[i]
    BY <1>1, <1>3
  <2>3. Escaped(t, c) = Escaped(s, c)
    BY <2>1, <2>2 DEF Escaped
  <2> QED BY <2>1, <2>3 DEF t
<1>6. CASE q(r)
  <2>1. Released(t, c) = Released(s, c) \cup {x} /\ x \notin Released(s, c)
    BY <1>1, <1>2, <1>3, <1>6
  <2>2. \A i \in Released(s, c) : t[i] = s[i]
    BY <1>1, <1>3
  <2>3. Escaped(t, c) = IF r.label THEN Escaped(s, c) \cup {x} ELSE Escaped(s, c)
    BY <1>1, <2>1, <2>2 DEF Escaped
  <2>4. x \notin Escaped(s, c)
    BY <1>4, <2>1
  <2>5. Cardinality(Released(t, c)) = Cardinality(Released(s, c)) + 1
    <3> DEFINE R == Released(s, c)
    <3>1. IsFiniteSet(R) /\ x \notin R /\ Released(t, c) = R \cup {x}
      BY <1>4, <2>1
    <3> HIDE DEF R
    <3>2. Cardinality(R \cup {x}) = Cardinality(R) + 1
      BY <3>1, FS_AddElement
    <3> QED BY <3>1, <3>2 DEF R
  <2>6. Cardinality(Escaped(s, c) \cup {x}) = Cardinality(Escaped(s, c)) + 1
    BY <1>4, <2>4, FS_AddElement
  <2>7. CASE r.label
    BY <2>3, <2>5, <2>6, <2>7 DEF t
  <2>8. CASE ~r.label
    BY <2>3, <2>5, <2>8 DEF t
  <2> QED BY <2>7, <2>8
<1> QED BY <1>5, <1>6

LEMMA SelectedIs ==
  ASSUME NEW s \in Seq(LabelledRow)
  PROVE  /\ Max(PassingOf(s)) \in PassingOf(s) /\ \A c \in PassingOf(s) : c <= Max(PassingOf(s))
         /\ Max(PassingOf(s)) \in 0..(GridSize - 1)
         /\ Selected(s).threshold = <<Max(PassingOf(s)), GridSize - 1>>
         /\ Selected(s).released = Cardinality(Released(s, Max(PassingOf(s))))
<1>1. /\ Max(PassingOf(s)) \in PassingOf(s) /\ \A c \in PassingOf(s) : Max(PassingOf(s)) >= c
  BY PassingIs, MaxOfFinite
<1>2. PassingOf(s) \subseteq 0..(GridSize - 1)
  BY PassingIs DEF Candidates
<1>3. \A c \in PassingOf(s) : c <= Max(PassingOf(s))
  BY <1>1, PassingIs, ConformalAssumption
<1>4. Selected(s) = Certificate(ScoreOf(s), [i \in DOMAIN s |-> s[i].label], Max(PassingOf(s)))
  BY PassingIs DEF Selected, LearnThenTest, PassingOf
<1> DEFINE m == Max(PassingOf(s))
<1>5. Selected(s) = [threshold |-> Candidate(m), released |-> Cardinality(Released(s, m)),
                     escaped |-> Cardinality(Escaped(s, m))]
  BY <1>4, CertificateIs
<1>6. m \in PassingOf(s) /\ m \in 0..(GridSize - 1) /\ \A c \in PassingOf(s) : c <= m
  BY <1>1, <1>2, <1>3
<1> HIDE DEF m
<1>7. Selected(s).threshold = Candidate(m) /\ Selected(s).released = Cardinality(Released(s, m))
  BY <1>5
<1> QED BY <1>6, <1>7 DEF Candidate, m

LEMMA RowMovesThreshold ==
  ASSUME NEW s \in Seq(LabelledRow), NEW r \in LabelledRow
  PROVE  IF r.label
         THEN AtMost(Selected(Append(s, r)).threshold, Selected(s).threshold)
         ELSE Selected(s).released > 0
              => AtMost(Selected(s).threshold, Selected(Append(s, r)).threshold)
<1> DEFINE t == Append(s, r)
           n(c) == Cardinality(Released(s, c))
           k(c) == Cardinality(Escaped(s, c))
           N(c) == Cardinality(Released(t, c))
           K(c) == Cardinality(Escaped(t, c))
           G == GridSize - 1
<1>1. t \in Seq(LabelledRow)
  OBVIOUS
<1>2. \A c : n(c) \in Nat /\ k(c) \in Nat /\ k(c) <= n(c)
  BY SampleRows
<1>3. \A c : \/ N(c) = n(c) /\ K(c) = k(c)
             \/ N(c) = n(c) + 1 /\ K(c) = IF r.label THEN k(c) + 1 ELSE k(c)
  BY NewRow
<1>4. /\ PassingOf(s) = {c \in Candidates : Passes(k(c), n(c))}
      /\ PassingOf(t) = {c \in Candidates : Passes(K(c), N(c))}
  BY <1>1, PassingIs
<1>5. /\ \A c \in PassingOf(s) : c <= Max(PassingOf(s))
      /\ \A c \in PassingOf(t) : c <= Max(PassingOf(t))
      /\ Max(PassingOf(s)) \in PassingOf(s) /\ Max(PassingOf(t)) \in PassingOf(t)
      /\ Max(PassingOf(s)) \in 0..G /\ Max(PassingOf(t)) \in 0..G
      /\ Selected(s).threshold = <<Max(PassingOf(s)), G>>
      /\ Selected(t).threshold = <<Max(PassingOf(t)), G>>
      /\ Selected(s).released = n(Max(PassingOf(s)))
  BY <1>1, SelectedIs
<1>6. G \in Nat
  BY ConformalAssumption
<1> HIDE DEF t, n, k, N, K, G
<1>7. \A x, y \in 0..G : x <= y => AtMost(<<x, G>>, <<y, G>>)
  <2>1. \A x, y, z \in Nat : x <= y => x * z <= y * z
    BY Z3
  <2> QED BY <1>6, <2>1 DEF AtMost
<1>8. CASE r.label
  <2>1. PassingOf(t) \subseteq PassingOf(s)
    <3>1. ASSUME NEW c \in Candidates, Passes(K(c), N(c)) PROVE Passes(k(c), n(c))
      <4>1. CASE N(c) = n(c) /\ K(c) = k(c)
        BY <3>1, <4>1
      <4>2. CASE N(c) = n(c) + 1 /\ K(c) = k(c) + 1
        <5>1. Passes(k(c) + 1, n(c) + 1)
          BY <3>1, <4>2
        <5> QED BY <1>2, <5>1, HarmfulRowPassed
      <4> QED BY <1>3, <1>8, <4>1, <4>2
    <3> QED BY <1>4, <3>1
  <2>2. Max(PassingOf(t)) <= Max(PassingOf(s))
    BY <1>5, <2>1
  <2>3. AtMost(Selected(t).threshold, Selected(s).threshold)
    BY <1>5, <1>7, <2>2
  <2> QED BY <1>8, <2>3 DEF t
<1>9. CASE ~r.label
  <2> SUFFICES ASSUME Selected(s).released > 0
               PROVE  AtMost(Selected(s).threshold, Selected(t).threshold)
    BY <1>9 DEF t
  <2> DEFINE c == Max(PassingOf(s))
  <2>1. n(c) \in Nat \ {0} /\ k(c) \in Nat /\ Passes(k(c), n(c)) /\ c \in Candidates
    BY <1>2, <1>4, <1>5
  <2>2. Passes(K(c), N(c))
    <3>1. Passes(k(c), n(c) + 1)
      BY <2>1, CleanRowPasses
    <3> QED BY <1>3, <1>9, <2>1, <3>1
  <2>3. c \in PassingOf(t)
    BY <1>4, <2>1, <2>2
  <2>4. c <= Max(PassingOf(t))
    BY <1>5, <2>3
  <2> QED BY <1>5, <1>7, <2>4
<1> QED BY <1>8, <1>9

LEMMA SamplesAreRows == SamplesSpec => [](sample \in Seq(LabelledRow))
<1>1. sample = <<>> => sample \in Seq(LabelledRow)
  OBVIOUS
<1>2. sample \in Seq(LabelledRow) /\ [AddRow]_sample => (sample \in Seq(LabelledRow))'
  BY DEF AddRow
<1> QED BY <1>1, <1>2, PTL DEF SamplesSpec

\* Whatever the rate, the budget, the grid and the sample: a harmful row never
\* loosens the threshold that learn_then_test selects, and a clean row never
\* tightens one that released something.
THEOREM LabelsAlwaysMoveThreshold == SamplesSpec => LabelsMoveThreshold
<1> DEFINE Moves == sample # <<>> =>
             IF Last(sample').label
             THEN AtMost(Selected(sample').threshold, Selected(sample).threshold)
             ELSE Selected(sample).released > 0
                  => AtMost(Selected(sample).threshold, Selected(sample').threshold)
<1>1. ASSUME sample \in Seq(LabelledRow), AddRow PROVE Moves
  <2>1. PICK r \in LabelledRow : sample' = Append(sample, r)
    BY <1>1 DEF AddRow
  <2>2. Last(sample') = r
    BY <1>1, <2>1 DEF Last
  <2> QED BY <1>1, <2>1, <2>2, RowMovesThreshold
<1>2. sample \in Seq(LabelledRow) /\ [AddRow]_sample => [Moves]_sample
  BY <1>1
<1> HIDE DEF Moves
<1>3. SamplesSpec => [][Moves]_sample
  BY <1>2, SamplesAreRows, PTL DEF SamplesSpec
<1> QED BY <1>3, PTL DEF Moves, LabelsMoveThreshold

\* The numbers of a finite set in order: each of them once.
LEMMA AscendingIs ==
  ASSUME NEW S \in SUBSET Int, IsFiniteSet(S)
  PROVE  /\ Cardinality(S) \in Nat
         /\ Ascending(S) \in [1..Cardinality(S) -> S]
         /\ \A t \in S : \E i \in 1..Cardinality(S) : Ascending(S)[i] = t
         /\ \A i, j \in 1..Cardinality(S) : i < j <=> Ascending(S)[i] < Ascending(S)[j]
<1> DEFINE n == Cardinality(S)
           under(t) == {y \in S : y < t}
           R == [t \in S |-> Cardinality(under(t))]
           x == Ascending(S)
<1>1. n \in Nat
  BY FS_CardinalityType
<1>2. \A t \in S : IsFiniteSet(under(t)) /\ R[t] \in Nat /\ R[t] = Cardinality(under(t))
  <2> TAKE t \in S
  <2>1. under(t) \in SUBSET S
    OBVIOUS
  <2> HIDE DEF under
  <2>2. IsFiniteSet(under(t))
    BY <2>1, FS_Subset
  <2>3. Cardinality(under(t)) \in Nat
    BY <2>2, FS_CardinalityType
  <2> QED BY <2>2, <2>3
<1>3. \A t \in S : R[t] < n
  <2> TAKE t \in S
  <2>1. under(t) \in SUBSET S /\ under(t) # S
    OBVIOUS
  <2> HIDE DEF under
  <2>2. Cardinality(under(t)) <= n /\ Cardinality(under(t)) # n
    BY <2>1, FS_Subset
  <2> HIDE DEF R
  <2> QED BY <1>1, <1>2, <2>2
<1>4. \A t, u \in S : t < u => R[t] < R[u]
  <2> TAKE t \in S, u \in S
  <2> HAVE t < u
  <2> DEFINE a == under(t)
             b == under(u)
  <2>1. a \in SUBSET b /\ t \in b /\ t \notin a
    <3>1. t \in Int /\ u \in Int /\ \A y \in S : y \in Int
      OBVIOUS
    <3>2. \A y \in S : y < t => y < u
      BY <3>1
    <3>3. ~(t < t)
      BY <3>1
    <3> HIDE DEF R
    <3> QED BY <3>2, <3>3
  <2>2. IsFiniteSet(b) /\ R[t] = Cardinality(a) /\ R[u] = Cardinality(b)
        /\ R[t] \in Nat /\ R[u] \in Nat
    BY <1>2
  <2> HIDE DEF a, b, R
  <2>3. Cardinality(a) <= Cardinality(b) /\ Cardinality(b) # Cardinality(a)
    BY <2>1, <2>2, FS_Subset
  <2> QED BY <2>2, <2>3
<1> HIDE DEF R
<1>11. \A t \in S : R[t] \in Nat /\ R[t] < n /\ t \in Int
  <2> HIDE DEF under
  <2> QED BY <1>2, <1>3
<1> HIDE DEF under
<1>5. \A t, u \in S : R[t] = R[u] => t = u
  <2> TAKE t \in S, u \in S
  <2> HAVE R[t] = R[u]
  <2>1. R[t] \in Nat /\ R[u] \in Nat /\ t \in Int /\ u \in Int
    BY <1>11
  <2>2. ~(t < u) /\ ~(u < t)
    BY <1>4, <2>1
  <2> QED BY <2>1, <2>2
<1>6. \A k \in 1..n : \E t \in S : R[t] = k - 1
  <2> DEFINE N == 0..(n - 1)
  <2>1. R \in [S -> N]
    <3>1. R = [t \in S |-> R[t]]
      BY DEF R
    <3>2. \A t \in S : R[t] \in N
      BY <1>1, <1>11
    <3> HIDE DEF N
    <3> QED BY <3>1, <3>2
  <2>2. IsFiniteSet(N) /\ Cardinality(N) = n
    <3>1. 0 \in Int /\ n - 1 \in Int
      BY <1>1
    <3>2. IsFiniteSet(N) /\ Cardinality(N) = IF 0 > n - 1 THEN 0 ELSE (n - 1) - 0 + 1
      BY <3>1, FS_Interval
    <3> HIDE DEF N
    <3> QED BY <1>1, <3>2
  <2> HIDE DEF N
  <2>3. R \in Injection(S, N)
    BY <1>5, <2>1 DEF Injection, IsInjective
  <2>4. R \in Surjection(S, N)
    BY <2>2, <2>3, FS_Injection
  <2>5. \A k \in N : \E t \in S : R[t] = k
    BY <2>4 DEF Surjection
  <2>6. \A k \in 1..n : k - 1 \in N
    BY <1>1 DEF N
  <2> QED BY <2>5, <2>6
<1>7. ASSUME NEW k \in 1..n PROVE x[k] \in S /\ R[x[k]] = k - 1
  <2>1. x[k] = CHOOSE t \in S : Cardinality(under(t)) = k - 1
    BY DEF Ascending, under
  <2>2. PICK t \in S : R[t] = k - 1
    BY <1>6
  <2>3. t \in S /\ Cardinality(under(t)) = k - 1
    BY <1>2, <2>2
  <2> HIDE DEF under, x
  <2>4. x[k] \in S /\ Cardinality(under(x[k])) = k - 1
    BY <2>1, <2>3
  <2> QED BY <1>2, <2>4
<1>8. x \in [1..n -> S]
  <2> DEFINE pick(k) == CHOOSE t \in S : Cardinality(under(t)) = k - 1
  <2>1. x = [k \in 1..n |-> pick(k)]
    BY DEF Ascending, under, pick
  <2> HIDE DEF x, n, pick
  <2> QED BY <1>7, <2>1
<1> HIDE DEF x, n
<1>9. \A t \in S : \E i \in 1..n : x[i] = t
  <2> TAKE t \in S
  <2>1. R[t] + 1 \in 1..n /\ (R[t] + 1) - 1 = R[t]
    BY <1>1, <1>11
  <2>2. x[R[t] + 1] \in S /\ R[x[R[t] + 1]] = R[t]
    BY <1>7, <2>1
  <2>3. x[R[t] + 1] = t
    BY <1>5, <2>2
  <2> QED BY <2>1, <2>3
<1>10. \A i, j \in 1..n : i < j <=> x[i] < x[j]
  <2> TAKE i \in 1..n, j \in 1..n
  <2>1. x[i] \in S /\ x[j] \in S /\ R[x[i]] = i - 1 /\ R[x[j]] = j - 1
    BY <1>7
  <2>2. i \in Int /\ j \in Int /\ x[i] \in Int /\ x[j] \in Int
    <3>1. i \in Int /\ j \in Int
      BY <1>1
    <3> QED BY <1>11, <2>1, <3>1
  <2>3. x[i] < x[j] => i < j
    BY <1>4, <2>1, <2>2
  <2>4. x[j] < x[i] => j < i
    BY <1>4, <2>1, <2>2
  <2>5. x[j] = x[i] => j = i
    BY <2>1, <2>2
  <2> QED BY <2>2, <2>3, <2>4, <2>5
<1> QED BY <1>1, <1>8, <1>9, <1>10 DEF x, n

-----------------------------------------------------------------------------
(* What an engine serves.                                                   *)

\* Maps fitted on one fold of the rows, thresholds chosen through them on the other.
Serving(maps, thresholds, rows) ==
  /\ Numbered(DOMAIN rows)
  /\ \A r \in DOMAIN thresholds :
       /\ thresholds[r] = ThresholdThrough(maps, rows, r)
       /\ r \in DOMAIN maps => maps[r] = FitAxes(rows, Fitting(rows, r))

\* A calibrate that raises changes the maps alone.  It does no harm to an engine
\* without thresholds, nor to one that has the same maps from the same corpus.
EngineInv ==
  /\ engine.source \in {"none", "artifact", "corpus"}
  /\ engine.source = "none" => engine.thresholds = NoFunction /\ engine.rows = NoFunction
  /\ engine.source = "corpus" =>
       /\ engine.maps = CorpusMaps /\ engine.rows = Corpus
       /\ engine.thresholds = [r \in Routes(Corpus) |-> ThresholdThrough(CorpusMaps, Corpus, r)]
  /\ engine.source = "artifact" /\ ~engine.raised =>
       Serving(engine.maps, engine.thresholds, engine.rows)

\* The places of some of the rows in their order are as many as the rows.
LEMMA PlacesOf ==
  ASSUME NEW ids, Numbered(ids), NEW S \in SUBSET ids
  PROVE  /\ \A k \in DOMAIN Ordered(ids) : Ordered(ids)[k] \in ids
         /\ Cardinality({k \in DOMAIN Ordered(ids) : Ordered(ids)[k] \in S}) = Cardinality(S)
<1> DEFINE n == Cardinality(ids)
           x == Ordered(ids)
           K == {k \in DOMAIN x : x[k] \in S}
           f == [k \in K |-> x[k]]
<1>1. ids \in SUBSET Int /\ IsFiniteSet(ids)
  BY DEF Numbered
<1>2. /\ n \in Nat /\ x \in [1..n -> ids]
      /\ \A t \in ids : \E i \in 1..n : x[i] = t
      /\ \A i, j \in 1..n : i < j <=> x[i] < x[j]
  BY <1>1, AscendingIs DEF Ordered
<1> HIDE DEF n, x
<1>3. DOMAIN x = 1..n /\ K \in SUBSET (1..n) /\ \A k \in 1..n : k \in K <=> x[k] \in S
  BY <1>2
<1>4. IsFiniteSet(K)
  BY <1>2, <1>3, FS_Interval, FS_Subset
<1>5. \A i, j \in 1..n : x[i] = x[j] => i = j
  <2> TAKE i \in 1..n, j \in 1..n
  <2>1. x[i] \in Int /\ x[j] \in Int /\ i \in Int /\ j \in Int
    <3>1. x[i] \in ids /\ x[j] \in ids
      BY <1>2
    <3>2. i \in Int /\ j \in Int
      BY <1>2
    <3> QED BY <1>1, <3>1, <3>2
  <2>2. (i < j <=> x[i] < x[j]) /\ (j < i <=> x[j] < x[i])
    BY <1>2
  <2> QED BY <2>1, <2>2
<1> HIDE DEF K
<1>6. f \in Bijection(K, S)
  <2>1. f \in [K -> S] /\ \A k \in K : f[k] = x[k]
    <3>1. \A k \in K : x[k] \in S
      BY <1>3
    <3> QED BY <3>1
  <2>2. \A i, j \in K : f[i] = f[j] => i = j
    BY <1>3, <1>5, <2>1
  <2>3. \A t \in S : \E k \in K : f[k] = t
    <3> TAKE t \in S
    <3>1. PICK k \in 1..n : x[k] = t
      BY <1>2
    <3>2. k \in K
      BY <1>3, <3>1
    <3> QED BY <2>1, <3>1, <3>2
  <2> HIDE DEF f
  <2> QED BY <2>1, <2>2, <2>3, Zenon DEF Bijection, Injection, Surjection, IsInjective
<1>7. Cardinality(K) = Cardinality(S)
  BY <1>4, <1>6, FS_Bijection DEF ExistsBijection
<1> QED BY <1>2, <1>3, <1>7 DEF x, K

\* The rows that score below the c-th candidate, and the harmful ones among them.
Lets(maps, route, rows, ids, c) ==
  {i \in ids : Below(HarmAt(maps, route, rows[i].raw), Candidate(c))}
Harmful(rows, ids) == {i \in ids : rows[i].harm}
Allowed(maps, route, rows, ids, c) ==
  Passes(Cardinality(Harmful(rows, Lets(maps, route, rows, ids, c))),
         Cardinality(Lets(maps, route, rows, ids, c)))
Scored(maps, route, rows, ids) ==
  [k \in DOMAIN Ordered(ids) |-> HarmAt(maps, route, rows[Ordered(ids)[k]].raw)]

LEMMA CountsAre ==
  ASSUME NEW ids, Numbered(ids), NEW maps, NEW route, NEW rows, NEW c
  PROVE  Certificate(Scored(maps, route, rows, ids), HarmedOf(rows, ids), c)
           = [threshold |-> Candidate(c),
              released |-> Cardinality(Lets(maps, route, rows, ids, c)),
              escaped |-> Cardinality(Harmful(rows, Lets(maps, route, rows, ids, c)))]
<1> DEFINE x == Ordered(ids)
           s == Scored(maps, route, rows, ids)
           h == HarmedOf(rows, ids)
           L == Lets(maps, route, rows, ids, c)
           H == Harmful(rows, L)
<1>1. L \in SUBSET ids /\ H \in SUBSET ids
  BY DEF Lets, Harmful
<1>2. \A k \in DOMAIN x : x[k] \in ids
  BY PlacesOf
<1>3. /\ DOMAIN s = DOMAIN x /\ DOMAIN h = DOMAIN x
      /\ \A k \in DOMAIN x : /\ s[k] = HarmAt(maps, route, rows[x[k]].raw)
                             /\ h[k] = rows[x[k]].harm
  BY DEF Scored, HarmedOf
<1>4. \A i \in ids : i \in L <=> Below(HarmAt(maps, route, rows[i].raw), Candidate(c))
  BY DEF Lets
<1>5. \A i : i \in H <=> i \in L /\ rows[i].harm
  BY DEF Harmful
<1>6. Cardinality({k \in DOMAIN x : x[k] \in L}) = Cardinality(L)
  BY <1>1, PlacesOf
<1>7. Cardinality({k \in DOMAIN x : x[k] \in H}) = Cardinality(H)
  BY <1>1, PlacesOf
<1> HIDE DEF x, s, h, L, H
<1>8. BelowCandidate(s, c) = {k \in DOMAIN x : x[k] \in L}
  BY <1>2, <1>3, <1>4 DEF BelowCandidate
<1>9. {k \in BelowCandidate(s, c) : h[k]} = {k \in DOMAIN x : x[k] \in H}
  BY <1>3, <1>5, <1>8
<1>10. Certificate(s, h, c) = [threshold |-> Candidate(c), released |-> Cardinality(L),
                               escaped |-> Cardinality(H)]
  BY <1>6, <1>7, <1>8, <1>9 DEF Certificate
<1> QED BY <1>10 DEF s, h, L, H

\* The threshold is the largest candidate that the rows held out allow.
LEMMA ThresholdIs ==
  ASSUME NEW rows, Numbered(DOMAIN rows), NEW maps, NEW route
  PROVE  LET ids == Selection(rows, route)
         IN  \E c \in Candidates :
               /\ ThresholdThrough(maps, rows, route) = Candidate(c)
               /\ c = 0 \/ Allowed(maps, route, rows, ids, c)
               /\ \A d \in Candidates : c < d => ~Allowed(maps, route, rows, ids, d)
<1> DEFINE ids == Selection(rows, route)
           s == Scored(maps, route, rows, ids)
           h == HarmedOf(rows, ids)
           P == Passing(s, h)
           ok(c) == Allowed(maps, route, rows, ids, c)
<1>1. Numbered(ids)
  <2>1. ids \in SUBSET DOMAIN rows
    BY DEF Selection, OfRoute
  <2> HIDE DEF ids
  <2> QED BY <2>1, FS_Subset DEF Numbered
<1>2. ThresholdThrough(maps, rows, route) = LearnThenTest(s, h).threshold
  BY DEF ThresholdThrough, Scored
<1> HIDE DEF ids
<1>3. \A c : /\ Certificate(s, h, c).threshold = Candidate(c)
             /\ Passes(Certificate(s, h, c).escaped, Certificate(s, h, c).released) <=> ok(c)
  <2> TAKE c
  <2> DEFINE L == Lets(maps, route, rows, ids, c)
             H == Harmful(rows, L)
  <2>1. Certificate(s, h, c) = [threshold |-> Candidate(c), released |-> Cardinality(L),
                                escaped |-> Cardinality(H)]
    BY <1>1, CountsAre
  <2>2. ok(c) <=> Passes(Cardinality(H), Cardinality(L))
    BY DEF Allowed
  <2> HIDE DEF s, h, L, H, ok
  <2> QED BY <2>1, <2>2
<1> HIDE DEF s, h, ok
<1>4. P = {c \in Candidates : ok(c)}
  BY <1>3 DEF Passing
<1>5. Candidates \in SUBSET Int /\ IsFiniteSet(Candidates) /\ 0 \in Candidates
      /\ \A c \in Candidates : c \in Int
  <2>1. GridSize - 1 \in Nat /\ 0 \in Int
    BY ConformalAssumption
  <2> QED BY <2>1, FS_Interval DEF Candidates
<1>6. CASE P = {}
  <2>1. LearnThenTest(s, h).threshold = Candidate(0)
    BY <1>6 DEF LearnThenTest
  <2>2. \A d \in Candidates : ~ok(d)
    BY <1>4, <1>6
  <2> QED BY <1>2, <1>5, <2>1, <2>2 DEF ids, ok
<1>7. CASE P # {}
  <2> DEFINE m == Max(P)
  <2>1. P \in SUBSET Int /\ IsFiniteSet(P)
    BY <1>4, <1>5, FS_Subset
  <2>2. m \in P /\ \A c \in P : m >= c
    BY <1>7, <2>1, MaxOfFinite
  <2>3. LearnThenTest(s, h).threshold = Candidate(m)
    BY <1>3, <1>7 DEF LearnThenTest
  <2> HIDE DEF m, P
  <2>4. m \in Candidates /\ ok(m)
    BY <1>4, <2>2
  <2>5. \A d \in Candidates : m < d => ~ok(d)
    <3> SUFFICES ASSUME NEW d \in Candidates, m < d, ok(d) PROVE FALSE
      OBVIOUS
    <3>1. d \in P
      BY <1>4
    <3> QED BY <1>5, <2>2, <2>4, <3>1
  <2> QED BY <1>2, <2>3, <2>4, <2>5 DEF ids, ok
<1> QED BY <1>6, <1>7

\* What is kept of a refit can be served, and so can the fit of the corpus.
LEMMA KeptServes ==
  ASSUME NEW routes, NEW rows, Kept(routes, rows)
  PROVE  Serving(MapsOf(routes), ThresholdsOf(routes), rows)
<1>1. ASSUME NEW r \in DOMAIN routes
      PROVE  /\ ThresholdsOf(routes)[r] = ThresholdThrough(MapsOf(routes), rows, r)
             /\ MapsOf(routes)[r] = FitAxes(rows, Fitting(rows, r))
  <2> DEFINE ids == Selection(rows, r)
             fitted == FitAxes(rows, Fitting(rows, r))
             maps == MapsOf(routes)
  <2>1. /\ routes[r].maps = fitted
        /\ routes[r].certificate = LearnThenTest(ScoresOf(fitted, rows, ids), HarmedOf(rows, ids))
    BY DEF Kept, RouteCalibration, Certify
  <2>2. r \in DOMAIN maps /\ maps[r] = fitted
        /\ ThresholdsOf(routes)[r] = routes[r].certificate.threshold
    BY <2>1 DEF MapsOf, ThresholdsOf
  <2> HIDE DEF ids, fitted, maps
  <2>3. \A raw : HarmAt(maps, r, raw) = CalibratedMax(fitted, raw)
    BY <2>2 DEF HarmAt
  <2>4. ScoresOf(fitted, rows, ids) = Scored(maps, r, rows, ids)
    BY <2>3 DEF ScoresOf, Scored
  <2>5. ThresholdThrough(maps, rows, r)
          = LearnThenTest(Scored(maps, r, rows, ids), HarmedOf(rows, ids)).threshold
    BY DEF ThresholdThrough, Scored, ids
  <2> QED BY <2>1, <2>2, <2>4, <2>5 DEF maps, fitted
<1>2. Numbered(DOMAIN rows)
  BY DEF Kept
<1>3. DOMAIN ThresholdsOf(routes) = DOMAIN routes
  BY DEF ThresholdsOf
<1> QED BY <1>1, <1>2, <1>3 DEF Serving

LEMMA CorpusServes ==
  Serving(CorpusMaps, [r \in Routes(Corpus) |-> ThresholdThrough(CorpusMaps, Corpus, r)], Corpus)
<1>1. \A r \in DOMAIN CorpusMaps : CorpusMaps[r] = FitAxes(Corpus, Fitting(Corpus, r))
  BY DEF CorpusMaps
<1> QED BY <1>1, CorpusAssumption DEF Serving

LEMMA ServingIsCertified ==
  ASSUME Serving(engine.maps, engine.thresholds, engine.rows), NEW r \in DOMAIN engine.thresholds
  PROVE  Certified(r)
<1> DEFINE rows == engine.rows
           ids == Selection(rows, r)
<1>1. /\ Numbered(DOMAIN rows) /\ engine.thresholds[r] = ThresholdThrough(engine.maps, rows, r)
      /\ r \in DOMAIN engine.maps => engine.maps[r] = FitAxes(rows, Fitting(rows, r))
  BY DEF Serving
<1>2. PICK c \in Candidates :
        /\ engine.thresholds[r] = Candidate(c)
        /\ c = 0 \/ Allowed(engine.maps, r, rows, ids, c)
        /\ \A d \in Candidates : c < d => ~Allowed(engine.maps, r, rows, ids, d)
  BY <1>1, ThresholdIs
<1>3. \A d : Allowed(engine.maps, r, rows, ids, d) <=> Bounded(r, d)
  <2> TAKE d
  <2>1. HeldOut(r) = ids
    BY DEF HeldOut, Selection, OfRoute
  <2>2. LetThrough(r, d) = Lets(engine.maps, r, rows, ids, d)
    BY <2>1 DEF LetThrough, Lets
  <2> QED BY <2>2 DEF Bounded, Allowed, Harmful
<1>4. Fitting(rows, r) = {i \in DOMAIN rows : rows[i].route = r /\ i \in FittingFold}
  BY DEF Fitting, OfRoute
<1> HIDE DEF rows, ids
<1> QED BY <1>1, <1>2, <1>3, <1>4 DEF Certified, rows

LEMMA EngineStarts == LearningInit => EngineInv
BY DEF LearningInit, EngineInv, NewEngine

LEMMA EngineStep ==
  LearningInv /\ EngineInv /\ [LearningNext]_learningVars => EngineInv'
<1> SUFFICES ASSUME LearningInv, EngineInv, [LearningNext]_learningVars PROVE EngineInv'
  OBVIOUS
<1>1. CASE StartEngine
  BY <1>1 DEF StartEngine, NewEngine, EngineInv
<1>2. CASE LoadReleased
  <2> DEFINE N == Newest(Reached(engine.detector))
  <2>1. N \in learned /\ Reached(engine.detector) # {}
    BY <1>2, LatestIsReleased DEF LoadReleased, LearningInv, LearningTypes
  <2>2. engine' = Engine(engine.detector, MapsOf(N.routes), ThresholdsOf(N.routes), N.rows,
                         "artifact", FALSE)
    BY <1>2, <2>1, LoadsInto DEF Latest
  <2>3. Kept(N.routes, N.rows)
    BY <2>1 DEF LearningInv, InHand
  <2> HIDE DEF N
  <2>4. Serving(MapsOf(N.routes), ThresholdsOf(N.routes), N.rows)
    BY <2>3, KeptServes
  <2> QED BY <2>2, <2>4 DEF EngineInv, Engine
<1>3. CASE CalibrateEngine
  BY <1>3, FitsInto DEF EngineInv, Engine
<1>4. CASE CalibrateRaises
  BY <1>4, RaisesInto DEF EngineInv, Engine
<1>5. CASE UNCHANGED engine
  BY <1>5 DEF EngineInv
<1> QED BY <1>1, <1>2, <1>3, <1>4, <1>5 DEF LearningNext, learningVars, EditDetector, RunReport,
           Relearn, WriteRefitReport, BeginWrite, EndWrite, Crash

\* On the rows that fitted none of its maps, an engine lets through below each of
\* its thresholds no more harm than the test allows, and below any higher one
\* more, unless it adopted an artifact and its calibrate has since raised.
THEOREM EnginesServeTheCertified == LearningSpec => []ServedIsCertified
<1>1. ASSUME EngineInv PROVE ServedIsCertified
  <2> SUFFICES ASSUME ~(engine.source = "artifact" /\ engine.raised),
                      NEW r \in DOMAIN engine.thresholds
               PROVE  Certified(r)
    BY DEF ServedIsCertified
  <2>1. engine.source # "none"
    BY <1>1 DEF EngineInv, NoFunction
  <2>2. CASE engine.source = "corpus"
    BY <1>1, <2>2, CorpusServes, ServingIsCertified DEF EngineInv
  <2>3. CASE engine.source = "artifact"
    BY <1>1, <2>3, ServingIsCertified DEF EngineInv
  <2> QED BY <1>1, <2>1, <2>2, <2>3 DEF EngineInv
<1> QED BY <1>1, LearningHolds, EngineStarts, EngineStep, PTL DEF LearningSpec

-----------------------------------------------------------------------------
(* RankMetrics: the rows of a sample.                                       *)

LEMMA RowsAre ==
  ASSUME NEW s \in Seq(LabelledRow)
  PROVE  /\ DOMAIN s = 1..Len(s) /\ IsFiniteSet(DOMAIN s) /\ Cardinality(DOMAIN s) = Len(s)
         /\ \A i \in DOMAIN s : s[i].score \in Nat /\ s[i].label \in BOOLEAN
         /\ Positive(s) \cup Negative(s) = DOMAIN s /\ Positive(s) \cap Negative(s) = {}
         /\ IsFiniteSet(Positive(s)) /\ IsFiniteSet(Negative(s))
         /\ Cardinality(Positive(s)) \in Nat /\ Cardinality(Negative(s)) \in Nat
         /\ Len(s) = Cardinality(Positive(s)) + Cardinality(Negative(s))
<1>1. DOMAIN s = 1..Len(s) /\ Len(s) \in Nat
  OBVIOUS
<1>2. IsFiniteSet(DOMAIN s) /\ Cardinality(DOMAIN s) = Len(s)
  BY <1>1, FS_Interval
<1>3. \A i \in DOMAIN s : s[i].score \in Nat /\ s[i].label \in BOOLEAN
  <2>1. \A i \in DOMAIN s : s[i] \in LabelledRow
    OBVIOUS
  <2> QED BY <2>1, SamplesAssumption DEF LabelledRow
<1>4. /\ Positive(s) \cup Negative(s) = DOMAIN s /\ Positive(s) \cap Negative(s) = {}
      /\ Positive(s) \in SUBSET (DOMAIN s) /\ Negative(s) \in SUBSET (DOMAIN s)
  BY DEF Positive, Negative
<1>5. IsFiniteSet(Positive(s)) /\ IsFiniteSet(Negative(s))
  BY <1>2, <1>4, FS_Subset
<1>6. /\ Cardinality(DOMAIN s) = Cardinality(Positive(s)) + Cardinality(Negative(s))
      /\ Cardinality(Positive(s)) \in Nat /\ Cardinality(Negative(s)) \in Nat
  BY <1>4, <1>5, DisjointCount
<1> QED BY <1>1, <1>2, <1>3, <1>4, <1>5, <1>6

\* Of the pairs of a set with itself, each wins, loses or ties.
LEMMA PairsWithSelf ==
  ASSUME NEW A, IsFiniteSet(A), NEW k \in [A -> Int], NEW v,
         \A i \in A : v[i] = 2 * Cardinality({j \in A : k[j] < k[i]})
                             + Cardinality({j \in A : k[j] = k[i]})
  PROVE  SumOf(v, A) = Cardinality(A) * Cardinality(A)
<1> DEFINE W == {r \in A \X A : k[r[2]] < k[r[1]]}
           L == {r \in A \X A : k[r[1]] < k[r[2]]}
           E == {r \in A \X A : k[r[1]] = k[r[2]]}
           below(i) == {j \in A : k[j] < k[i]}
           tied(i) == {j \in A : k[j] = k[i]}
           b == [i \in A |-> Cardinality(below(i))]
           e == [i \in A |-> Cardinality(tied(i))]
           bb == [i \in A |-> b[i] + b[i]]
<1>1. IsFiniteSet(A \X A) /\ Cardinality(A \X A) = Cardinality(A) * Cardinality(A)
  BY FS_Product
<1>2. /\ W \subseteq A \X A /\ L \subseteq A \X A /\ E \subseteq A \X A
      /\ IsFiniteSet(W) /\ IsFiniteSet(L) /\ IsFiniteSet(E)
  <2>1. W \subseteq A \X A /\ L \subseteq A \X A /\ E \subseteq A \X A
    OBVIOUS
  <2> HIDE DEF W, L, E
  <2> QED BY <1>1, <2>1, FS_Subset
<1>3. \A i \in A : /\ IsFiniteSet(below(i)) /\ IsFiniteSet(tied(i))
                   /\ Cardinality(below(i)) \in Nat /\ Cardinality(tied(i)) \in Nat
  <2>1. \A i \in A : IsFiniteSet(below(i)) /\ IsFiniteSet(tied(i))
    BY FS_Subset
  <2> HIDE DEF below, tied
  <2> QED BY <2>1, FS_CardinalityType
<1>4. \A i \in A : b[i] \in Nat /\ e[i] \in Nat /\ bb[i] = b[i] + b[i] /\ v[i] = bb[i] + e[i]
  <2> TAKE i \in A
  <2>1. v[i] = 2 * Cardinality(below(i)) + Cardinality(tied(i))
    OBVIOUS
  <2> HIDE DEF below, tied
  <2> QED BY <1>3, <2>1
<1>5. Cardinality(W) = SumOf(b, A)
  <2> DEFINE rows == [i \in A |-> below(i)]
  <2>1. /\ \A i \in A : rows[i] \in SUBSET A /\ \A j \in A : j \in rows[i] <=> <<i, j>> \in W
        /\ \A i \in A : b[i] = Cardinality(rows[i])
    OBVIOUS
  <2> HIDE DEF W, b, rows, below
  <2> QED BY <1>2, <2>1, PairCount, SMTT(30), ZenonT(30)
<1>6. Cardinality(E) = SumOf(e, A)
  <2> DEFINE rows == [i \in A |-> tied(i)]
  <2>1. /\ \A i \in A : rows[i] \in SUBSET A /\ \A j \in A : j \in rows[i] <=> <<i, j>> \in E
        /\ \A i \in A : e[i] = Cardinality(rows[i])
    OBVIOUS
  <2> HIDE DEF E, e, rows, tied
  <2> QED BY <1>2, <2>1, PairCount, SMTT(30), ZenonT(30)
<1>7. Cardinality(L) = Cardinality(W)
  <2> DEFINE f == [r \in W |-> <<r[2], r[1]>>]
  <2>1. f \in [W -> L]
    OBVIOUS
  <2>2. \A x, y \in W : f[x] = f[y] => x = y
    <3> TAKE x \in W, y \in W
    <3>1. x = <<x[1], x[2]>> /\ y = <<y[1], y[2]>> /\ f[x] = <<x[2], x[1]>> /\ f[y] = <<y[2], y[1]>>
      OBVIOUS
    <3> HIDE DEF f
    <3> QED BY <3>1
  <2>3. \A t \in L : \E x \in W : f[x] = t
    <3> TAKE t \in L
    <3>1. <<t[2], t[1]>> \in W /\ t = <<t[1], t[2]>>
      OBVIOUS
    <3>2. f[<<t[2], t[1]>>] = t
      BY <3>1
    <3> QED BY <3>1, <3>2
  <2> HIDE DEF f, W, L
  <2> QED BY <1>2, <2>1, <2>2, <2>3, CountOfMap
<1>8. Cardinality(A \X A) = Cardinality(W) + Cardinality(L) + Cardinality(E)
      /\ Cardinality(W) \in Nat /\ Cardinality(L) \in Nat /\ Cardinality(E) \in Nat
  <2>1. W \cap L = {} /\ (W \cup L) \cap E = {} /\ A \X A = (W \cup L) \cup E
    <3>1. \A r \in A \X A : k[r[1]] \in Int /\ k[r[2]] \in Int
      OBVIOUS
    <3> QED BY <3>1
  <2> HIDE DEF W, L, E
  <2>2. /\ IsFiniteSet(W \cup L) /\ Cardinality(W \cup L) = Cardinality(W) + Cardinality(L)
        /\ Cardinality(W) \in Nat /\ Cardinality(L) \in Nat
    BY <1>2, <2>1, DisjointCount
  <2>3. /\ Cardinality((W \cup L) \cup E) = Cardinality(W \cup L) + Cardinality(E)
        /\ Cardinality(E) \in Nat
    BY <1>2, <2>1, <2>2, DisjointCount
  <2> QED BY <2>1, <2>2, <2>3
<1> HIDE DEF W, L, E, b, e, bb
<1>9. SumOf(bb, A) = SumOf(b, A) + SumOf(b, A)
  <2>1. \A i \in A : b[i] \in Int /\ b[i] \in Int /\ bb[i] = b[i] + b[i]
    BY <1>4
  <2> QED BY <2>1, SumOfAll
<1>10. SumOf(v, A) = SumOf(bb, A) + SumOf(e, A)
  <2>1. \A i \in A : bb[i] \in Int /\ e[i] \in Int /\ v[i] = bb[i] + e[i]
    BY <1>4
  <2> QED BY <2>1, SumOfAll
<1> QED BY <1>1, <1>5, <1>6, <1>7, <1>8, <1>9, <1>10

LEMMA RankAucIs ==
  ASSUME NEW s, NEW P, P = Positive(s), NEW v, v = [i \in P |-> MidRank(s, i)]
  PROVE  RankAuc(s) = Frac(SumOf(v, P) - Cardinality(P) * (Cardinality(P) + 1),
                           2 * Cardinality(P) * Cardinality(Negative(s)))
<1> DEFINE Adds(g) == g = [q \in SUBSET P |-> IF q = {} THEN 0
             ELSE MidRank(s, CHOOSE x \in q : TRUE) + g[q \ {CHOOSE x \in q : TRUE}]]
           G == CHOOSE g : Adds(g)
<1>1. RankAuc(s) = Frac(G[P] - Cardinality(P) * (Cardinality(P) + 1),
                        2 * Cardinality(P) * Cardinality(Negative(s)))
  BY DEF RankAuc, MapThenSumSet, MapThenFoldSet
<1>2. \A g : SumsUp(g, v, P) <=> Adds(g)
  <2>1. \A q \in SUBSET P : q # {} => v[Some(q)] = MidRank(s, Some(q))
    <3>1. \A q \in SUBSET P : q # {} => Some(q) \in P
      BY DEF Some
    <3> QED BY <3>1
  <2> QED BY <2>1 DEF SumsUp, Some
<1>3. G = (CHOOSE g : SumsUp(g, v, P))
  <2> HIDE DEF Adds
  <2> QED BY <1>2 DEF G
<1> HIDE DEF G
<1> QED BY <1>1, <1>3 DEF SumOf

\* rank_auc is the pair count.
LEMMA AucsAgree ==
  ASSUME NEW s \in Seq(LabelledRow), BothClasses(s)
  PROVE  RankAuc(s) = PairAuc(s)
<1> DEFINE P == Positive(s)
           N == Negative(s)
           D == DOMAIN s
           p == Cardinality(P)
           n == Cardinality(N)
           k == [i \in D |-> s[i].score]
           wins == {q \in P \X N : s[q[1]].score > s[q[2]].score}
           ties == {q \in P \X N : s[q[1]].score = s[q[2]].score}
           under(i, A) == {j \in A : s[j].score < s[i].score}
           level(i, A) == {j \in A : s[j].score = s[i].score}
           own == [i \in P |-> 2 * Cardinality(under(i, P)) + Cardinality(level(i, P))]
           w == [i \in P |-> Cardinality(under(i, N))]
           t == [i \in P |-> Cardinality(level(i, N))]
           ww == [i \in P |-> w[i] + w[i]]
           wwt == [i \in P |-> ww[i] + t[i]]
           one == [i \in P |-> 1]
           ownone == [i \in P |-> own[i] + one[i]]
           rank == [i \in P |-> MidRank(s, i)]
<1>1. /\ IsFiniteSet(D) /\ \A i \in D : s[i].score \in Nat
      /\ P \cup N = D /\ P \cap N = {} /\ IsFiniteSet(P) /\ IsFiniteSet(N)
      /\ p \in Nat /\ n \in Nat
  BY RowsAre
<1> HIDE DEF P, N, D
<1>2. \A A : A \in SUBSET D =>
        \A i \in D : /\ IsFiniteSet(under(i, A)) /\ IsFiniteSet(level(i, A))
                     /\ Cardinality(under(i, A)) \in Nat /\ Cardinality(level(i, A)) \in Nat
  <2>1. \A A : A \in SUBSET D =>
          \A i \in D : IsFiniteSet(under(i, A)) /\ IsFiniteSet(level(i, A))
    <3>1. \A A, i : under(i, A) \in SUBSET A /\ level(i, A) \in SUBSET A
      OBVIOUS
    <3> HIDE DEF under, level
    <3>2. \A A : A \in SUBSET D => IsFiniteSet(A)
      BY <1>1, FS_Subset
    <3> QED BY <3>1, <3>2, FS_Subset
  <2> HIDE DEF under, level
  <2> QED BY <2>1, FS_CardinalityType
<1>3. P \in SUBSET D /\ N \in SUBSET D
  BY <1>1
<1>4. \A i \in P : /\ own[i] \in Nat /\ w[i] \in Nat /\ t[i] \in Nat /\ one[i] = 1
                   /\ ww[i] = w[i] + w[i] /\ wwt[i] = ww[i] + t[i]
                   /\ ownone[i] = own[i] + one[i]
                   /\ rank[i] = ownone[i] + wwt[i]
  <2> TAKE i \in P
  <2>1. i \in D
    BY <1>3
  <2>3. under(i, D) = under(i, P) \cup under(i, N) /\ under(i, P) \cap under(i, N) = {}
    BY <1>1
  <2>4. level(i, D) = level(i, P) \cup level(i, N) /\ level(i, P) \cap level(i, N) = {}
    BY <1>1
  <2>5. rank[i] = (Cardinality(under(i, D)) + 1)
                  + (Cardinality(under(i, D)) + Cardinality(level(i, D)))
    BY DEF MidRank, D
  <2> HIDE DEF under, level, rank
  <2>6. /\ Cardinality(under(i, D)) = Cardinality(under(i, P)) + Cardinality(under(i, N))
        /\ Cardinality(under(i, P)) \in Nat /\ Cardinality(under(i, N)) \in Nat
    BY <1>2, <1>3, <2>1, <2>3, DisjointCount
  <2>7. /\ Cardinality(level(i, D)) = Cardinality(level(i, P)) + Cardinality(level(i, N))
        /\ Cardinality(level(i, P)) \in Nat /\ Cardinality(level(i, N)) \in Nat
    BY <1>2, <1>3, <2>1, <2>4, DisjointCount
  <2> QED BY <2>5, <2>6, <2>7, SMTT(30)
<1>5. SumOf(own, P) = p * p
  <2> DEFINE kk == [i \in P |-> s[i].score]
  <2>1. kk \in [P -> Int]
    BY <1>1, <1>3
  <2>2. \A i \in P : own[i] = 2 * Cardinality({j \in P : kk[j] < kk[i]})
                              + Cardinality({j \in P : kk[j] = kk[i]})
    <3> TAKE i \in P
    <3>1. {j \in P : kk[j] < kk[i]} = under(i, P) /\ {j \in P : kk[j] = kk[i]} = level(i, P)
      OBVIOUS
    <3> QED BY <3>1
  <2> HIDE DEF own, kk
  <2> QED BY <1>1, <2>1, <2>2, PairsWithSelf
<1>6. Cardinality(wins) = SumOf(w, P) /\ Cardinality(ties) = SumOf(t, P)
  <2> DEFINE below == [i \in P |-> under(i, N)]
             tied == [i \in P |-> level(i, N)]
  <2>1. wins \subseteq P \X N /\ ties \subseteq P \X N
    OBVIOUS
  <2>2. /\ \A i \in P : /\ below[i] \in SUBSET N
                        /\ \A j \in N : j \in below[i] <=> <<i, j>> \in wins
        /\ \A i \in P : w[i] = Cardinality(below[i])
    BY <1>1
  <2>3. /\ \A i \in P : /\ tied[i] \in SUBSET N
                        /\ \A j \in N : j \in tied[i] <=> <<i, j>> \in ties
        /\ \A i \in P : t[i] = Cardinality(tied[i])
    BY <1>1
  <2> HIDE DEF wins, ties, w, t, below, tied
  <2>4. Cardinality(wins) = SumOf(w, P)
    BY <1>1, <2>1, <2>2, PairCount, SMTT(30)
  <2>5. Cardinality(ties) = SumOf(t, P)
    BY <1>1, <2>1, <2>3, PairCount, SMTT(30)
  <2> QED BY <2>4, <2>5
<1> HIDE DEF own, w, t, ww, wwt, one, ownone, rank
<1>7. SumOf(ww, P) = SumOf(w, P) + SumOf(w, P)
  <2>1. \A i \in P : w[i] \in Int /\ ww[i] = w[i] + w[i]
    BY <1>4
  <2> QED BY <1>1, <2>1, SumOfAll
<1>8. SumOf(wwt, P) = SumOf(ww, P) + SumOf(t, P)
  <2>1. \A i \in P : ww[i] \in Int /\ t[i] \in Int /\ wwt[i] = ww[i] + t[i]
    BY <1>4
  <2> QED BY <1>1, <2>1, SumOfAll
<1>9. SumOf(ownone, P) = SumOf(own, P) + SumOf(one, P)
  <2>1. \A i \in P : own[i] \in Int /\ one[i] \in Int /\ ownone[i] = own[i] + one[i]
    BY <1>4
  <2> QED BY <1>1, <2>1, SumOfAll
<1>10. SumOf(rank, P) = SumOf(ownone, P) + SumOf(wwt, P)
  <2>1. \A i \in P : ownone[i] \in Int /\ wwt[i] \in Int /\ rank[i] = ownone[i] + wwt[i]
    BY <1>4
  <2> QED BY <1>1, <2>1, SumOfAll
<1>11. SumOf(one, P) = p
  <2> DEFINE Q == {A \in SUBSET P : SumOf(one, A) = Cardinality(A)}
  <2>1. {} \in Q
    BY SumOfNone, FS_EmptySet
  <2>2. ASSUME NEW A \in SUBSET P, NEW x \in P \ A, A \in Q PROVE A \cup {x} \in Q
    <3>1. IsFiniteSet(A) /\ \A y \in A \cup {x} : one[y] \in Int
      BY <1>1, <1>4, FS_Subset
    <3>2. SumOf(one, A \cup {x}) = one[x] + SumOf(one, A)
      BY <3>1, <2>2, SumOfMore
    <3>3. Cardinality(A \cup {x}) = Cardinality(A) + 1 /\ Cardinality(A) \in Nat
      BY <3>1, <2>2, FS_AddElement, FS_CardinalityType
    <3> QED BY <1>4, <2>2, <3>2, <3>3
  <2>3. P \in Q
    <3> HIDE DEF Q
    <3> QED BY <1>1, <2>1, <2>2, GrowingSets
  <2> QED BY <2>3
<1>13. /\ SumOf(w, P) \in Int /\ SumOf(t, P) \in Int
  <2>1. \A i \in P : w[i] \in Int /\ t[i] \in Int
    BY <1>4
  <2> QED BY <1>1, <2>1, SumOfInts
<1>14. SumOf(rank, P) - p * (p + 1) = 2 * Cardinality(wins) + Cardinality(ties)
  <2>1. \A a \in Nat : a * (a + 1) = a * a + a /\ a * a \in Nat
    BY Z3
  <2> QED BY <1>1, <1>5, <1>6, <1>7, <1>8, <1>9, <1>10, <1>11, <1>13, <2>1
<1>15. 2 * p * n = 2 * Cardinality(P \X N)
  <2>1. Cardinality(P \X N) = p * n
    BY <1>1, FS_Product
  <2>2. \A a, b \in Nat : 2 * a * b = 2 * (a * b)
    BY Z3
  <2> QED BY <1>1, <2>1, <2>2
<1>16. RankAuc(s) = Frac(SumOf(rank, P) - p * (p + 1), 2 * p * n)
  <2>1. P = Positive(s) /\ rank = [i \in P |-> MidRank(s, i)]
    BY DEF P, rank
  <2> HIDE DEF rank
  <2> QED BY <2>1, RankAucIs DEF N
<1>17. PairAuc(s) = Frac(2 * Cardinality(wins) + Cardinality(ties), 2 * Cardinality(P \X N))
  BY DEF PairAuc, P, N
<1> QED BY <1>14, <1>15, <1>16, <1>17

LEMMA AveragePrecisionIs ==
  ASSUME NEW s, NEW T, T = Scores(s), NEW v,
         v = [t \in T |-> Times(Frac(Cardinality(Caught(s, t)), Cardinality(Flagged(s, t))),
                                Frac(Cardinality(Caught(s, t))
                                       - Cardinality({i \in Caught(s, t) : s[i].score > t}),
                                     Cardinality(Positive(s))))]
  PROVE  AveragePrecision(s) = (CHOOSE f : TotalsUp(f, v, T))[T]
<1> DEFINE step(t) == Times(Frac(Cardinality(Caught(s, t)), Cardinality(Flagged(s, t))),
                            Frac(Cardinality(Caught(s, t))
                                   - Cardinality({i \in Caught(s, t) : s[i].score > t}),
                                 Cardinality(Positive(s))))
           Adds(g) == g = [q \in SUBSET T |-> IF q = {} THEN Zero
             ELSE Plus(step(CHOOSE x \in q : TRUE), g[q \ {CHOOSE x \in q : TRUE}])]
           G == CHOOSE g : Adds(g)
<1>1. AveragePrecision(s) = G[T]
  BY DEF AveragePrecision, Total, MapThenFoldSet
<1>2. \A g : TotalsUp(g, v, T) <=> Adds(g)
  <2>1. \A q \in SUBSET T : q # {} => v[Some(q)] = step(Some(q))
    <3>1. \A q \in SUBSET T : q # {} => Some(q) \in T
      BY DEF Some
    <3> QED BY <3>1
  <2> HIDE DEF step
  <2> QED BY <2>1 DEF TotalsUp, Some
<1>3. G = (CHOOSE g : TotalsUp(g, v, T))
  <2> HIDE DEF Adds
  <2> QED BY <1>2 DEF G
<1> HIDE DEF G
<1> QED BY <1>1, <1>3

LEMMA MeanPrecisionIs ==
  ASSUME NEW s, NEW P, P = Positive(s), NEW v,
         v = [i \in P |-> Frac(Cardinality(Caught(s, s[i].score)),
                               Cardinality(Flagged(s, s[i].score)))]
  PROVE  MeanPrecision(s) = Times((CHOOSE f : TotalsUp(f, v, P))[P], Frac(1, Cardinality(P)))
<1> DEFINE step(i) == Frac(Cardinality(Caught(s, s[i].score)),
                           Cardinality(Flagged(s, s[i].score)))
           Adds(g) == g = [q \in SUBSET P |-> IF q = {} THEN Zero
             ELSE Plus(step(CHOOSE x \in q : TRUE), g[q \ {CHOOSE x \in q : TRUE}])]
           G == CHOOSE g : Adds(g)
<1>1. MeanPrecision(s) = Times(G[P], Frac(1, Cardinality(P)))
  BY DEF MeanPrecision, Total, MapThenFoldSet
<1>2. \A g : TotalsUp(g, v, P) <=> Adds(g)
  <2>1. \A q \in SUBSET P : q # {} => v[Some(q)] = step(Some(q))
    <3>1. \A q \in SUBSET P : q # {} => Some(q) \in P
      BY DEF Some
    <3> QED BY <3>1
  <2> HIDE DEF step
  <2> QED BY <2>1 DEF TotalsUp, Some
<1>3. G = (CHOOSE g : TotalsUp(g, v, P))
  <2> HIDE DEF Adds
  <2> QED BY <1>2 DEF G
<1> HIDE DEF G
<1> QED BY <1>1, <1>3

LEMMA ScoresAre ==
  ASSUME NEW s \in Seq(LabelledRow)
  PROVE  /\ Scores(s) \in SUBSET Nat /\ IsFiniteSet(Scores(s))
         /\ \A i \in DOMAIN s : s[i].score \in Scores(s)
<1>1. Scores(s) \in SUBSET Nat /\ \A i \in DOMAIN s : s[i].score \in Scores(s)
  BY RowsAre DEF Scores
<1>2. IsFiniteSet(Scores(s))
  <2> DEFINE f == [i \in DOMAIN s |-> s[i].score]
  <2>1. f \in [DOMAIN s -> Scores(s)]
    BY <1>1
  <2>2. \A t \in Scores(s) : \E i \in DOMAIN s : f[i] = t
    BY DEF Scores
  <2> DEFINE D == DOMAIN s
             T == Scores(s)
  <2>3. f \in [D -> T] /\ IsFiniteSet(D) /\ \A t \in T : \E i \in D : f[i] = t
    BY <2>1, <2>2, RowsAre
  <2> HIDE DEF f, D, T
  <2>4. IsFiniteSet(T)
    BY <2>3, ImageIsFinite
  <2> QED BY <2>4 DEF T
<1> QED BY <1>1, <1>2

\* The rows at a threshold, and the positives among them.
LEMMA FlaggedAre ==
  ASSUME NEW s \in Seq(LabelledRow), NEW t \in Nat
  PROVE  /\ IsFiniteSet(Flagged(s, t)) /\ IsFiniteSet(Caught(s, t))
         /\ Cardinality(Flagged(s, t)) \in Nat /\ Cardinality(Caught(s, t)) \in Nat
         /\ t \in Scores(s) => Cardinality(Flagged(s, t)) # 0
         /\ Caught(s, t) = {i \in Positive(s) : s[i].score >= t}
<1>1. /\ Flagged(s, t) \in SUBSET (DOMAIN s) /\ Caught(s, t) \in SUBSET (DOMAIN s)
      /\ Caught(s, t) = {i \in Positive(s) : s[i].score >= t}
  BY DEF Flagged, Caught, Positive
<1>2. IsFiniteSet(Flagged(s, t)) /\ IsFiniteSet(Caught(s, t))
  BY <1>1, RowsAre, FS_Subset
<1>3. t \in Scores(s) => Flagged(s, t) # {}
  BY DEF Scores, Flagged
<1>4. Cardinality(Flagged(s, t)) \in Nat /\ Cardinality(Caught(s, t)) \in Nat
  BY <1>2, FS_CardinalityType
<1>5. t \in Scores(s) => Cardinality(Flagged(s, t)) # 0
  BY <1>2, <1>3, FS_EmptySet
<1> QED BY <1>1, <1>2, <1>4, <1>5

\* A fraction does not change when both its terms are multiplied.
LEMMA FracScales ==
  ASSUME NEW n \in Int, NEW d \in Nat \ {0}, NEW m \in Nat \ {0}
  PROVE  Frac(n * m, d * m) = Frac(n, d)
<1>1. n * m \in Int /\ d * m \in Nat \ {0}
  <2>1. \A a, b \in Nat \ {0} : a * b \in Nat \ {0}
    BY Z3
  <2> QED BY <2>1
<1>2. (n * m) * d = n * (d * m)
  <2>1. \A a, b, c \in Int : (a * b) * c = a * (c * b)
    BY Z3
  <2> QED BY <2>1
<1> DEFINE a == n * m
           b == d * m
<1>3. a \in Int /\ b \in Nat \ {0} /\ a * d = n * b
  BY <1>1, <1>2
<1> HIDE DEF a, b
<1>4. Frac(a, b) = Frac(n, d)
  BY <1>3, FracAtMost
<1> QED BY <1>4 DEF a, b

\* average_precision is the mean precision of the positives.
LEMMA PrecisionsAgree ==
  ASSUME NEW s \in Seq(LabelledRow), BothClasses(s)
  PROVE  AveragePrecision(s) = MeanPrecision(s)
<1> DEFINE P == Positive(s)
           T == Scores(s)
           p == Cardinality(P)
           h == [t \in T |-> Cardinality(Caught(s, t))]
           f == [t \in T |-> Cardinality(Flagged(s, t))]
           at(t) == {i \in P : s[i].score = t}
           c == [t \in T |-> Cardinality(at(t))]
<1>1. /\ T \in SUBSET Nat /\ IsFiniteSet(T) /\ IsFiniteSet(P) /\ p \in Nat \ {0}
      /\ \A i \in P : s[i].score \in T
  <2>1. P \subseteq DOMAIN s /\ P # {}
    BY DEF BothClasses, Positive
  <2>2. IsFiniteSet(P) /\ p \in Nat
    BY RowsAre
  <2>3. p # 0
    BY <2>1, <2>2, FS_EmptySet
  <2> QED BY <2>1, <2>2, <2>3, ScoresAre
<1>2. \A t \in T : h[t] \in Nat /\ f[t] \in Nat \ {0} /\ c[t] \in Nat
  <2> TAKE t \in T
  <2>1. t \in Nat
    BY <1>1
  <2>2. h[t] \in Nat /\ f[t] \in Nat \ {0}
    BY <2>1, FlaggedAre
  <2>3. IsFiniteSet(at(t))
    BY <1>1, FS_Subset
  <2>4. Cardinality(at(t)) \in Nat
    BY <2>3, FS_CardinalityType
  <2> QED BY <2>2, <2>4
<1>3. \A t \in T : h[t] - Cardinality({i \in Caught(s, t) : s[i].score > t}) = c[t]
  <2> TAKE t \in T
  <2> DEFINE over == {i \in Caught(s, t) : s[i].score > t}
  <2>1. t \in Nat /\ IsFiniteSet(Caught(s, t))
    BY <1>1, FlaggedAre
  <2>2. Caught(s, t) = over \cup at(t) /\ over \cap at(t) = {}
    <3>1. \A i \in P : s[i].score \in Nat
      BY <1>1
    <3>2. Caught(s, t) = {i \in P : s[i].score >= t}
      BY <2>1, FlaggedAre
    <3> QED BY <2>1, <3>1, <3>2
  <2>3. over \subseteq Caught(s, t) /\ at(t) \subseteq Caught(s, t)
    BY <2>2
  <2> HIDE DEF over, at
  <2>4. IsFiniteSet(over) /\ IsFiniteSet(at(t))
    BY <2>1, <2>3, FS_Subset
  <2>5. /\ Cardinality(Caught(s, t)) = Cardinality(over) + Cardinality(at(t))
        /\ Cardinality(over) \in Nat /\ Cardinality(at(t)) \in Nat
    BY <2>2, <2>4, DisjointCount
  <2>6. h[t] = Cardinality(Caught(s, t)) /\ c[t] = Cardinality(at(t))
    OBVIOUS
  <2>7. h[t] - Cardinality(over) = c[t]
    BY <2>5, <2>6
  <2> QED BY <2>7 DEF over
<1>4. f \in [T -> Nat \ {0}]
  BY <1>2
<1>5. PICK d \in Nat \ {0} : \A t \in T : \E m \in Nat : d = m * f[t]
  <2> HIDE DEF f
  <2> QED BY <1>1, <1>4, CommonMultiple
<1> DEFINE m == [t \in T |-> CHOOSE x \in Nat : d = x * f[t]]
           w == [t \in T |-> h[t] * m[t]]
           u == [t \in T |-> w[t] * c[t]]
           dp == d * p
           v == [t \in T |-> Times(Frac(h[t], f[t]), Frac(c[t], p))]
           k == [i \in P |-> s[i].score]
           x == [i \in P |-> w[k[i]]]
           y == [i \in P |-> Frac(h[k[i]], f[k[i]])]
<1>6. \A t \in T : m[t] \in Nat \ {0} /\ d = m[t] * f[t]
  <2> TAKE t \in T
  <2>1. m[t] \in Nat /\ d = m[t] * f[t]
    BY <1>5
  <2>2. \A a \in Nat : 0 * a = 0
    OBVIOUS
  <2>3. m[t] # 0
    BY <1>2, <1>5, <2>1, <2>2
  <2> QED BY <2>1, <2>3
<1>7. dp \in Nat \ {0}
  <2>1. \A a, b \in Nat \ {0} : a * b \in Nat \ {0}
    BY Z3
  <2> QED BY <1>1, <2>1
<1>8. \A t \in T : w[t] \in Int /\ u[t] \in Int
  <2> TAKE t \in T
  <2>1. \A a, b \in Nat : a * b \in Nat
    BY Z3
  <2>2. h[t] * m[t] \in Nat
    BY <1>2, <1>6, <2>1
  <2>3. (h[t] * m[t]) * c[t] \in Nat
    BY <1>2, <2>1, <2>2
  <2> QED BY <2>2, <2>3
<1>9. \A t \in T : u[t] \in Int /\ v[t] = Frac(u[t], dp)
  <2> TAKE t \in T
  <2> DEFINE a == h[t]
             b == f[t]
             e == c[t]
             z == m[t]
  <2>1. a \in Nat /\ b \in Nat \ {0} /\ e \in Nat /\ z \in Nat \ {0} /\ d = z * b
    BY <1>2, <1>6
  <2>2. v[t] = Times(Frac(a, b), Frac(e, p)) /\ u[t] = (a * z) * e
    OBVIOUS
  <2>3. u[t] \in Int
    BY <1>8
  <2> HIDE DEF a, b, e, z, v, u, p
  <2>4. v[t] = Frac(a * e, b * p)
    BY <1>1, <2>1, <2>2, TimesIsFrac
  <2>5. a * e \in Int /\ b * p \in Nat \ {0}
    <3>1. \A i, j \in Nat \ {0} : i * j \in Nat \ {0}
      BY Z3
    <3>2. \A i, j \in Nat : i * j \in Nat
      BY Z3
    <3> QED BY <1>1, <2>1, <3>1, <3>2
  <2>6. Frac((a * e) * z, (b * p) * z) = Frac(a * e, b * p)
    BY <2>1, <2>5, FracScales
  <2>7. (a * e) * z = u[t] /\ (b * p) * z = dp
    <3>1. \A i, j, l \in Nat : (i * j) * l = (i * l) * j /\ (i * j) * l = (l * i) * j
      BY Z3
    <3> QED BY <1>1, <2>1, <2>2, <3>1
  <2> QED BY <2>3, <2>4, <2>6, <2>7
<1>10. AveragePrecision(s) = (CHOOSE g : TotalsUp(g, v, T))[T]
  <2>1. v = [t \in T |-> Times(Frac(Cardinality(Caught(s, t)), Cardinality(Flagged(s, t))),
                               Frac(Cardinality(Caught(s, t))
                                      - Cardinality({i \in Caught(s, t) : s[i].score > t}),
                                    Cardinality(Positive(s))))]
    <3>1. \A t \in T : /\ h[t] = Cardinality(Caught(s, t)) /\ f[t] = Cardinality(Flagged(s, t))
                       /\ c[t] = Cardinality(Caught(s, t))
                                   - Cardinality({i \in Caught(s, t) : s[i].score > t})
      BY <1>3
    <3> HIDE DEF h, f, c
    <3> QED BY <3>1
  <2> HIDE DEF v
  <2> QED BY <2>1, AveragePrecisionIs
<1>11. MeanPrecision(s) = Times((CHOOSE g : TotalsUp(g, y, P))[P], Frac(1, p))
  <2>1. y = [i \in P |-> Frac(Cardinality(Caught(s, s[i].score)),
                              Cardinality(Flagged(s, s[i].score)))]
    BY <1>1
  <2> HIDE DEF y
  <2> QED BY <2>1, MeanPrecisionIs
<1>12. \A i \in P : x[i] \in Int /\ y[i] = Frac(x[i], d)
  <2> TAKE i \in P
  <2> DEFINE t == k[i]
             a == h[t]
             b == f[t]
             z == m[t]
  <2>1. t \in T /\ x[i] = w[t] /\ y[i] = Frac(h[t], f[t])
    BY <1>1
  <2> HIDE DEF t
  <2>2. x[i] \in Int
    BY <1>8, <2>1
  <2>3. a \in Nat /\ b \in Nat \ {0} /\ z \in Nat \ {0} /\ d = z * b /\ w[t] = a * z
    BY <1>2, <1>6, <2>1
  <2>4. y[i] = Frac(a, b)
    BY <2>1
  <2> HIDE DEF a, b, z, x, y, w
  <2>5. Frac(a * z, b * z) = Frac(a, b)
    <3>1. a \in Int
      BY <2>3
    <3> QED BY <2>3, <3>1, FracScales
  <2>6. b * z = z * b
    <3>1. \A i1, j1 \in Nat : i1 * j1 = j1 * i1
      BY Z3
    <3> QED BY <2>3, <3>1
  <2> QED BY <2>1, <2>2, <2>3, <2>4, <2>5, <2>6
<1>13. SumOf(x, P) = SumOf(u, T) /\ SumOf(x, P) \in Int
  <2>1. k \in [P -> T]
    BY <1>1
  <2> DEFINE ats == [t \in T |-> at(t)]
  <2>2. /\ \A t \in T : ats[t] \in SUBSET P /\ \A i \in P : i \in ats[t] <=> k[i] = t
        /\ \A t \in T : u[t] = w[t] * Cardinality(ats[t])
    OBVIOUS
  <2>3. \A i \in P : x[i] = w[k[i]]
    OBVIOUS
  <2> HIDE DEF k, u, w, x, ats, at
  <2>4. \A t \in T : w[t] \in Int
    BY <1>8
  <2>5. SumOf(x, P) = SumOf(u, T)
    BY <1>1, <2>1, <2>2, <2>3, <2>4, SumByValue
  <2>6. SumOf(x, P) \in Int
    <3>1. \A i \in P : x[i] \in Int
      BY <1>12
    <3> QED BY <1>1, <3>1, SumOfInts
  <2> QED BY <2>5, <2>6
<1> HIDE DEF v, u, x, y, dp
<1>14. (CHOOSE g : TotalsUp(g, v, T))[T] = Frac(SumOf(u, T), dp)
  BY <1>1, <1>7, <1>9, TotalIsFrac
<1>15. (CHOOSE g : TotalsUp(g, y, P))[P] = Frac(SumOf(x, P), d)
  BY <1>1, <1>5, <1>12, TotalIsFrac
<1>16. Times(Frac(SumOf(x, P), d), Frac(1, p)) = Frac(SumOf(x, P), dp)
  <2> DEFINE z == SumOf(x, P)
  <2>1. z \in Int /\ 1 \in Int
    BY <1>13
  <2> HIDE DEF z, p
  <2>2. Times(Frac(z, d), Frac(1, p)) = Frac(z * 1, d * p)
    BY <1>1, <1>5, <2>1, TimesIsFrac
  <2>3. z * 1 = z
    BY <2>1
  <2> QED BY <2>2, <2>3 DEF z, dp
<1> QED BY <1>10, <1>11, <1>13, <1>14, <1>15, <1>16

\* The best threshold is no worse than flagging every row.
LEMMA BestIsNoWorse ==
  ASSUME NEW s \in Seq(LabelledRow), BothClasses(s)
  PROVE  AtMost(FlagEverythingF1(s), F1(s, BestF1Threshold(s)))
<1> DEFINE P == Positive(s)
           T == Scores(s)
           p == Cardinality(P)
           v == [t \in T |-> F1(s, t)]
           n == [t \in T |-> 2 * Cardinality(Caught(s, t))]
           d == [t \in T |-> IF n[t] = 0 THEN 1 ELSE Cardinality(Flagged(s, t)) + p]
           R == {q \in T \X T : AtMost(v[q[2]], v[q[1]])}
           B == {t \in T : \A u \in T : AtMost(v[u], v[t])}
<1>1. /\ T \in SUBSET Nat /\ IsFiniteSet(T) /\ T # {} /\ p \in Nat \ {0}
      /\ \A i \in DOMAIN s : s[i].score \in T
  <2>1. P \subseteq DOMAIN s /\ P # {}
    BY DEF BothClasses, Positive
  <2>2. IsFiniteSet(P) /\ p \in Nat
    BY RowsAre
  <2>3. p # 0
    BY <2>1, <2>2, FS_EmptySet
  <2> QED BY <2>1, <2>2, <2>3, ScoresAre
<1>2. ASSUME NEW t \in T PROVE n[t] \in Nat /\ d[t] \in Nat \ {0} /\ v[t] = Frac(n[t], d[t])
  <2>1. Cardinality(Flagged(s, t)) \in Nat /\ Cardinality(Caught(s, t)) \in Nat
    BY <1>1, FlaggedAre
  <2>2. n[t] \in Nat /\ d[t] \in Nat \ {0}
    BY <1>1, <2>1
  <2>3. v[t] = IF Cardinality(Caught(s, t)) = 0 THEN Zero
               ELSE Frac(2 * Cardinality(Caught(s, t)), Cardinality(Flagged(s, t)) + p)
    BY DEF F1
  <2>4. CASE Cardinality(Caught(s, t)) = 0
    <3>1. n[t] = 0 /\ d[t] = 1
      BY <2>4
    <3>2. Frac(0, 1) = Zero
      BY ZeroIsFrac
    <3> HIDE DEF v, n, d
    <3> QED BY <2>3, <2>4, <3>1, <3>2
  <2>5. CASE Cardinality(Caught(s, t)) # 0
    <3>1. n[t] = 2 * Cardinality(Caught(s, t)) /\ d[t] = Cardinality(Flagged(s, t)) + p
      BY <2>1, <2>5
    <3> HIDE DEF v, n, d
    <3> QED BY <2>2, <2>3, <2>5, <3>1
  <2> QED BY <2>2, <2>4, <2>5
<1> HIDE DEF n, d
<1>3. \A t, u \in T : AtMost(v[t], v[u]) <=> n[t] * d[u] <= n[u] * d[t]
  <2> TAKE t \in T, u \in T
  <2>1. n[t] \in Int /\ d[t] \in Nat \ {0} /\ n[u] \in Int /\ d[u] \in Nat \ {0}
        /\ v[t] = Frac(n[t], d[t]) /\ v[u] = Frac(n[u], d[u])
    BY <1>2
  <2> HIDE DEF v
  <2>2. AtMost(Frac(n[t], d[t]), Frac(n[u], d[u])) <=> n[t] * d[u] <= n[u] * d[t]
    <3> DEFINE a == n[t]
               b == d[t]
               c == n[u]
               e == d[u]
    <3>1. a \in Int /\ b \in Nat \ {0} /\ c \in Int /\ e \in Nat \ {0}
      BY <2>1
    <3> HIDE DEF a, b, c, e
    <3>2. AtMost(Frac(a, b), Frac(c, e)) <=> a * e <= c * b
      BY <3>1, FracAtMost
    <3> QED BY <3>2 DEF a, b, c, e
  <2> QED BY <2>1, <2>2
<1>4. \A t, u, w \in T : AtMost(v[t], v[u]) /\ AtMost(v[u], v[w]) => AtMost(v[t], v[w])
  <2> TAKE t \in T, u \in T, w \in T
  <2> HAVE AtMost(v[t], v[u]) /\ AtMost(v[u], v[w])
  <2>1. n[t] * d[u] <= n[u] * d[t] /\ n[u] * d[w] <= n[w] * d[u]
    BY <1>3
  <2>2. n[t] \in Nat /\ n[u] \in Nat /\ n[w] \in Nat
        /\ d[t] \in Nat \ {0} /\ d[u] \in Nat \ {0} /\ d[w] \in Nat \ {0}
    BY <1>2
  <2>3. n[t] * d[w] <= n[w] * d[t]
    BY <2>1, <2>2, RatiosCompare
  <2> QED BY <1>3, <2>3
<1>5. \A t, u \in T : AtMost(v[t], v[u]) \/ AtMost(v[u], v[t])
  <2> TAKE t \in T, u \in T
  <2>1. n[t] \in Nat /\ n[u] \in Nat /\ d[t] \in Nat \ {0} /\ d[u] \in Nat \ {0}
    BY <1>2
  <2>2. n[t] * d[u] \in Nat /\ n[u] * d[t] \in Nat
    BY <2>1, ProductIsNat
  <2> QED BY <1>3, <2>2
<1>6. \E b \in T : \A u \in T : AtMost(v[u], v[b])
  <2>1. \A t, u \in T : <<t, u>> \in R <=> AtMost(v[u], v[t])
    OBVIOUS
  <2> HIDE DEF R, v, T
  <2>2. \A t, u \in T : t # u => <<t, u>> \in R \/ <<u, t>> \in R
    BY <1>5, <2>1
  <2>3. \A t, u, w \in T : <<t, u>> \in R /\ <<u, w>> \in R => <<t, w>> \in R
    BY <1>4, <2>1
  <2>4. IsFiniteSet(T) /\ T # {}
    BY <1>1
  <2>5. \E b \in T : \A u \in T : u # b => <<b, u>> \in R
    BY <2>2, <2>3, <2>4, FirstOfOrder, ZenonT(30)
  <2>6. PICK b \in T : \A u \in T : u # b => <<b, u>> \in R
    BY <2>5
  <2>7. \A u \in T : AtMost(v[u], v[b])
    BY <1>5, <2>1, <2>6
  <2> QED BY <2>7
<1>7. BestF1Threshold(s) = Min(B)
  <2>1. B = {t \in T : \A u \in T : AtMost(F1(s, u), F1(s, t))}
    OBVIOUS
  <2> HIDE DEF B, v
  <2> QED BY <2>1 DEF BestF1Threshold
<1>8. Min(B) \in B
  <2>1. B \in SUBSET Int /\ B # {} /\ B \subseteq T
    BY <1>1, <1>6
  <2> HIDE DEF B, T
  <2>2. IsFiniteSet(B)
    BY <1>1, <2>1, FS_Subset
  <2> QED BY <2>1, <2>2, MinOfFinite
<1>9. PICK low \in T : \A t \in T : low <= t
  <2>1. T \in SUBSET Int
    BY <1>1
  <2> HIDE DEF T
  <2>2. Min(T) \in T /\ \A t \in T : Min(T) <= t
    BY <1>1, <2>1, MinOfFinite
  <2> QED BY <2>2
<1>10. F1(s, low) = FlagEverythingF1(s)
  <2>1. Flagged(s, low) = DOMAIN s
    BY <1>1, <1>9 DEF Flagged
  <2>2. Caught(s, low) = P
    BY <2>1 DEF Caught, Positive
  <2>3. Cardinality(DOMAIN s) = Len(s)
    BY RowsAre
  <2>4. F1(s, low) = Frac(2 * p, Len(s) + p)
    BY <1>1, <2>1, <2>2, <2>3 DEF F1
  <2> QED BY <2>4 DEF FlagEverythingF1
<1>11. AtMost(v[low], v[Min(B)]) /\ Min(B) \in T
  BY <1>8, <1>9
<1> QED BY <1>7, <1>9, <1>10, <1>11

\* The fold of false_positive_rate_at_recall, over any of the scores: it keeps one
\* that reaches the recall and is as cheap as each that does, if there is one.
LEMMA CheapestIs ==
  ASSUME NEW s \in Seq(LabelledRow), NEW k \in Nat, Cardinality(Positive(s)) \in Nat \ {0},
         NEW c, c = CheapestAtRecall(s, Frac(k, Cardinality(Positive(s))))
  PROVE  /\ \A b \in c : /\ b \in Scores(s) /\ k <= Cardinality(Caught(s, b))
                         /\ \A t \in Scores(s) : k <= Cardinality(Caught(s, t)) =>
                              FalsePositives(s, b) <= FalsePositives(s, t)
         /\ c = {} => \A t \in Scores(s) : ~(k <= Cardinality(Caught(s, t)))
<1> DEFINE T == Scores(s)
           p == Cardinality(Positive(s))
           recall == Frac(k, p)
           reaches(t) == AtMost(recall, Frac(Cardinality(Caught(s, t)), p))
           cheaper(best, t) ==
             IF /\ reaches(t)
                /\ best = {} \/ \E b \in best : FalsePositives(s, t) < FalsePositives(s, b)
             THEN {t} ELSE best
           x == Ascending(T)
           D == 1..Cardinality(T)
           fp == [t \in T |-> FalsePositives(s, t)]
           Q == {t \in T : k <= Cardinality(Caught(s, t))}
<1>1. /\ T \in SUBSET Nat /\ T \in SUBSET Int /\ IsFiniteSet(T)
  BY ScoresAre
<1>2. /\ Cardinality(T) \in Nat /\ x \in [D -> T] /\ DOMAIN x = D
      /\ \A t \in T : \E i \in D : x[i] = t
  <2>1. /\ Cardinality(T) \in Nat /\ x \in [D -> T] /\ \A t \in T : \E i \in D : x[i] = t
    <3> HIDE DEF T
    <3> QED BY <1>1, AscendingIs
  <2> HIDE DEF x, D
  <2> QED BY <2>1
<1>3. IsFiniteSet(D) /\ D \in SUBSET Int
  <2>1. 1 \in Int /\ Cardinality(T) \in Int
    BY <1>2
  <2> HIDE DEF T
  <2> QED BY <2>1, FS_Interval
<1>4. \A t \in T : reaches(t) <=> t \in Q
  <2> TAKE t \in T
  <2>1. Cardinality(Caught(s, t)) \in Nat
    BY <1>1, FlaggedAre
  <2> DEFINE h == Cardinality(Caught(s, t))
  <2>2. h \in Int /\ k \in Int /\ p \in Nat \ {0}
    BY <2>1
  <2>3. t \in Q <=> k <= h
    OBVIOUS
  <2> HIDE DEF h, p, Q
  <2>4. AtMost(Frac(k, p), Frac(h, p)) <=> k * p <= h * p
    BY <2>2, FracAtMost
  <2>5. k * p <= h * p <=> k <= h
    <3>1. \A a, b, w \in Nat : a >= b => a * w >= b * w
      BY TimesOrdered
    <3>2. \A a, b \in Nat, w \in Nat \ {0} : a * w >= b * w => a >= b
      BY TimesOrdered
    <3>3. h \in Nat /\ k * p \in Nat /\ h * p \in Nat
      BY <2>1, <2>2, ProductIsNat DEF h
    <3> QED BY <2>2, <3>1, <3>2, <3>3
  <2> QED BY <2>3, <2>4, <2>5 DEF h
<1>5. \A t \in T : fp[t] \in Nat /\ fp[t] = FalsePositives(s, t)
  <2> TAKE t \in T
  <2>1. IsFiniteSet(Flagged(s, t))
    BY <1>1, FlaggedAre
  <2>2. IsFiniteSet(Flagged(s, t) \cap Negative(s))
    BY <2>1, FS_Subset
  <2> QED BY <2>2, FS_CardinalityType DEF FalsePositives
<1> DEFINE Adds(g) == g = [q \in SUBSET D |-> IF q = {} THEN {}
                            ELSE cheaper(g[q \ {Max(q)}], x[Max(q)])]
           G == CHOOSE g : Adds(g)
           first == [q \in SUBSET D |-> Max(q)]
           h == [r \in D \X SUBSET T |-> cheaper(r[2], x[r[1]])]
<1>6. c = G[D]
  <2> HIDE DEF T
  <2>1. c = (CHOOSE g : g = [q \in SUBSET (DOMAIN x) |-> IF q = {} THEN {}
                             ELSE cheaper(g[q \ {Max(q)}], x[Max(q)])])[DOMAIN x]
    BY DEF CheapestAtRecall, FoldLeft, MapThenFoldSet, T
  <2> HIDE DEF x, cheaper
  <2> QED BY <1>2, <2>1
<1>7. \A q \in SUBSET D : q # {} => Max(q) \in q
  <2> TAKE q \in SUBSET D
  <2> HAVE q # {}
  <2>1. q \in SUBSET Int /\ IsFiniteSet(q)
    BY <1>3, FS_Subset
  <2> QED BY <2>1, MaxOfFinite
<1> HIDE DEF T, D, x, Q, fp
<1>8. \A q \in SUBSET T, t \in T : cheaper(q, t) \in SUBSET T
  OBVIOUS
<1> HIDE DEF cheaper
<1>9. \E g \in [SUBSET D -> SUBSET T] : FoldsUp(g, {}, h, first, D)
  <2>1. h \in [D \X SUBSET T -> SUBSET T]
    BY <1>2, <1>8
  <2>2. {} \in SUBSET T /\ \A q \in SUBSET D : q # {} => first[q] \in q
    BY <1>7
  <2> DEFINE V == SUBSET T
  <2>3. h \in [D \X V -> V] /\ {} \in V
    BY <2>1
  <2> HIDE DEF h, first, V
  <2>4. \E g \in [SUBSET D -> V] : FoldsUp(g, {}, h, first, D)
    BY <1>3, <2>2, <2>3, FoldExists
  <2> QED BY <2>4 DEF V
<1>10. PICK g0 \in [SUBSET D -> SUBSET T] : FoldsUp(g0, {}, h, first, D)
  BY <1>9
<1>11. Adds(g0)
  <2>1. g0 = [q \in SUBSET D |-> IF q = {} THEN {} ELSE h[<<first[q], g0[q \ {first[q]}]>>]]
    BY <1>10 DEF FoldsUp
  <2>2. \A q \in SUBSET D : q # {} =>
          h[<<first[q], g0[q \ {first[q]}]>>] = cheaper(g0[q \ {Max(q)}], x[Max(q)])
    <3> TAKE q \in SUBSET D
    <3> HAVE q # {}
    <3>1. first[q] = Max(q) /\ Max(q) \in D /\ g0[q \ {Max(q)}] \in SUBSET T
      BY <1>7, <1>10
    <3>2. \A i \in D, w \in SUBSET T : h[<<i, w>>] = cheaper(w, x[i])
      OBVIOUS
    <3> HIDE DEF h, first
    <3> QED BY <3>1, <3>2
  <2> HIDE DEF h, first
  <2>3. \A q \in SUBSET D : (IF q = {} THEN {} ELSE h[<<first[q], g0[q \ {first[q]}]>>])
                            = (IF q = {} THEN {} ELSE cheaper(g0[q \ {Max(q)}], x[Max(q)]))
    BY <2>2
  <2> QED BY <2>1, <2>3, Zenon
<1>12. Adds(G)
  <2> HIDE DEF Adds
  <2> QED BY <1>11 DEF G
<1>13. /\ \A q \in SUBSET D : G[q] = IF q = {} THEN {} ELSE cheaper(G[q \ {Max(q)}], x[Max(q)])
  <2> HIDE DEF G
  <2> QED BY <1>12
<1> HIDE DEF G, Adds
<1> DEFINE Good(q) == /\ \A b \in G[q] : /\ b \in Q
                                         /\ \A i \in q : x[i] \in Q => fp[b] <= fp[x[i]]
                      /\ G[q] = {} => \A i \in q : x[i] \notin Q
           P == {q \in SUBSET D : Good(q)}
<1>14. ASSUME NEW q \in SUBSET D, \A u \in SUBSET q : u # q => u \in P PROVE q \in P
  <2>1. CASE q = {}
    <3>1. G[q] = {}
      BY <1>13, <2>1
    <3> QED BY <2>1, <3>1
  <2>2. CASE q # {}
    <3> DEFINE m == Max(q)
               w == q \ {m}
               t == x[m]
    <3>1. m \in q /\ m \in D
      BY <1>7, <2>2
    <3>2. w \in SUBSET q /\ w # q /\ w \in SUBSET D
      BY <3>1
    <3>3. Good(w)
      BY <1>14, <3>2
    <3>4. G[q] = cheaper(G[w], t) /\ t \in T
      BY <1>2, <1>13, <2>2, <3>1
    <3> HIDE DEF m
    <3>5. q = w \cup {m}
      BY <3>1
    <3> HIDE DEF w
    <3>6. \A i \in w : x[i] \in T
      BY <1>2, <3>2
    <3>7. \A b \in G[w] : b \in T
      BY <3>3 DEF Q
    <3>8. G[q] = IF t \in Q /\ (G[w] = {} \/ \E b \in G[w] : fp[t] < fp[b]) THEN {t} ELSE G[w]
      <4>1. \A b \in G[w] : FalsePositives(s, t) < FalsePositives(s, b) <=> fp[t] < fp[b]
        BY <1>5, <3>4, <3>7
      <4>2. cheaper(G[w], t) =
              IF /\ t \in Q
                 /\ G[w] = {} \/ \E b \in G[w] : FalsePositives(s, t) < FalsePositives(s, b)
              THEN {t} ELSE G[w]
        BY <1>4, <3>4 DEF cheaper
      <4> HIDE DEF reaches, t
      <4> QED BY <3>4, <4>1, <4>2
    <3>9. \A u \in T : fp[u] \in Nat
      BY <1>5
    <3>10. Q \subseteq T
      BY DEF Q
    <3>11. CASE t \in Q /\ (G[w] = {} \/ \E b \in G[w] : fp[t] < fp[b])
      <4>1. G[q] = {t}
        BY <3>8, <3>11
      <4>2. \A i \in q : x[i] \in Q => fp[t] <= fp[x[i]]
        <5> TAKE i \in q
        <5> HAVE x[i] \in Q
        <5>1. CASE i = m
          BY <3>4, <3>9, <5>1
        <5>2. CASE i # m
          <6>1. i \in w /\ x[i] \in T
            BY <3>5, <3>6, <5>2
          <6>2. G[w] # {}
            BY <3>3, <6>1
          <6>3. PICK b \in G[w] : fp[t] < fp[b]
            BY <3>11, <6>2
          <6>4. fp[b] <= fp[x[i]] /\ b \in T
            BY <3>3, <3>7, <6>1
          <6>5. fp[t] \in Nat /\ fp[b] \in Nat /\ fp[x[i]] \in Nat
            BY <3>4, <3>9, <6>1, <6>4
          <6> QED BY <6>3, <6>4, <6>5
        <5> QED BY <5>1, <5>2
      <4> HIDE DEF t
      <4> QED BY <3>11, <4>1, <4>2
    <3>12. CASE ~(t \in Q /\ (G[w] = {} \/ \E b \in G[w] : fp[t] < fp[b]))
      <4>1. G[q] = G[w]
        BY <3>8, <3>12
      <4>2. ASSUME NEW b \in G[q], NEW i \in q, x[i] \in Q PROVE fp[b] <= fp[x[i]]
        <5>1. b \in G[w] /\ b \in T
          BY <3>7, <4>1
        <5>2. CASE i = m
          <6>1. t \in Q /\ ~(fp[t] < fp[b])
            BY <3>12, <4>2, <5>1, <5>2
          <6>2. fp[t] \in Nat /\ fp[b] \in Nat
            BY <3>4, <3>9, <5>1
          <6> QED BY <5>2, <6>1, <6>2
        <5>3. CASE i # m
          BY <3>3, <3>5, <4>2, <5>1, <5>3
        <5> QED BY <5>2, <5>3
      <4>3. G[q] = {} => \A i \in q : x[i] \notin Q
        <5> SUFFICES ASSUME G[q] = {}, NEW i \in q PROVE x[i] \notin Q
          OBVIOUS
        <5>1. CASE i = m
          BY <3>12, <4>1, <5>1
        <5>2. CASE i # m
          BY <3>3, <3>5, <4>1, <5>2
        <5> QED BY <5>1, <5>2
      <4>4. \A b \in G[q] : b \in Q
        BY <3>3, <4>1
      <4> HIDE DEF t
      <4> QED BY <4>2, <4>3, <4>4
    <3> QED BY <3>11, <3>12
  <2> QED BY <2>1, <2>2
<1>15. Good(D)
  <2>1. SUBSET D \subseteq P
    <3> HIDE DEF P
    <3>1. \A q \in SUBSET D : (\A u \in SUBSET q : u # q => u \in P) => q \in P
      BY <1>14
    <3>2. IsFiniteSet(D)
      BY <1>3
    <3> QED BY <3>1, <3>2, SubsetInduction, SMTT(30), ZenonT(30)
  <2>2. D \in P
    <3> HIDE DEF P
    <3> QED BY <2>1
  <2> QED BY <2>2
<1>16. ASSUME NEW b \in c
       PROVE  /\ b \in T /\ k <= Cardinality(Caught(s, b))
              /\ \A t \in T : k <= Cardinality(Caught(s, t)) =>
                   FalsePositives(s, b) <= FalsePositives(s, t)
  <2>1. b \in Q /\ b \in T
    BY <1>6, <1>15 DEF Q
  <2>2. ASSUME NEW t \in T, k <= Cardinality(Caught(s, t))
        PROVE  FalsePositives(s, b) <= FalsePositives(s, t)
    <3>1. PICK i \in D : x[i] = t
      BY <1>2
    <3>2. t \in Q
      BY <2>2 DEF Q
    <3>3. fp[b] <= fp[t]
      BY <1>6, <1>15, <3>1, <3>2
    <3> QED BY <1>5, <2>1, <3>3
  <2> QED BY <2>1, <2>2 DEF Q
<1>17. ASSUME c = {}, NEW t \in T PROVE ~(k <= Cardinality(Caught(s, t)))
  <2>1. PICK i \in D : x[i] = t
    BY <1>2
  <2>2. t \notin Q
    BY <1>6, <1>15, <1>17, <2>1
  <2> QED BY <2>2 DEF Q
<1> QED BY <1>16, <1>17 DEF T

\* No threshold that reaches the recall is cheaper: of the clean rows, those with
\* fewer than k positives above them are flagged at any that does.
LEMMA CheapestCosts ==
  ASSUME NEW s \in Seq(LabelledRow), NEW k \in 1..Cardinality(Positive(s)),
         NEW b \in CheapestAtRecall(s, Frac(k, Cardinality(Positive(s))))
  PROVE  FalsePositives(s, b)
           = Cardinality({j \in Negative(s) :
               Cardinality({i \in Positive(s) : s[i].score > s[j].score}) < k})
<1> DEFINE P == Positive(s)
           N == Negative(s)
           T == Scores(s)
           p == Cardinality(P)
           over(t) == {i \in P : s[i].score > t}
           few == {j \in N : Cardinality(over(s[j].score)) < k}
           Q == {t \in T : k <= Cardinality(Caught(s, t))}
           paid(t) == Flagged(s, t) \cap N
<1>1. /\ P \subseteq DOMAIN s /\ N \subseteq DOMAIN s /\ P \cup N = DOMAIN s
      /\ IsFiniteSet(P) /\ IsFiniteSet(N) /\ p \in Nat
      /\ \A i \in DOMAIN s : s[i].score \in Nat /\ s[i].score \in T
      /\ T \in SUBSET Nat /\ IsFiniteSet(T)
  BY RowsAre, ScoresAre
<1>2. k \in Nat /\ k >= 1 /\ k <= p /\ p \in Nat \ {0}
  <2> HIDE DEF p
  <2> QED BY <1>1 DEF p
<1>3. /\ b \in Q /\ b \in T
      /\ \A t \in Q : FalsePositives(s, b) <= FalsePositives(s, t)
  BY <1>2, CheapestIs
<1>4. \A t \in Nat : /\ IsFiniteSet(over(t)) /\ Cardinality(over(t)) \in Nat
                     /\ IsFiniteSet(paid(t)) /\ Cardinality(paid(t)) \in Nat
                     /\ FalsePositives(s, t) = Cardinality(paid(t))
                     /\ Caught(s, t) = {i \in P : s[i].score >= t}
                     /\ IsFiniteSet(Caught(s, t)) /\ Cardinality(Caught(s, t)) \in Nat
  <2> TAKE t \in Nat
  <2>1. over(t) \in SUBSET P /\ paid(t) \in SUBSET N
    OBVIOUS
  <2>2. FalsePositives(s, t) = Cardinality(paid(t))
    BY DEF FalsePositives
  <2>3. Caught(s, t) = {i \in P : s[i].score >= t} /\ IsFiniteSet(Caught(s, t))
        /\ Cardinality(Caught(s, t)) \in Nat
    BY FlaggedAre
  <2> HIDE DEF over, paid, P, N
  <2>4. IsFiniteSet(over(t)) /\ IsFiniteSet(paid(t))
    BY <1>1, <2>1, FS_Subset
  <2>5. Cardinality(over(t)) \in Nat /\ Cardinality(paid(t)) \in Nat
    BY <2>4, FS_CardinalityType
  <2> QED BY <2>2, <2>3, <2>4, <2>5
<1>5. few \in SUBSET N /\ IsFiniteSet(few) /\ Cardinality(few) \in Nat
  <2>1. few \in SUBSET N
    OBVIOUS
  <2> HIDE DEF few, N
  <2>2. IsFiniteSet(few)
    BY <1>1, <2>1, FS_Subset
  <2> QED BY <2>1, <2>2, FS_CardinalityType
<1>6. ASSUME NEW t \in Q PROVE Cardinality(few) <= FalsePositives(s, t)
  <2>1. t \in Nat /\ k <= Cardinality(Caught(s, t))
    BY <1>1
  <2>2. ASSUME NEW j \in few PROVE j \in paid(t)
    <3>1. j \in N /\ s[j].score \in Nat
      BY <1>1
    <3>2. s[j].score >= t
      <4> SUFFICES ASSUME s[j].score < t PROVE FALSE
        BY <2>1, <3>1
      <4> DEFINE u == s[j].score
      <4>1. Caught(s, t) \subseteq over(u)
        <5>1. \A i \in P : s[i].score >= t => s[i].score > u
          BY <1>1, <2>1, <3>1
        <5>2. Caught(s, t) = {i \in P : s[i].score >= t}
          BY <1>4, <2>1
        <5> HIDE DEF u, P
        <5> QED BY <5>1, <5>2
      <4>2. Cardinality(over(u)) < k
        OBVIOUS
      <4>3. /\ IsFiniteSet(over(u)) /\ Cardinality(over(u)) \in Nat
            /\ Cardinality(Caught(s, t)) \in Nat
        BY <1>4, <2>1, <3>1
      <4> HIDE DEF over, u
      <4>4. Cardinality(Caught(s, t)) <= Cardinality(over(u))
        BY <4>1, <4>3, FS_Subset
      <4> QED BY <1>2, <2>1, <4>2, <4>3, <4>4
    <3> QED BY <1>1, <3>1, <3>2 DEF Flagged
  <2>3. few \subseteq paid(t)
    BY <2>2
  <2> HIDE DEF few, paid
  <2>4. Cardinality(few) <= Cardinality(paid(t))
    BY <1>4, <2>1, <2>3, FS_Subset
  <2> QED BY <1>4, <2>1, <2>4
<1>7. PICK t \in Q : \A u \in Q : u <= t
  <2>1. Q \in SUBSET Int /\ Q # {} /\ Q \in SUBSET T
    BY <1>1, <1>3
  <2> HIDE DEF Q, T
  <2>2. IsFiniteSet(Q)
    BY <1>1, <2>1, FS_Subset
  <2>3. Max(Q) \in Q /\ \A u \in Q : Max(Q) >= u
    BY <2>1, <2>2, MaxOfFinite
  <2> QED BY <2>1, <2>3
<1>8. t \in Nat /\ t \in T
  BY <1>1
<1>9. ASSUME NEW j \in paid(t) PROVE j \in few
  <2>1. j \in N /\ j \in DOMAIN s /\ s[j].score >= t
    BY <1>1 DEF Flagged
  <2> DEFINE u == s[j].score
             A == over(u)
             W == {s[i].score : i \in A}
  <2>2. u \in Nat /\ IsFiniteSet(A) /\ Cardinality(A) \in Nat
    BY <1>1, <1>4, <2>1
  <2>3. SUFFICES ASSUME k <= Cardinality(A) PROVE FALSE
    <3>1. j \in few <=> Cardinality(A) < k
      BY <2>1
    <3> HIDE DEF A, few
    <3> QED BY <1>2, <2>2, <3>1
  <2>4. W \in SUBSET T /\ W \in SUBSET Int /\ A \subseteq P
    BY <1>1
  <2>5. A # {}
    <3> HIDE DEF A
    <3> QED BY <1>2, <2>2, <2>3, FS_EmptySet
  <2>6. W # {}
    BY <2>5
  <2>7. IsFiniteSet(W)
    <3> HIDE DEF W, T
    <3> QED BY <1>1, <2>4, FS_Subset
  <2>8. PICK m \in W : \A y \in W : m <= y
    <3> HIDE DEF W
    <3>1. Min(W) \in W /\ \A y \in W : Min(W) <= y
      BY <2>4, <2>6, <2>7, MinOfFinite
    <3> QED BY <3>1
  <2>9. m > u /\ m \in Nat /\ m \in T
    BY <1>1, <2>4
  <2>10. Caught(s, m) = A
    <3>1. Caught(s, m) = {i \in P : s[i].score >= m}
      BY <1>4, <2>9
    <3>2. \A i \in P : s[i].score > u => s[i].score >= m
      <4> TAKE i \in P
      <4> HAVE s[i].score > u
      <4>1. s[i].score \in W /\ s[i].score \in Nat
        BY <1>1
      <4> QED BY <2>8, <2>9, <4>1
    <3>3. \A i \in P : s[i].score >= m => s[i].score > u
      <4> TAKE i \in P
      <4>1. s[i].score \in Nat
        BY <1>1
      <4> QED BY <2>2, <2>9, <4>1
    <3> HIDE DEF P, u
    <3> QED BY <3>1, <3>2, <3>3 DEF A
  <2>11. m \in Q
    BY <2>3, <2>9, <2>10
  <2>12. m <= t
    BY <1>7, <2>11
  <2> HIDE DEF u
  <2> QED BY <1>8, <2>1, <2>2, <2>9, <2>12 DEF u
<1>10. FalsePositives(s, t) <= Cardinality(few)
  <2>1. paid(t) \subseteq few
    BY <1>9
  <2> HIDE DEF few, paid
  <2>2. Cardinality(paid(t)) <= Cardinality(few)
    BY <1>5, <2>1, FS_Subset
  <2> QED BY <1>4, <1>8, <2>2
<1>11. FalsePositives(s, t) \in Nat /\ FalsePositives(s, b) \in Nat
  <2>1. b \in Nat
    BY <1>1, <1>3
  <2>2. \A y \in Nat : FalsePositives(s, y) \in Nat
    <3> TAKE y \in Nat
    <3>1. FalsePositives(s, y) = Cardinality(paid(y)) /\ Cardinality(paid(y)) \in Nat
      BY <1>4
    <3> HIDE DEF paid
    <3> QED BY <3>1
  <2> QED BY <1>8, <2>1, <2>2
<1>12. FalsePositives(s, b) = Cardinality(few)
  <2>1. Cardinality(few) <= FalsePositives(s, b) /\ FalsePositives(s, b) <= FalsePositives(s, t)
    <3> HIDE DEF few
    <3> QED BY <1>3, <1>6, <1>7
  <2> HIDE DEF few
  <2> QED BY <1>5, <1>10, <1>11, <2>1
<1> QED BY <1>12

\* The lowest score reaches every recall, so one is found.
LEMMA CheapestIsFound ==
  ASSUME NEW s \in Seq(LabelledRow), NEW k \in 1..Cardinality(Positive(s)),
         Positive(s) # {}
  PROVE  CheapestAtRecall(s, Frac(k, Cardinality(Positive(s)))) # {}
<1> DEFINE T == Scores(s)
           p == Cardinality(Positive(s))
           c == CheapestAtRecall(s, Frac(k, p))
<1>1. /\ T \in SUBSET Int /\ T \in SUBSET Nat /\ IsFiniteSet(T) /\ T # {} /\ p \in Nat
      /\ \A i \in Positive(s) : s[i].score \in T
  <2>1. /\ Positive(s) \subseteq DOMAIN s
        /\ IsFiniteSet(Positive(s))
        /\ \A i \in DOMAIN s : s[i].score \in Nat /\ s[i].score \in T
    BY RowsAre, ScoresAre
  <2>2. T \in SUBSET Nat /\ IsFiniteSet(T)
    BY RowsAre, ScoresAre
  <2>3. p \in Nat
    BY <2>1, FS_CardinalityType
  <2> HIDE DEF T, p
  <2>4. T # {}
    BY <2>1
  <2> QED BY <2>1, <2>2, <2>3, <2>4
<1>2. k \in Nat /\ k <= p /\ p \in Nat \ {0}
  <2> HIDE DEF p
  <2> QED BY <1>1 DEF p
<1>3. PICK low \in T : \A t \in T : low <= t
  <2> HIDE DEF T
  <2>1. Min(T) \in T /\ \A t \in T : Min(T) <= t
    BY <1>1, MinOfFinite
  <2> QED BY <2>1
<1>4. Caught(s, low) = Positive(s)
  <2>1. Caught(s, low) = {i \in Positive(s) : s[i].score >= low}
    BY <1>1, FlaggedAre
  <2>2. \A i \in Positive(s) : s[i].score >= low
    BY <1>1, <1>3
  <2> QED BY <2>1, <2>2
<1>5. k <= Cardinality(Caught(s, low))
  BY <1>2, <1>4
<1>6. ASSUME c = {} PROVE FALSE
  <2>1. \A t \in T : ~(k <= Cardinality(Caught(s, t)))
    BY <1>2, <1>6, CheapestIs
  <2> QED BY <1>3, <1>5, <2>1
<1> QED BY <1>6

\* Whatever the sample, ties included: both ways to compute an AUC agree, average
\* precision is the mean precision of the positives, the best threshold is no worse
\* than flagging everything, and none that reaches a recall is cheaper than the one
\* false_positive_rate_at_recall finds.
THEOREM MetricsAlwaysAgree == SamplesSpec => []MetricsAgree
<1>1. sample \in Seq(LabelledRow) => MetricsAgree
  <2> SUFFICES ASSUME sample \in Seq(LabelledRow), BothClasses(sample)
               PROVE  /\ RankAuc(sample) = PairAuc(sample)
                      /\ AveragePrecision(sample) = MeanPrecision(sample)
                      /\ AtMost(FlagEverythingF1(sample), F1(sample, BestF1Threshold(sample)))
                      /\ \A k \in 1..Cardinality(Positive(sample)) :
                           {FalsePositives(sample, b) :
                              b \in CheapestAtRecall(sample,
                                     Frac(k, Cardinality(Positive(sample))))}
                             = {Cardinality({j \in Negative(sample) :
                                  Cardinality({i \in Positive(sample) :
                                    sample[i].score > sample[j].score}) < k})}
    BY DEF MetricsAgree
  <2>1. ASSUME NEW k \in 1..Cardinality(Positive(sample))
        PROVE  {FalsePositives(sample, b) :
                  b \in CheapestAtRecall(sample, Frac(k, Cardinality(Positive(sample))))}
                 = {Cardinality({j \in Negative(sample) :
                      Cardinality({i \in Positive(sample) :
                        sample[i].score > sample[j].score}) < k})}
    <3> DEFINE c == CheapestAtRecall(sample, Frac(k, Cardinality(Positive(sample))))
               few == Cardinality({j \in Negative(sample) :
                        Cardinality({i \in Positive(sample) :
                          sample[i].score > sample[j].score}) < k})
    <3>1. \A b \in c : FalsePositives(sample, b) = few
      BY CheapestCosts
    <3>2. c # {}
      BY CheapestIsFound DEF BothClasses
    <3> HIDE DEF c, few
    <3>3. {FalsePositives(sample, b) : b \in c} = {few}
      BY <3>1, <3>2
    <3> QED BY <3>3 DEF c, few
  <2>2. RankAuc(sample) = PairAuc(sample)
    BY AucsAgree
  <2>3. AveragePrecision(sample) = MeanPrecision(sample)
    BY PrecisionsAgree
  <2>4. AtMost(FlagEverythingF1(sample), F1(sample, BestF1Threshold(sample)))
    BY BestIsNoWorse
  <2> QED BY <2>1, <2>2, <2>3, <2>4
<1> QED BY <1>1, SamplesAreRows, PTL

-----------------------------------------------------------------------------
(* Calibration: points, and lines that no point is below.                   *)

\* A positive factor keeps the order.
LEMMA ScaledOrder ==
  /\ \A x, y \in Int, w \in Nat : x <= y => x * w <= y * w
  /\ \A x, y \in Int, w \in Nat \ {0} : x * w <= y * w => x <= y
<1>1. \A x, r \in Int, w \in Nat : (x + r) * w = x * w + r * w /\ x * w \in Int
  BY Z3
<1>2. \A r, w \in Nat : r * w \in Nat
  BY Z3
<1>3. ASSUME NEW x \in Int, NEW y \in Int, NEW w \in Nat, x <= y PROVE x * w <= y * w
  <2>1. y - x \in Nat /\ y = x + (y - x)
    BY <1>3
  <2>2. y * w = x * w + (y - x) * w /\ (y - x) * w \in Nat
    BY <1>1, <1>2, <2>1
  <2> QED BY <1>1, <2>2
<1>4. ASSUME NEW x \in Int, NEW y \in Int, NEW w \in Nat \ {0}, x * w <= y * w, ~(x <= y)
      PROVE  FALSE
  <2>1. x - y - 1 \in Nat /\ x = (y + 1) + (x - y - 1) /\ y + 1 \in Int
    BY <1>4
  <2>2. x * w = (y + 1) * w + (x - y - 1) * w /\ (x - y - 1) * w \in Nat
    BY <1>1, <1>2, <2>1
  <2>3. (y + 1) * w = y * w + 1 * w /\ 1 * w = w /\ y * w \in Int
    BY <1>1
  <2> QED BY <1>4, <2>2, <2>3
<1> QED BY <1>3, <1>4

\* Slopes compare in order.
LEMMA SlopesCompare ==
  ASSUME NEW x \in Int, NEW y \in Int, NEW z \in Int,
         NEW w \in Nat, NEW v \in Nat \ {0}, NEW u \in Nat,
         x * v <= y * w, y * u <= z * v
  PROVE  x * u <= z * w
<1>1. \A a, b, c \in Int : (a * b) * c = (a * c) * b /\ a * b \in Int
  BY Z3
<1>2. (x * v) * u <= (y * w) * u /\ (y * u) * w <= (z * v) * w
  BY <1>1, ScaledOrder
<1>3. (x * u) * v = (x * v) * u /\ (y * w) * u = (y * u) * w /\ (z * v) * w = (z * w) * v
  BY <1>1
<1>4. (x * u) * v <= (z * w) * v
  BY <1>1, <1>2, <1>3
<1> QED BY <1>1, <1>4, ScaledOrder

\* No point k is below the line through the points a and c.
Under(A, B, a, c, k) == (A[c] - A[a]) * (B[k] - B[a]) <= (A[k] - A[a]) * (B[c] - B[a])

\* The rows and the positives up to each score.
Climbs(A, B, n) ==
  /\ n \in Nat /\ A \in [0..n -> Int] /\ B \in [0..n -> Int]
  /\ \A j, k \in 0..n : j < k => B[j] < B[k]

\* Points that climb: what they are, and how far apart.
LEMMA PointsAre ==
  ASSUME NEW n, NEW A, NEW B, Climbs(A, B, n)
  PROVE  /\ \A k \in 0..n : A[k] \in Int /\ B[k] \in Int
         /\ \A j, k \in 0..n : j <= k => B[k] - B[j] \in Nat
         /\ \A j, k \in 0..n : j < k => B[k] - B[j] \in Nat \ {0}
<1>1. \A k \in 0..n : A[k] \in Int /\ B[k] \in Int
  BY DEF Climbs
<1>2. \A j, k \in 0..n : j < k => B[k] - B[j] \in Nat \ {0}
  BY <1>1 DEF Climbs
<1>3. n \in Nat
  BY DEF Climbs
<1>4. \A j, k \in 0..n : j <= k => B[k] - B[j] \in Nat
  <2> TAKE j \in 0..n, k \in 0..n
  <2> HAVE j <= k
  <2>1. CASE j < k
    BY <1>2, <2>1
  <2>2. CASE j = k
    BY <1>1, <2>2
  <2> QED BY <1>3, <2>1, <2>2
<1> QED BY <1>1, <1>2, <1>4

\* The same, seen from the other end.
LEMMA UnderFromRight ==
  ASSUME NEW n, NEW A, NEW B, Climbs(A, B, n), NEW a \in 0..n, NEW c \in 0..n, NEW k \in 0..n
  PROVE  Under(A, B, a, c, k)
           <=> (A[c] - A[k]) * (B[c] - B[a]) <= (A[c] - A[a]) * (B[c] - B[k])
<1>1. \A h, w, y, v \in Int : (h - y) * w = h * w - y * w /\ h * (w - v) = h * w - h * v
                             /\ h * w \in Int /\ y * w \in Int /\ h * v \in Int
  BY Z3
<1> DEFINE h == A[c] - A[a]
           w == B[c] - B[a]
           y == A[k] - A[a]
           v == B[k] - B[a]
<1>2. h \in Int /\ w \in Int /\ y \in Int /\ v \in Int /\ A[c] - A[k] = h - y /\ B[c] - B[k] = w - v
  BY PointsAre
<1>3. Under(A, B, a, c, k) <=> h * v <= y * w
  BY DEF Under
<1> SUFFICES h * v <= y * w <=> (h - y) * w <= h * (w - v)
  BY <1>2, <1>3
<1> HIDE DEF h, w, y, v
<1> QED BY <1>1, <1>2

\* Of two adjacent lines the first is not the steeper: what is above the one to the
\* left of where they meet is above the other.
LEMMA BendsUp ==
  ASSUME NEW n, NEW A, NEW B, Climbs(A, B, n),
         NEW b \in 0..n, NEW a \in 0..n, NEW z \in 0..n, NEW k \in 0..n,
         b < a, a < z, k <= a, Under(A, B, b, a, k), Under(A, B, b, a, z)
  PROVE  Under(A, B, a, z, k)
<1>1. CASE k = a
  <2>1. A[k] - A[a] = 0 /\ B[k] - B[a] = 0 /\ B[z] - B[a] \in Int /\ A[z] - A[a] \in Int
    BY <1>1 DEF Climbs
  <2>2. (A[z] - A[a]) * 0 = 0 /\ 0 * (B[z] - B[a]) = 0
    BY <2>1
  <2> QED BY <2>1, <2>2 DEF Under
<1>2. CASE k < a
  <2> DEFINE y == A[a] - A[k]
             v == B[a] - B[k]
             h == A[a] - A[b]
             w == B[a] - B[b]
             g == A[z] - A[a]
             u == B[z] - B[a]
  <2>1. /\ y \in Int /\ h \in Int /\ g \in Int
        /\ v \in Nat \ {0} /\ w \in Nat \ {0} /\ u \in Nat \ {0}
    BY <1>2, PointsAre
  <2>2. y * w <= h * v
    BY UnderFromRight
  <2>3. (A[a] - A[z]) * w <= h * (B[a] - B[z])
    BY UnderFromRight
  <2>4. A[a] - A[z] = -g /\ B[a] - B[z] = -u /\ A[k] - A[a] = -y /\ B[k] - B[a] = -v
    BY PointsAre
  <2>5. Under(A, B, a, z, k) <=> g * (-v) <= (-y) * u
    BY <2>4 DEF Under
  <2> HIDE DEF y, v, h, w, g, u
  <2>6. \A i, j \in Int : (-i) * j = -(i * j) /\ i * (-j) = -(i * j) /\ i * j \in Int
    BY Z3
  <2>7. h * u <= g * w
    BY <2>1, <2>3, <2>4, <2>6
  <2>8. y * u <= g * v
    BY <2>1, <2>2, <2>7, SlopesCompare
  <2> QED BY <2>1, <2>5, <2>6, <2>8
<1> QED BY <1>1, <1>2

\* A later point that no line to the left of a was tested against: if the line from a
\* to z is under the point p, z is above every line that ends before a.
LEMMA StaysAbove ==
  ASSUME NEW n, NEW A, NEW B, Climbs(A, B, n),
         NEW p \in 0..n, NEW q \in 0..n, NEW a \in 0..n, NEW z \in 0..n,
         p < q, q <= a, a < z, Under(A, B, p, q, a), Under(A, B, a, z, p)
  PROVE  Under(A, B, p, q, z)
<1> DEFINE y == A[a] - A[p]
           v == B[a] - B[p]
           h == A[q] - A[p]
           w == B[q] - B[p]
           g == A[z] - A[a]
           u == B[z] - B[a]
<1>1. /\ y \in Int /\ h \in Int /\ g \in Int
      /\ v \in Nat \ {0} /\ w \in Nat \ {0} /\ u \in Nat \ {0}
      /\ A[z] - A[p] = y + g /\ B[z] - B[p] = v + u
  <2>1. p < a /\ p \in Int /\ q \in Int /\ a \in Int
    BY PointsAre DEF Climbs
  <2>2. A[a] \in Int /\ A[p] \in Int /\ A[q] \in Int /\ A[z] \in Int
    BY PointsAre
  <2>3. B[a] \in Int /\ B[p] \in Int /\ B[q] \in Int /\ B[z] \in Int
    BY PointsAre
  <2>4. v \in Nat \ {0} /\ w \in Nat \ {0} /\ u \in Nat \ {0}
    BY <2>1, PointsAre
  <2> QED BY <2>2, <2>3, <2>4
<1>2. h * v <= y * w
  BY DEF Under
<1>3. g * (B[p] - B[a]) <= (A[p] - A[a]) * u
  BY DEF Under
<1>4. B[p] - B[a] = -v /\ A[p] - A[a] = -y
  BY PointsAre
<1>5. Under(A, B, p, q, z) <=> h * (v + u) <= (y + g) * w
  BY <1>1 DEF Under
<1> HIDE DEF y, v, h, w, g, u
<1>6. \A i, j \in Int : (-i) * j = -(i * j) /\ i * (-j) = -(i * j) /\ i * j \in Int
  BY Z3
<1>7. y * u <= g * v
  BY <1>1, <1>3, <1>4, <1>6
<1>8. h * u <= g * w
  BY <1>1, <1>2, <1>7, SlopesCompare
<1>9. \A i, j, k \in Int : i * (j + k) = i * j + i * k /\ (i + j) * k = i * k + j * k
  BY Z3
<1>10. h * (v + u) = h * v + h * u /\ (y + g) * w = y * w + g * w
  BY <1>1, <1>9
<1> QED BY <1>1, <1>2, <1>5, <1>6, <1>8, <1>10

\* Two lines that fall at a are replaced by one that is under what was above them.
LEMMA PooledIsUnder ==
  ASSUME NEW n, NEW A, NEW B, Climbs(A, B, n),
         NEW b \in 0..n, NEW a \in 0..n, NEW z \in 0..n, NEW k \in b..z, b < a, a < z,
         (A[z] - A[a]) * (B[a] - B[b]) <= (A[a] - A[b]) * (B[z] - B[a]),
         k <= a => Under(A, B, b, a, k), k >= a => Under(A, B, a, z, k)
  PROVE  Under(A, B, b, z, k)
<1> DEFINE h == A[a] - A[b]
           w == B[a] - B[b]
           g == A[z] - A[a]
           u == B[z] - B[a]
<1>1. /\ k \in 0..n /\ h \in Int /\ g \in Int /\ w \in Nat \ {0} /\ u \in Nat \ {0}
      /\ A[z] - A[b] = h + g /\ B[z] - B[b] = w + u
  <2>1. A[a] \in Int /\ A[b] \in Int /\ A[z] \in Int
    BY PointsAre
  <2>2. B[a] \in Int /\ B[b] \in Int /\ B[z] \in Int
    BY PointsAre
  <2>3. w \in Nat \ {0} /\ u \in Nat \ {0}
    BY PointsAre
  <2>4. k \in 0..n
    BY DEF Climbs
  <2> QED BY <2>1, <2>2, <2>3, <2>4
<1>2. g * w <= h * u
  OBVIOUS
<1>3. /\ \A i, j, l \in Int : i * (j + l) = i * j + i * l /\ (i + j) * l = i * l + j * l
      /\ \A i, j \in Int : i * j \in Int /\ i * j = j * i
  BY Z3
<1>4. CASE k <= a
  <2> DEFINE y == A[k] - A[b]
             v == B[k] - B[b]
  <2>1. y \in Int /\ v \in Nat
    BY <1>1, PointsAre
  <2>2. h * v <= y * w
    BY <1>4 DEF Under
  <2>3. Under(A, B, b, z, k) <=> (h + g) * v <= y * (w + u)
    BY <1>1 DEF Under
  <2> HIDE DEF h, w, g, u, y, v
  <2>4. (h + g) * w <= h * (w + u)
    BY <1>1, <1>2, <1>3
  <2>5. h + g \in Int /\ w + u \in Nat
    BY <1>1
  <2>6. (h + g) * v <= y * (w + u)
    BY <1>1, <2>1, <2>2, <2>4, <2>5, SlopesCompare
  <2> QED BY <2>3, <2>6
<1>5. CASE k >= a
  <2> DEFINE y == A[z] - A[k]
             v == B[z] - B[k]
  <2>1. y \in Int /\ v \in Nat
    BY <1>1, PointsAre
  <2>2. y * u <= g * v
    <3>1. Under(A, B, a, z, k)
      BY <1>5
    <3> QED BY <1>1, <3>1, UnderFromRight
  <2>3. Under(A, B, b, z, k) <=> y * (w + u) <= (h + g) * v
    BY <1>1, UnderFromRight
  <2> HIDE DEF h, w, g, u, y, v
  <2>4. g * (w + u) <= (h + g) * u
    BY <1>1, <1>2, <1>3
  <2>5. h + g \in Int /\ w + u \in Nat
    BY <1>1
  <2>6. y * (w + u) <= (h + g) * v
    BY <1>1, <2>1, <2>2, <2>4, <2>5, SlopesCompare
  <2> QED BY <2>3, <2>6
<1> QED BY <1>1, <1>4, <1>5

-----------------------------------------------------------------------------
(* Calibration: the blocks, while they are pooled.                          *)

BlockSet == [low : Int, high : Int, positives : Int, count : Int]

\* The block of the scores after a, up to c.
Run(x, A, B, a, c) ==
  [low |-> x[a + 1], high |-> x[c], positives |-> A[c] - A[a], count |-> B[c] - B[a]]

\* The blocks are what is between the cuts e, up to m.
Cuts(blocks, e, m, x, A, B) ==
  /\ blocks \in Seq(BlockSet) /\ e \in [0..Len(blocks) -> 0..m]
  /\ e[0] = 0 /\ e[Len(blocks)] = m
  /\ \A t \in 1..Len(blocks) : e[t - 1] < e[t] /\ blocks[t] = Run(x, A, B, e[t - 1], e[t])

\* No point is below the line of a block.
Held(blocks, e, m, x, A, B) ==
  /\ Cuts(blocks, e, m, x, A, B)
  /\ \A t \in 1..Len(blocks) : \A k \in 0..m : Under(A, B, e[t - 1], e[t], k)

\* The same while the next score is taken in: of the last block it is known only that
\* none of its own points is below its line, and of the others nothing is at m + 1.
Taking(blocks, e, m, x, A, B) ==
  /\ Len(blocks) >= 1 /\ Cuts(blocks, e, m + 1, x, A, B)
  /\ \A t \in 1..(Len(blocks) - 1) : \A k \in 0..m : Under(A, B, e[t - 1], e[t], k)
  /\ \A k \in e[Len(blocks) - 1]..(m + 1) : Under(A, B, e[Len(blocks) - 1], m + 1, k)

Falls(blocks) ==
  Len(blocks) >= 2 /\ Below(Mean(blocks[Len(blocks)]), Mean(blocks[Len(blocks) - 1]))

\* The cuts are in order.
LEMMA CutsAre ==
  ASSUME NEW m \in Nat, NEW x, NEW A, NEW B, NEW blocks, NEW e, Cuts(blocks, e, m, x, A, B)
  PROVE  /\ Len(blocks) \in Nat
         /\ \A t \in 0..Len(blocks) : e[t] \in 0..m
         /\ \A s, t \in 0..Len(blocks) : s < t => e[s] < e[t]
<1> DEFINE n == Len(blocks)
           P == {t \in Nat : t <= n => \A s \in 0..n : s < t => e[s] < e[t]}
<1>1. n \in Nat /\ \A t \in 0..n : e[t] \in 0..m
  <2>1. blocks \in Seq(BlockSet)
    BY DEF Cuts
  <2>2. \A t \in 0..n : e[t] \in 0..m
    BY DEF Cuts
  <2> QED BY <2>1, <2>2
<1>2. \A t \in 1..n : e[t - 1] < e[t]
  BY DEF Cuts
<1> HIDE DEF n
<1>3. 0 \in P
  BY <1>1
<1>4. ASSUME NEW t \in Nat, t \in P PROVE t + 1 \in P
  <2> SUFFICES ASSUME t + 1 <= n, NEW s \in 0..n, s < t + 1 PROVE e[s] < e[t + 1]
    OBVIOUS
  <2>1. e[t] < e[t + 1]
    BY <1>1, <1>2
  <2>2. e[s] \in Nat /\ e[t] \in Nat /\ e[t + 1] \in Nat
    BY <1>1
  <2>3. CASE s = t
    BY <2>1, <2>3
  <2>4. CASE s # t
    <3>1. e[s] < e[t]
      BY <1>1, <1>4, <2>4
    <3> QED BY <2>1, <2>2, <3>1
  <2> QED BY <2>3, <2>4
<1>5. Nat \subseteq P
  <2> HIDE DEF P
  <2> QED BY <1>3, <1>4, UpwardInduction
<1>6. \A s, t \in 0..n : s < t => e[s] < e[t]
  BY <1>1, <1>5
<1> QED BY <1>1, <1>6 DEF n

\* The mean of a run is the slope of its line.
LEMMA RunIs ==
  ASSUME NEW n, NEW A, NEW B, Climbs(A, B, n), NEW x, x \in [1..n -> Int],
         NEW a \in 0..n, NEW c \in 0..n, a < c
  PROVE  /\ Run(x, A, B, a, c) \in BlockSet
         /\ Mean(Run(x, A, B, a, c)) = Frac(A[c] - A[a], B[c] - B[a])
         /\ A[c] - A[a] \in Int /\ B[c] - B[a] \in Nat \ {0}
<1>1. A[c] - A[a] \in Int /\ B[c] - B[a] \in Nat \ {0}
  BY PointsAre
<1>2. a + 1 \in 1..n /\ c \in 1..n
  BY DEF Climbs
<1>3. x[a + 1] \in Int /\ x[c] \in Int
  BY <1>2
<1> QED BY <1>1, <1>3 DEF Run, BlockSet, Mean

\* Two neighbouring means compare as the slopes of their lines.
LEMMA MeansCompare ==
  ASSUME NEW n, NEW A, NEW B, Climbs(A, B, n), NEW x, x \in [1..n -> Int],
         NEW b \in 0..n, NEW a \in 0..n, NEW d \in 0..n, NEW c \in 0..n, b < a, d < c
  PROVE  LET p == Mean(Run(x, A, B, b, a))
             q == Mean(Run(x, A, B, d, c))
         IN  /\ Below(q, p) <=> (A[c] - A[d]) * (B[a] - B[b]) < (A[a] - A[b]) * (B[c] - B[d])
             /\ AtMost(q, p) <=> (A[c] - A[d]) * (B[a] - B[b]) <= (A[a] - A[b]) * (B[c] - B[d])
             /\ q = p <=> (A[c] - A[d]) * (B[a] - B[b]) = (A[a] - A[b]) * (B[c] - B[d])
<1> DEFINE h == A[a] - A[b]
           w == B[a] - B[b]
           g == A[c] - A[d]
           u == B[c] - B[d]
<1>1. /\ Mean(Run(x, A, B, b, a)) = Frac(h, w) /\ Mean(Run(x, A, B, d, c)) = Frac(g, u)
      /\ h \in Int /\ g \in Int /\ w \in Nat \ {0} /\ u \in Nat \ {0}
  BY RunIs
<1> HIDE DEF h, w, g, u
<1>2. /\ AtMost(Frac(g, u), Frac(h, w)) <=> g * w <= h * u
      /\ Below(Frac(g, u), Frac(h, w)) <=> g * w < h * u
      /\ Frac(g, u) = Frac(h, w) <=> g * w = h * u
  BY <1>1, FracAtMost
<1> QED BY <1>1, <1>2 DEF h, w, g, u

\* A score is taken in as a block of its own.
LEMMA TakingBegins ==
  ASSUME NEW n, NEW A, NEW B, Climbs(A, B, n), NEW x, x \in [1..n -> Int],
         NEW m \in Nat, m < n, NEW blocks, NEW e, Held(blocks, e, m, x, A, B)
  PROVE  \E f : Taking(Append(blocks, Run(x, A, B, m, m + 1)), f, m, x, A, B)
<1> DEFINE L == Len(blocks)
           r == Run(x, A, B, m, m + 1)
           more == Append(blocks, r)
           f == [t \in 0..(L + 1) |-> IF t = L + 1 THEN m + 1 ELSE e[t]]
<1>1. /\ n \in Nat /\ m \in 0..n /\ m + 1 \in 0..n /\ L \in Nat
      /\ blocks \in Seq(BlockSet) /\ r \in BlockSet
  <2>1. n \in Nat /\ L \in Nat /\ blocks \in Seq(BlockSet)
    BY DEF Climbs, Held, Cuts
  <2>2. m \in 0..n /\ m + 1 \in 0..n /\ m < m + 1
    BY <2>1
  <2>3. Run(x, A, B, m, m + 1) \in BlockSet
    <3> DEFINE c == m + 1
    <3>1. c \in 0..n /\ m < c
      BY <2>2
    <3> HIDE DEF c
    <3>2. Run(x, A, B, m, c) \in BlockSet
      BY <2>2, <3>1, RunIs
    <3> QED BY <3>2 DEF c
  <2> QED BY <2>1, <2>2, <2>3
<1>2. /\ more \in Seq(BlockSet) /\ Len(more) = L + 1 /\ more[L + 1] = r
      /\ \A t \in 1..L : more[t] = blocks[t]
  <2> HIDE DEF r
  <2> QED BY <1>1
<1>3. /\ \A t \in 0..L : e[t] \in 0..m
      /\ e[0] = 0 /\ e[L] = m
      /\ \A t \in 1..L : e[t - 1] < e[t] /\ blocks[t] = Run(x, A, B, e[t - 1], e[t])
      /\ \A t \in 1..L : \A k \in 0..m : Under(A, B, e[t - 1], e[t], k)
  BY DEF Held, Cuts
<1>4. /\ f \in [0..(L + 1) -> 0..(m + 1)]
      /\ f[L + 1] = m + 1 /\ \A t \in 0..L : f[t] = e[t]
  <2> HIDE DEF L, more
  <2>1. \A t \in 0..L : t \in 0..(L + 1) /\ t # L + 1 /\ e[t] \in 0..(m + 1)
    BY <1>1, <1>3
  <2>2. \A t \in 0..(L + 1) : t \in 0..L \/ t = L + 1
    BY <1>1
  <2>3. L + 1 \in 0..(L + 1) /\ m + 1 \in 0..(m + 1)
    BY <1>1
  <2>4. \A t \in 0..(L + 1) : (IF t = L + 1 THEN m + 1 ELSE e[t]) \in 0..(m + 1)
    BY <2>1, <2>2, <2>3
  <2> QED BY <2>1, <2>3, <2>4
<1> HIDE DEF L, more, f
<1>5. Cuts(more, f, m + 1, x, A, B)
  <2>1. f[0] = 0
    BY <1>1, <1>3, <1>4
  <2>2. ASSUME NEW t \in 1..(L + 1)
        PROVE  f[t - 1] < f[t] /\ more[t] = Run(x, A, B, f[t - 1], f[t])
    <3>1. CASE t = L + 1
      <4>1. f[t - 1] = m /\ f[t] = m + 1 /\ more[t] = r
        BY <1>1, <1>2, <1>3, <1>4, <3>1
      <4> QED BY <1>1, <4>1
    <3>2. CASE t # L + 1
      <4>1. t \in 1..L /\ t - 1 \in 0..L /\ t \in 0..L
        BY <1>1, <3>2
      <4> QED BY <1>2, <1>3, <1>4, <4>1
    <3> QED BY <3>1, <3>2
  <2> QED BY <1>2, <1>4, <2>1, <2>2 DEF Cuts
<1>6. ASSUME NEW t \in 1..L, NEW k \in 0..m PROVE Under(A, B, f[t - 1], f[t], k)
  <2>1. t - 1 \in 0..L /\ t \in 0..L
    BY <1>1
  <2> QED BY <1>3, <1>4, <2>1
<1>7. ASSUME NEW k \in m..(m + 1) PROVE Under(A, B, m, m + 1, k)
  <2>1. k = m \/ k = m + 1
    BY <1>1
  <2>2. A[m] \in Int /\ B[m] \in Int /\ A[m + 1] \in Int /\ B[m + 1] \in Int
    BY <1>1, PointsAre
  <2>3. A[m] - A[m] = 0 /\ B[m] - B[m] = 0
    BY <2>2
  <2>4. \A h, w \in Int : h * 0 = 0 /\ 0 * w = 0 /\ h * w <= h * w
    OBVIOUS
  <2>5. CASE k = m
    BY <2>2, <2>3, <2>4, <2>5 DEF Under
  <2>6. CASE k = m + 1
    BY <2>2, <2>4, <2>6 DEF Under
  <2> QED BY <2>1, <2>5, <2>6
<1>8. L + 1 >= 1 /\ (L + 1) - 1 = L /\ f[L] = m
  BY <1>1, <1>3, <1>4
<1>9. Taking(more, f, m, x, A, B)
  BY <1>2, <1>5, <1>6, <1>7, <1>8 DEF Taking
<1> QED BY <1>9 DEF more

\* A turn of the loop pools the last two blocks.
LEMMA TakingPools ==
  ASSUME NEW n, NEW A, NEW B, Climbs(A, B, n), NEW x, x \in [1..n -> Int],
         NEW m \in Nat, m < n, NEW blocks, NEW e, Taking(blocks, e, m, x, A, B), Falls(blocks)
  PROVE  /\ \E f : Taking(Pool(blocks), f, m, x, A, B)
         /\ Len(Pool(blocks)) = Len(blocks) - 1
<1> DEFINE L == Len(blocks)
           b == e[L - 2]
           a == e[L - 1]
           z == m + 1
           r == Run(x, A, B, b, z)
           less == Append(SubSeq(blocks, 1, L - 2), r)
           f == [t \in 0..(L - 1) |-> IF t = L - 1 THEN z ELSE e[t]]
<1>1. /\ n \in Nat /\ L \in Nat /\ L >= 2 /\ z \in 0..n /\ blocks \in Seq(BlockSet)
      /\ \A t \in 0..L : e[t] \in 0..n /\ e[t] \in 0..z
      /\ \A s, t \in 0..L : s < t => e[s] < e[t]
      /\ e[0] = 0 /\ e[L] = z
  <2>1. Cuts(blocks, e, z, x, A, B)
    BY DEF Taking
  <2>2. n \in Nat /\ z \in Nat /\ z \in 0..n
    BY DEF Climbs
  <2>3. /\ L \in Nat /\ \A t \in 0..L : e[t] \in 0..z
        /\ \A s, t \in 0..L : s < t => e[s] < e[t]
    BY <2>1, <2>2, CutsAre
  <2>4. L >= 2
    BY DEF Falls
  <2>5. e[0] = 0 /\ e[L] = z /\ blocks \in Seq(BlockSet)
    BY <2>1 DEF Cuts
  <2> HIDE DEF L, z
  <2> QED BY <2>2, <2>3, <2>4, <2>5
<1>2. \A t \in 1..L : blocks[t] = Run(x, A, B, e[t - 1], e[t])
  BY DEF Taking, Cuts
<1>3. /\ \A t \in 1..(L - 1) : \A k \in 0..m : Under(A, B, e[t - 1], e[t], k)
      /\ \A k \in a..z : Under(A, B, a, z, k)
  BY DEF Taking
<1>4. /\ L - 1 \in 0..L /\ L - 2 \in 0..L /\ L \in 0..L /\ L - 1 \in 1..L /\ L \in 1..L
      /\ L - 1 \in 1..(L - 1) /\ (L - 1) - 1 = L - 2
  BY <1>1
<1>5. b \in 0..n /\ a \in 0..n /\ b < a /\ a < z /\ a \in 0..m /\ a + 1 = a + 1
  <2>1. b \in 0..n /\ a \in 0..n /\ b < a /\ a < e[L] /\ a \in 0..z
    BY <1>1, <1>4
  <2> HIDE DEF b, a, L
  <2> QED BY <1>1, <2>1
<1>6. blocks[L - 1] = Run(x, A, B, b, a) /\ blocks[L] = Run(x, A, B, a, z)
  BY <1>1, <1>2, <1>4
<1>7. (A[z] - A[a]) * (B[a] - B[b]) < (A[a] - A[b]) * (B[z] - B[a])
  <2>1. Below(Mean(Run(x, A, B, a, z)), Mean(Run(x, A, B, b, a)))
    BY <1>6 DEF Falls
  <2> HIDE DEF a, b, z
  <2> QED BY <1>1, <1>5, <2>1, MeansCompare
<1>8. Pooled(blocks[L - 1], blocks[L]) = r
  <2>1. A[a] \in Int /\ A[b] \in Int /\ A[z] \in Int /\ B[a] \in Int /\ B[b] \in Int /\ B[z] \in Int
    BY <1>1, <1>5, PointsAre
  <2> HIDE DEF a, b, z, L
  <2>2. /\ (A[a] - A[b]) + (A[z] - A[a]) = A[z] - A[b]
        /\ (B[a] - B[b]) + (B[z] - B[a]) = B[z] - B[b]
    <3> DEFINE p == A[a]
               q == A[b]
               s == A[z]
               i == B[a]
               j == B[b]
               l == B[z]
    <3>1. p \in Int /\ q \in Int /\ s \in Int /\ i \in Int /\ j \in Int /\ l \in Int
      BY <2>1
    <3> HIDE DEF p, q, s, i, j, l
    <3>2. (p - q) + (s - p) = s - q
      BY <3>1
    <3>3. (i - j) + (l - i) = l - j
      BY <3>1
    <3> QED BY <3>2, <3>3 DEF p, q, s, i, j, l
  <2>3. Pooled(Run(x, A, B, b, a), Run(x, A, B, a, z)) = Run(x, A, B, b, z)
    BY <2>2 DEF Pooled, Run
  <2> QED BY <1>6, <2>3
<1>9. Pool(blocks) = less
  BY <1>8 DEF Pool, Falls
<1>10. /\ less \in Seq(BlockSet) /\ Len(less) = L - 1 /\ less[L - 1] = r
       /\ \A t \in 1..(L - 2) : less[t] = blocks[t]
  <2>1. r \in BlockSet
    <3> HIDE DEF a, b, z
    <3>1. b < z
      BY <1>1, <1>5
    <3> QED BY <1>1, <1>5, <3>1, RunIs
  <2> DEFINE front == SubSeq(blocks, 1, L - 2)
  <2>2. /\ front \in Seq(BlockSet) /\ Len(front) = L - 2
        /\ \A t \in 1..(L - 2) : front[t] = blocks[t]
    <3> HIDE DEF L
    <3>1. L - 2 \in Nat /\ L - 2 \in 0..L
      BY <1>1
    <3>3. \A t \in 1..(L - 2) : blocks[t] \in BlockSet
      <4>1. \A t \in 1..L : blocks[t] \in BlockSet
        BY <1>1 DEF L
      <4>2. \A t \in 1..(L - 2) : t \in 1..L
        BY <1>1
      <4> QED BY <4>1, <4>2
    <3>4. 1 \in Int /\ L - 2 \in Int
      BY <3>1
    <3>5. /\ front \in Seq(BlockSet)
          /\ Len(front) = IF 1 <= L - 2 THEN (L - 2) - 1 + 1 ELSE 0
          /\ \A t \in 1..((L - 2) - 1 + 1) : front[t] = blocks[1 + t - 1]
      BY <3>3, <3>4, SubSeqProperties
    <3>6. (L - 2) - 1 + 1 = L - 2 /\ (~(1 <= L - 2) => L - 2 = 0)
          /\ \A t \in 1..(L - 2) : 1 + t - 1 = t
      <4>1. (L - 2) - 1 + 1 = L - 2
        BY <3>1
      <4>2. ~(1 <= L - 2) => L - 2 = 0
        BY <1>1, <3>1
      <4>3. \A t \in Int : 1 + t - 1 = t
        OBVIOUS
      <4> QED BY <4>1, <4>2, <4>3
    <3> HIDE DEF front
    <3>7. Len(front) = L - 2
      BY <3>5, <3>6
    <3> QED BY <3>5, <3>6, <3>7
  <2>3. L - 2 \in Nat /\ (L - 2) + 1 = L - 1
    BY <1>1
  <2>4. less = Append(front, r)
    OBVIOUS
  <2> HIDE DEF front, r, L, less
  <2> QED BY <2>1, <2>2, <2>3, <2>4
<1>11. f \in [0..(L - 1) -> 0..z] /\ f[L - 1] = z /\ \A t \in 0..(L - 2) : f[t] = e[t]
  <2> HIDE DEF L, less, z
  <2>1. \A t \in 0..(L - 2) : t \in 0..(L - 1) /\ t # L - 1 /\ t \in 0..L
    BY <1>1
  <2>2. \A t \in 0..(L - 1) : t \in 0..(L - 2) \/ t = L - 1
    BY <1>1
  <2>3. L - 1 \in 0..(L - 1) /\ z \in 0..z
    BY <1>1
  <2>4. \A t \in 0..(L - 1) : (IF t = L - 1 THEN z ELSE e[t]) \in 0..z
    BY <1>1, <2>1, <2>2, <2>3
  <2> QED BY <2>1, <2>3, <2>4
<1> HIDE DEF L, less, f, r
<1>12. Cuts(less, f, z, x, A, B)
  <2>1. f[0] = 0
    BY <1>1, <1>11
  <2>2. ASSUME NEW t \in 1..(L - 1)
        PROVE  f[t - 1] < f[t] /\ less[t] = Run(x, A, B, f[t - 1], f[t])
    <3>1. CASE t = L - 1
      <4>1. f[t - 1] = b /\ f[t] = z /\ less[t] = r
        <5>1. t - 1 = L - 2 /\ L - 2 \in 0..(L - 2) /\ t = L - 1
          BY <1>1, <3>1
        <5>2. f[L - 2] = b
          BY <1>11, <5>1
        <5> HIDE DEF b, a, z
        <5> QED BY <1>10, <1>11, <5>1, <5>2
      <4>2. b < z
        <5> HIDE DEF b, a, z
        <5> QED BY <1>1, <1>5
      <4> QED BY <4>1, <4>2 DEF r
    <3>2. CASE t # L - 1
      <4>1. t \in 1..(L - 2) /\ t - 1 \in 0..(L - 2) /\ t \in 0..(L - 2)
            /\ t \in 0..L /\ t - 1 \in 0..L /\ t \in 1..L /\ t - 1 < t
        BY <1>1, <3>2
      <4> QED BY <1>1, <1>2, <1>10, <1>11, <4>1
    <3> QED BY <3>1, <3>2
  <2> QED BY <1>10, <1>11, <2>1, <2>2 DEF Cuts
<1>13. ASSUME NEW t \in 1..((L - 1) - 1), NEW k \in 0..m PROVE Under(A, B, f[t - 1], f[t], k)
  <2>1. t - 1 \in 0..(L - 2) /\ t \in 0..(L - 2) /\ t \in 1..(L - 1)
    BY <1>1
  <2> QED BY <1>3, <1>11, <2>1
<1>14. ASSUME NEW k \in b..z PROVE Under(A, B, b, z, k)
  <2>1. Under(A, B, b, a, k) \/ k > a
    <3>1. \A i \in 0..m : Under(A, B, b, a, i)
      BY <1>3, <1>4
    <3> HIDE DEF b, a
    <3>2. k <= a => k \in 0..m
      BY <1>5
    <3> QED BY <1>5, <3>1, <3>2
  <2>2. k >= a => Under(A, B, a, z, k)
    <3>1. k >= a => k \in a..z
      <4> HIDE DEF b, a, z
      <4> QED BY <1>5
    <3> QED BY <1>3, <3>1
  <2>3. (A[z] - A[a]) * (B[a] - B[b]) <= (A[a] - A[b]) * (B[z] - B[a])
    <3>1. (A[z] - A[a]) * (B[a] - B[b]) \in Int /\ (A[a] - A[b]) * (B[z] - B[a]) \in Int
      <4>1. A[a] \in Int /\ A[b] \in Int /\ A[z] \in Int
        BY <1>1, <1>5, PointsAre
      <4>2. B[a] - B[b] \in Nat /\ B[z] - B[a] \in Nat
        BY <1>1, <1>5, PointsAre
      <4> HIDE DEF b, a, z
      <4>3. A[z] - A[a] \in Int /\ A[a] - A[b] \in Int
        BY <4>1
      <4>4. \A i, j \in Int : i * j \in Int
        OBVIOUS
      <4> QED BY <4>2, <4>3, <4>4
    <3> DEFINE left == (A[z] - A[a]) * (B[a] - B[b])
               right == (A[a] - A[b]) * (B[z] - B[a])
    <3>2. left \in Int /\ right \in Int /\ left < right
      BY <1>7, <3>1
    <3>3. left <= right
      <4> HIDE DEF left, right
      <4> QED BY <3>2
    <3> QED BY <3>3
  <2>4. k <= a => Under(A, B, b, a, k)
    <3> HIDE DEF b, a, z
    <3> QED BY <1>5, <2>1
  <2> HIDE DEF b, a, z
  <2> QED BY <1>1, <1>5, <2>2, <2>3, <2>4, PooledIsUnder
<1>15. L - 1 >= 1 /\ f[(L - 1) - 1] = b
  <2>1. L - 2 \in 0..(L - 2)
    BY <1>1
  <2> QED BY <1>1, <1>4, <1>11, <2>1
<1>16. Taking(less, f, m, x, A, B)
  <2> HIDE DEF b, a
  <2> QED BY <1>10, <1>12, <1>13, <1>14, <1>15 DEF Taking
<1> QED BY <1>9, <1>10, <1>16 DEF L

\* A loop that stops leaves no point below a line.
LEMMA TakingSettles ==
  ASSUME NEW n, NEW A, NEW B, Climbs(A, B, n), NEW x, x \in [1..n -> Int],
         NEW m \in Nat, m < n, NEW blocks, NEW e, Taking(blocks, e, m, x, A, B), ~Falls(blocks)
  PROVE  Held(blocks, e, m + 1, x, A, B)
<1> DEFINE L == Len(blocks)
           b == e[L - 2]
           a == e[L - 1]
           z == m + 1
<1>1. /\ n \in Nat /\ L \in Nat /\ L >= 1 /\ z \in 0..n /\ blocks \in Seq(BlockSet)
      /\ \A t \in 0..L : e[t] \in 0..n /\ e[t] \in 0..z
      /\ \A s, t \in 0..L : s < t => e[s] < e[t]
      /\ e[0] = 0 /\ e[L] = z
  <2>1. Cuts(blocks, e, z, x, A, B) /\ L >= 1
    BY DEF Taking
  <2>2. n \in Nat /\ z \in Nat /\ z \in 0..n
    BY DEF Climbs
  <2>3. /\ L \in Nat /\ \A t \in 0..L : e[t] \in 0..z
        /\ \A s, t \in 0..L : s < t => e[s] < e[t]
    BY <2>1, <2>2, CutsAre
  <2>5. e[0] = 0 /\ e[L] = z /\ blocks \in Seq(BlockSet)
    BY <2>1 DEF Cuts
  <2> HIDE DEF L, z
  <2> QED BY <2>1, <2>2, <2>3, <2>5
<1>2. \A t \in 1..L : blocks[t] = Run(x, A, B, e[t - 1], e[t])
  BY DEF Taking, Cuts
<1>3. /\ \A t \in 1..(L - 1) : \A k \in 0..m : Under(A, B, e[t - 1], e[t], k)
      /\ \A k \in a..z : Under(A, B, a, z, k)
  BY DEF Taking
<1>4. a \in 0..n /\ a \in 0..m /\ a < z /\ L - 1 \in 0..L /\ L \in 0..L
  <2>1. L - 1 \in 0..L /\ L \in 0..L
    BY <1>1
  <2>2. a \in 0..n /\ a \in 0..z /\ a < e[L]
    BY <1>1, <2>1
  <2> HIDE DEF a, L
  <2> QED BY <1>1, <2>1, <2>2
<1>5. ASSUME NEW k \in 0..z PROVE Under(A, B, a, z, k)
  <2>1. CASE k >= a
    <3>1. k \in a..z
      <4> HIDE DEF a, z
      <4> QED BY <1>4, <2>1
    <3> QED BY <1>3, <3>1
  <2>2. CASE ~(k >= a)
    <3>1. k \in 0..n /\ k <= a /\ k \in 0..m /\ 0 < a
      <4> HIDE DEF a, z
      <4> QED BY <1>1, <1>4, <2>2
    <3>2. L >= 2 /\ L - 2 \in 0..L /\ L - 1 \in 1..(L - 1) /\ L - 1 \in 1..L
          /\ (L - 1) - 1 = L - 2 /\ L - 2 < L - 1 /\ L \in 1..L
      BY <1>1, <3>1
    <3>3. b \in 0..n /\ b < a
      BY <1>1, <1>4, <3>2
    <3>4. blocks[L - 1] = Run(x, A, B, b, a) /\ blocks[L] = Run(x, A, B, a, z)
      BY <1>1, <1>2, <3>2
    <3>5. ~Below(Mean(Run(x, A, B, a, z)), Mean(Run(x, A, B, b, a)))
      BY <3>2, <3>4 DEF Falls
    <3>6. Under(A, B, b, a, k)
      BY <1>3, <3>1, <3>2
    <3> HIDE DEF a, b, z, L
    <3>7. ~((A[z] - A[a]) * (B[a] - B[b]) < (A[a] - A[b]) * (B[z] - B[a]))
      BY <1>1, <1>4, <3>3, <3>5, MeansCompare
    <3>8. Under(A, B, b, a, z)
      <4> DEFINE h == A[a] - A[b]
                 w == B[a] - B[b]
                 g == A[z] - A[a]
                 u == B[z] - B[a]
      <4>1. /\ A[a] \in Int /\ A[b] \in Int /\ A[z] \in Int
            /\ B[a] \in Int /\ B[b] \in Int /\ B[z] \in Int
        BY <1>1, <1>4, <3>3, PointsAre
      <4>2. /\ h \in Int /\ w \in Int /\ g \in Int /\ u \in Int
            /\ A[z] - A[b] = h + g /\ B[z] - B[b] = w + u
        <5> DEFINE p == A[a]
                   q == A[b]
                   r == A[z]
                   i == B[a]
                   j == B[b]
                   l == B[z]
        <5>1. p \in Int /\ q \in Int /\ r \in Int /\ i \in Int /\ j \in Int /\ l \in Int
          BY <4>1
        <5>2. h = p - q /\ w = i - j /\ g = r - p /\ u = l - i
          OBVIOUS
        <5> HIDE DEF h, w, g, u, p, q, r, i, j, l
        <5>3. h \in Int /\ g \in Int /\ r - q = h + g
          BY <5>1, <5>2
        <5>4. w \in Int /\ u \in Int /\ l - j = w + u
          BY <5>1, <5>2
        <5> QED BY <5>3, <5>4 DEF q, r, j, l
      <4>3. Under(A, B, b, a, z) <=> h * (w + u) <= (h + g) * w
        <5>1. Under(A, B, b, a, z) <=> h * (B[z] - B[b]) <= (A[z] - A[b]) * w
          BY DEF Under
        <5> HIDE DEF h, w, g, u
        <5> QED BY <4>2, <5>1
      <4>4. ~(g * w < h * u)
        BY <3>7
      <4> HIDE DEF h, w, g, u
      <4>5. /\ \A i, j, l \in Int : i * (j + l) = i * j + i * l /\ (i + j) * l = i * l + j * l
            /\ \A i, j \in Int : i * j \in Int
        BY Z3
      <4>6. h * (w + u) = h * w + h * u /\ (h + g) * w = h * w + g * w
            /\ h * w \in Int /\ h * u \in Int /\ g * w \in Int
        BY <4>2, <4>5
      <4> QED BY <4>3, <4>4, <4>6
    <3> QED BY <1>1, <1>4, <3>1, <3>3, <3>6, <3>8, BendsUp
  <2> QED BY <2>1, <2>2
<1>6. ASSUME NEW t \in 1..L, NEW k \in 0..z PROVE Under(A, B, e[t - 1], e[t], k)
  <2>1. CASE t = L
    BY <1>1, <1>5, <2>1
  <2>2. CASE t # L
    <3>1. t \in 1..(L - 1) /\ t - 1 \in 0..L /\ t \in 0..L /\ t - 1 < t /\ (t < L - 1 \/ t = L - 1)
      BY <1>1, <2>2
    <3>2. \A i \in 0..m : Under(A, B, e[t - 1], e[t], i)
      BY <1>3, <3>1
    <3>3. CASE k = z
      <4> DEFINE p == e[t - 1]
                 q == e[t]
      <4>1. p \in 0..n /\ q \in 0..n /\ p < q
        BY <1>1, <3>1
      <4>2. q <= a
        <5>1. t < L - 1 => q < a
          BY <1>1, <1>4, <3>1
        <5>2. t = L - 1 => q = a
          OBVIOUS
        <5> HIDE DEF a, q
        <5> QED BY <1>4, <3>1, <4>1, <5>1, <5>2
      <4>3. Under(A, B, p, q, a)
        BY <1>4, <3>2
      <4> HIDE DEF p, q, a, z, L
      <4>4. p \in 0..z
        BY <1>1, <1>4, <4>1, <4>2
      <4>5. Under(A, B, a, z, p)
        BY <1>5, <4>4
      <4>6. Under(A, B, p, q, z)
        BY <1>1, <1>4, <4>1, <4>2, <4>3, <4>5, StaysAbove
      <4> QED BY <3>3, <4>6 DEF p, q
    <3>4. CASE k # z
      <4>1. k \in 0..m
        BY <3>4
      <4> QED BY <3>2, <4>1
    <3> QED BY <3>3, <3>4
  <2> QED BY <2>1, <2>2
<1>7. Cuts(blocks, e, z, x, A, B)
  BY DEF Taking
<1> HIDE DEF z
<1>8. Held(blocks, e, z, x, A, B)
  BY <1>6, <1>7 DEF Held
<1> QED BY <1>8 DEF z

\* The loop's turns are blocks.
LEMMA PoolIs ==
  ASSUME NEW blocks \in Seq(BlockSet)
  PROVE  Pool(blocks) \in Seq(BlockSet)
<1> DEFINE n == Len(blocks)
<1>1. CASE n >= 2 /\ Below(Mean(blocks[n]), Mean(blocks[n - 1]))
  <2>1. n \in Nat /\ n - 1 \in 1..n /\ n \in 1..n /\ 1 \in Int /\ n - 2 \in Int
    BY <1>1
  <2>2. blocks[n - 1] \in BlockSet /\ blocks[n] \in BlockSet
    BY <2>1
  <2>3. Pooled(blocks[n - 1], blocks[n]) \in BlockSet
    <3> HIDE DEF n
    <3>1. ASSUME NEW p \in BlockSet, NEW q \in BlockSet PROVE Pooled(p, q) \in BlockSet
      BY DEF Pooled, BlockSet
    <3> QED BY <2>2, <3>1
  <2>4. \A i \in 1..(n - 2) : i \in 1..n
    BY <2>1
  <2>5. \A i \in 1..(n - 2) : blocks[i] \in BlockSet
    BY <2>4
  <2>6. SubSeq(blocks, 1, n - 2) \in Seq(BlockSet)
    <3> HIDE DEF n
    <3> QED BY <2>1, <2>5, SubSeqProperties
  <2>7. Pool(blocks) = Append(SubSeq(blocks, 1, n - 2), Pooled(blocks[n - 1], blocks[n]))
    BY <1>1 DEF Pool
  <2> HIDE DEF n
  <2> QED BY <2>3, <2>6, <2>7
<1>2. CASE ~(n >= 2 /\ Below(Mean(blocks[n]), Mean(blocks[n - 1])))
  BY <1>2 DEF Pool
<1> QED BY <1>1, <1>2

\* What Push returns is the last turn of the loop.
LEMMA PushTurns ==
  ASSUME NEW blocks \in Seq(BlockSet), NEW block \in BlockSet
  PROVE  \E turns : /\ turns[0] = Append(blocks, block)
                    /\ \A k \in 1..Len(blocks) : turns[k] = Pool(turns[k - 1])
                    /\ Push(blocks, block) = turns[Len(blocks)]
                    /\ Push(blocks, block) \in Seq(BlockSet)
<1> DEFINE n == Len(blocks)
           z == Append(blocks, block)
           V == Seq(BlockSet)
           Turns(f) == f = [k \in 0..n |-> IF k = 0 THEN z ELSE Pool(f[k - 1])]
           h == [t \in Nat \X V |-> Pool(t[2])]
           turns == CHOOSE f : Turns(f)
<1>1. n \in Nat /\ z \in V
  OBVIOUS
<1>2. h \in [Nat \X V -> V] /\ \A k \in Nat : \A s \in V : h[<<k, s>>] = Pool(s)
  BY PoolIs
<1> HIDE DEF h, V, z
<1>3. \E f : f \in [0..n -> V] /\ Turns(f)
  <2>1. PICK g \in [Nat -> V] : StepsUp(g, z, h)
    BY <1>1, <1>2, RecursionExists
  <2>2. \A k \in Nat : g[k] = IF k = 0 THEN z ELSE h[<<k, g[k - 1]>>]
    BY <2>1 DEF StepsUp
  <2> DEFINE f == [k \in 0..n |-> g[k]]
  <2>3. \A k \in 0..n : f[k] = IF k = 0 THEN z ELSE Pool(f[k - 1])
    <3> TAKE k \in 0..n
    <3>1. k \in Nat /\ f[k] = g[k]
      BY <1>1
    <3>2. CASE k = 0
      BY <2>2, <3>1, <3>2
    <3>3. CASE k # 0
      <4>1. k - 1 \in 0..n /\ k - 1 \in Nat
        BY <1>1, <3>1, <3>3
      <4>2. f[k - 1] = g[k - 1] /\ g[k - 1] \in V
        BY <4>1
      <4> QED BY <1>2, <2>2, <3>1, <3>3, <4>2
    <3> QED BY <3>2, <3>3
  <2>4. f \in [0..n -> V] /\ f = [k \in 0..n |-> f[k]]
    BY <1>1
  <2> HIDE DEF f
  <2>5. Turns(f)
    BY <2>3, <2>4
  <2> QED BY <2>4, <2>5
<1>4. Turns(turns)
  <2> HIDE DEF Turns
  <2> QED BY <1>3
<1>5. Push(blocks, block) = turns[n]
  BY DEF Push, z
<1> HIDE DEF turns
<1>6. turns[0] = z /\ \A k \in 1..n : turns[k] = Pool(turns[k - 1])
  <2>1. \A k \in 0..n : turns[k] = IF k = 0 THEN z ELSE Pool(turns[k - 1])
    BY <1>4
  <2>2. 0 \in 0..n /\ \A k \in 1..n : k \in 0..n /\ k # 0
    BY <1>1
  <2> QED BY <2>1, <2>2
<1>7. turns[n] \in V
  <2> DEFINE P == {k \in Nat : k <= n => turns[k] \in V}
  <2>1. 0 \in P
    BY <1>1, <1>6
  <2>2. ASSUME NEW k \in Nat, k \in P PROVE k + 1 \in P
    <3>1. k + 1 <= n => turns[k] \in V /\ turns[k + 1] = Pool(turns[k])
      <4>1. k + 1 <= n => k <= n /\ k + 1 \in 1..n /\ (k + 1) - 1 = k
        BY <1>1
      <4> QED BY <1>6, <2>2, <4>1
    <3> QED BY <3>1, PoolIs DEF V
  <2>3. Nat \subseteq P
    <3> HIDE DEF P
    <3> QED BY <2>1, <2>2, UpwardInduction
  <2> QED BY <1>1, <2>3
<1> QED BY <1>5, <1>6, <1>7 DEF z, V

\* Push keeps what holds of the blocks, with one score more.
LEMMA PushHolds ==
  ASSUME NEW n, NEW A, NEW B, Climbs(A, B, n), NEW x, x \in [1..n -> Int],
         NEW m \in Nat, m < n, NEW blocks, NEW e, Held(blocks, e, m, x, A, B)
  PROVE  \E f : Held(Push(blocks, Run(x, A, B, m, m + 1)), f, m + 1, x, A, B)
<1> DEFINE L == Len(blocks)
           block == Run(x, A, B, m, m + 1)
<1>1. n \in Nat /\ m + 1 \in Nat /\ m \in 0..n /\ m + 1 \in 0..n /\ m < m + 1
  BY DEF Climbs
<1>2. L \in Nat /\ blocks \in Seq(BlockSet)
  BY DEF Held, Cuts
<1>3. block \in BlockSet
  <2>1. \A i \in 0..n : m < i => Run(x, A, B, m, i) \in BlockSet
    BY <1>1, RunIs
  <2> QED BY <1>1, <2>1
<1> HIDE DEF block
<1>4. PICK turns : /\ turns[0] = Append(blocks, block)
                   /\ \A k \in 1..L : turns[k] = Pool(turns[k - 1])
                   /\ Push(blocks, block) = turns[L]
  BY <1>2, <1>3, PushTurns
<1> DEFINE P == {k \in Nat : k <= L => \E f : /\ Taking(turns[k], f, m, x, A, B)
                                              /\ Len(turns[k]) + k <= L + 1 \/ ~Falls(turns[k])}
<1>5. 0 \in P
  <2>1. \E f : Taking(turns[0], f, m, x, A, B)
    BY <1>4, TakingBegins DEF block
  <2>2. Len(turns[0]) + 0 <= L + 1
    BY <1>2, <1>3, <1>4
  <2> HIDE DEF L
  <2> QED BY <2>1, <2>2
<1>6. ASSUME NEW k \in Nat, k \in P PROVE k + 1 \in P
  <2> SUFFICES ASSUME k + 1 <= L
               PROVE  \E f : /\ Taking(turns[k + 1], f, m, x, A, B)
                             /\ Len(turns[k + 1]) + (k + 1) <= L + 1 \/ ~Falls(turns[k + 1])
    <3>1. k + 1 \in Nat
      OBVIOUS
    <3> QED BY <3>1
  <2>1. k <= L /\ k + 1 \in 1..L /\ (k + 1) - 1 = k
    BY <1>2
  <2>2. turns[k + 1] = Pool(turns[k])
    BY <1>4, <2>1
  <2>3. PICK f : /\ Taking(turns[k], f, m, x, A, B)
                 /\ Len(turns[k]) + k <= L + 1 \/ ~Falls(turns[k])
    BY <1>6, <2>1
  <2>4. CASE Falls(turns[k])
    <3>1. /\ \E g : Taking(Pool(turns[k]), g, m, x, A, B)
          /\ Len(Pool(turns[k])) = Len(turns[k]) - 1
      BY <2>3, <2>4, TakingPools
    <3>2. Len(turns[k]) \in Nat
      BY <2>3 DEF Taking, Cuts
    <3>3. Len(turns[k + 1]) + (k + 1) <= L + 1
      <4>1. Len(turns[k]) + k <= L + 1
        BY <2>3, <2>4
      <4>2. Len(turns[k + 1]) = Len(turns[k]) - 1
        BY <2>2, <3>1
      <4>3. (Len(turns[k]) - 1) + (k + 1) <= L + 1
        <5> DEFINE i == Len(turns[k])
        <5>1. i \in Nat /\ i + k <= L + 1
          BY <3>2, <4>1
        <5>2. (i - 1) + (k + 1) <= L + 1
          <6> HIDE DEF i, L, P
          <6> QED BY <1>2, <5>1
        <5> QED BY <5>2
      <4> QED BY <4>2, <4>3
    <3> QED BY <2>2, <3>1, <3>3
  <2>5. CASE ~Falls(turns[k])
    <3>1. Pool(turns[k]) = turns[k]
      BY <2>5 DEF Pool, Falls
    <3> QED BY <2>2, <2>3, <2>5, <3>1
  <2> QED BY <2>4, <2>5
<1>7. PICK f : /\ Taking(turns[L], f, m, x, A, B)
               /\ Len(turns[L]) + L <= L + 1 \/ ~Falls(turns[L])
  <2>1. Nat \subseteq P
    <3> HIDE DEF P
    <3> QED BY <1>5, <1>6, UpwardInduction
  <2>2. L \in P /\ L <= L
    BY <1>2, <2>1
  <2> QED BY <2>2
<1>8. ~Falls(turns[L])
  <2>1. Len(turns[L]) \in Nat
    BY <1>7 DEF Taking, Cuts
  <2>2. Falls(turns[L]) => Len(turns[L]) >= 2
    BY DEF Falls
  <2> HIDE DEF L
  <2> QED BY <1>2, <1>7, <2>1, <2>2
<1>9. Held(turns[L], f, m + 1, x, A, B)
  BY <1>7, <1>8, TakingSettles
<1> QED BY <1>4, <1>9 DEF block

\* Sums over disjoint sets.
LEMMA SumOfTwo ==
  ASSUME NEW S, IsFiniteSet(S), NEW T, IsFiniteSet(T), S \cap T = {}, NEW v,
         \A i \in S \cup T : v[i] \in Int
  PROVE  /\ SumOf(v, S \cup T) = SumOf(v, S) + SumOf(v, T)
         /\ SumOf(v, S) \in Int /\ SumOf(v, T) \in Int
<1> DEFINE P == {t \in SUBSET T : SumOf(v, S \cup t) = SumOf(v, S) + SumOf(v, t)}
<1>1. SumOf(v, S) \in Int /\ SumOf(v, T) \in Int
  BY SumOfInts
<1>2. {} \in P
  <2>1. S \cup {} = S /\ SumOf(v, {}) = 0
    BY SumOfNone
  <2>2. SumOf(v, S \cup {}) = SumOf(v, S) + SumOf(v, {})
    BY <1>1, <2>1
  <2> QED BY <2>2
<1>3. ASSUME NEW t \in SUBSET T, NEW i \in T \ t, t \in P PROVE t \cup {i} \in P
  <2>1. IsFiniteSet(t) /\ IsFiniteSet(S \cup t) /\ i \notin S \cup t
    BY FS_Subset, FS_Union
  <2>2. S \cup (t \cup {i}) = (S \cup t) \cup {i}
    OBVIOUS
  <2>3. /\ SumOf(v, S \cup t) \in Int
        /\ SumOf(v, (S \cup t) \cup {i}) = v[i] + SumOf(v, S \cup t)
    BY <2>1, SumOfMore
  <2>4. SumOf(v, t) \in Int /\ SumOf(v, t \cup {i}) = v[i] + SumOf(v, t)
    BY <2>1, SumOfMore
  <2>5. SumOf(v, S \cup t) = SumOf(v, S) + SumOf(v, t) /\ v[i] \in Int
    BY <1>3
  <2>6. SumOf(v, S \cup (t \cup {i})) = SumOf(v, S) + SumOf(v, t \cup {i})
    <3>1. \A a, b, p \in Int : p + (a + b) = a + (p + b)
      OBVIOUS
    <3>2. v[i] + (SumOf(v, S) + SumOf(v, t)) = SumOf(v, S) + (v[i] + SumOf(v, t))
      BY <1>1, <2>4, <2>5, <3>1
    <3> QED BY <2>2, <2>3, <2>4, <2>5, <3>2
  <2> QED BY <2>6
<1>4. T \in P
  <2> HIDE DEF P
  <2> QED BY <1>2, <1>3, GrowingSets
<1> QED BY <1>1, <1>4

-----------------------------------------------------------------------------
(* Calibration: the rows and the positives up to each score.                *)

IsSample(s) ==
  /\ IsFiniteSet(DOMAIN s)
  /\ \A i \in DOMAIN s : s[i].score \in Int /\ s[i].label \in BOOLEAN /\ s[i].weight \in Nat \ {0}

Sorted(s) == Ascending(Scores(s))
Steps(s) == Cardinality(Scores(s))
Upto(s, k) == {i \in DOMAIN s : \E j \in 1..k : s[i].score <= Sorted(s)[j]}
From(s, j, k) == {i \in DOMAIN s : Sorted(s)[j] <= s[i].score /\ s[i].score <= Sorted(s)[k]}
RowWeight(s) == [i \in DOMAIN s |-> s[i].weight]
HarmWeight(s) == [i \in DOMAIN s |-> IF s[i].label THEN s[i].weight ELSE 0]
WeightUpto(s) == [k \in 0..Steps(s) |-> SumOf(RowWeight(s), Upto(s, k))]
HarmUpto(s) == [k \in 0..Steps(s) |-> SumOf(HarmWeight(s), Upto(s, k))]

\* The scores of a sample, the lowest first.
LEMMA SortedIs ==
  ASSUME NEW s, IsSample(s)
  PROVE  /\ Steps(s) \in Nat /\ Sorted(s) \in [1..Steps(s) -> Int]
         /\ \A i \in DOMAIN s : \E k \in 1..Steps(s) : s[i].score = Sorted(s)[k]
         /\ \A k \in 1..Steps(s) : \E i \in DOMAIN s : s[i].score = Sorted(s)[k]
         /\ \A j, k \in 1..Steps(s) : /\ j < k <=> Sorted(s)[j] < Sorted(s)[k]
                                      /\ j <= k <=> Sorted(s)[j] <= Sorted(s)[k]
                                      /\ j = k <=> Sorted(s)[j] = Sorted(s)[k]
<1> DEFINE S == Scores(s)
           x == Ascending(S)
           n == Cardinality(S)
<1>1. S \in SUBSET Int
  BY DEF Scores, IsSample
<1>2. IsFiniteSet(S)
  <2>1. IsFiniteSet(DOMAIN s)
    BY DEF IsSample
  <2> DEFINE f == [i \in DOMAIN s |-> s[i].score]
  <2>2. f \in [DOMAIN s -> S] /\ \A t \in S : \E i \in DOMAIN s : f[i] = t
    BY DEF Scores
  <2> HIDE DEF f, S
  <2> QED BY <2>1, <2>2, ImageIsFinite
<1>3. /\ n \in Nat /\ x \in [1..n -> S] /\ \A t \in S : \E i \in 1..n : x[i] = t
      /\ \A i, j \in 1..n : i < j <=> x[i] < x[j]
  <2> HIDE DEF S
  <2> QED BY <1>1, <1>2, AscendingIs
<1>4. \A i \in DOMAIN s : s[i].score \in S
  BY DEF Scores
<1>5. \A k \in 1..n : \E i \in DOMAIN s : s[i].score = x[k]
  <2> TAKE k \in 1..n
  <2>1. x[k] \in S
    BY <1>3
  <2> HIDE DEF x
  <2> QED BY <2>1 DEF Scores
<1> HIDE DEF S, x, n
<1>6. x \in [1..n -> Int]
  BY <1>1, <1>3
<1>7. \A j, k \in 1..n : (j <= k <=> x[j] <= x[k]) /\ (j = k <=> x[j] = x[k])
  <2> TAKE j, k \in 1..n
  <2>1. x[j] \in Int /\ x[k] \in Int
    BY <1>6
  <2>2. (j < k <=> x[j] < x[k]) /\ (k < j <=> x[k] < x[j])
    BY <1>3
  <2> QED BY <1>3, <2>1, <2>2
<1>8. \A i \in DOMAIN s : \E k \in 1..n : s[i].score = x[k]
  BY <1>3, <1>4
<1> QED BY <1>3, <1>5, <1>6, <1>7, <1>8 DEF Sorted, Steps, S, x, n

\* The model's folds are sums.
LEMMA WeightsAre ==
  ASSUME NEW s, IsSample(s), NEW is, is \in SUBSET (DOMAIN s)
  PROVE  /\ Weight(s, is) = SumOf(RowWeight(s), is)
         /\ Positives(s, is) = SumOf(HarmWeight(s), is)
<1> DEFINE w(i) == s[i].weight
           h(i) == IF s[i].label THEN s[i].weight ELSE 0
           WAdds(g) == g = [q \in SUBSET is |-> IF q = {} THEN 0
             ELSE w(CHOOSE x \in q : TRUE) + g[q \ {CHOOSE x \in q : TRUE}]]
           HAdds(g) == g = [q \in SUBSET is |-> IF q = {} THEN 0
             ELSE h(CHOOSE x \in q : TRUE) + g[q \ {CHOOSE x \in q : TRUE}]]
<1>1. \A q \in SUBSET is : q # {} => Some(q) \in DOMAIN s
  BY DEF Some
<1>2. Weight(s, is) = SumOf(RowWeight(s), is)
  <2> DEFINE v == RowWeight(s)
  <2>1. \A g : SumsUp(g, v, is) <=> WAdds(g)
    <3>1. \A q \in SUBSET is : q # {} => v[Some(q)] = w(Some(q))
      BY <1>1 DEF RowWeight
    <3> HIDE DEF v
    <3> QED BY <3>1 DEF SumsUp, Some
  <2> DEFINE G == CHOOSE g : WAdds(g)
  <2>2. Weight(s, is) = G[is]
    BY DEF Weight, MapThenSumSet, MapThenFoldSet
  <2>3. G = (CHOOSE g : SumsUp(g, v, is))
    <3> HIDE DEF WAdds, v
    <3> QED BY <2>1 DEF G
  <2> HIDE DEF G
  <2> QED BY <2>2, <2>3 DEF SumOf
<1>3. Positives(s, is) = SumOf(HarmWeight(s), is)
  <2> DEFINE v == HarmWeight(s)
  <2>1. \A g : SumsUp(g, v, is) <=> HAdds(g)
    <3>1. \A q \in SUBSET is : q # {} => v[Some(q)] = h(Some(q))
      BY <1>1 DEF HarmWeight
    <3> HIDE DEF v
    <3> QED BY <3>1 DEF SumsUp, Some
  <2> DEFINE G == CHOOSE g : HAdds(g)
  <2>2. Positives(s, is) = G[is]
    BY DEF Positives, MapThenSumSet, MapThenFoldSet
  <2>3. G = (CHOOSE g : SumsUp(g, v, is))
    <3> HIDE DEF HAdds, v
    <3> QED BY <2>1 DEF G
  <2> HIDE DEF G
  <2> QED BY <2>2, <2>3 DEF SumOf
<1> QED BY <1>2, <1>3

\* What the rows between two scores weigh.
LEMMA FromIs ==
  ASSUME NEW s, IsSample(s), NEW k \in 1..Steps(s), NEW j \in 1..k
  PROVE  /\ Weight(s, From(s, j, k)) = WeightUpto(s)[k] - WeightUpto(s)[j - 1]
         /\ Positives(s, From(s, j, k)) = HarmUpto(s)[k] - HarmUpto(s)[j - 1]
         /\ WeightUpto(s)[j - 1] \in Int /\ HarmUpto(s)[j - 1] \in Int
         /\ WeightUpto(s)[k] \in Int /\ HarmUpto(s)[k] \in Int
         /\ WeightUpto(s)[k] - WeightUpto(s)[j - 1] > 0
<1> DEFINE n == Steps(s)
           x == Sorted(s)
           low == Upto(s, j - 1)
           in == From(s, j, k)
           all == Upto(s, k)
<1>1. /\ n \in Nat /\ x \in [1..n -> Int]
      /\ \A i \in DOMAIN s : \E l \in 1..n : s[i].score = x[l]
      /\ \A l \in 1..n : \E i \in DOMAIN s : s[i].score = x[l]
      /\ \A i, l \in 1..n : i <= l <=> x[i] <= x[l]
  BY SortedIs
<1>2. j \in 1..n /\ k \in 1..n /\ j - 1 \in 0..n /\ k \in 0..n /\ j <= k
      /\ \A i \in 1..(j - 1) : i \in 1..n /\ i \in 1..k /\ i < j
  BY <1>1
<1>3. /\ \A i \in 1..n : x[i] \in Int
      /\ \A i \in DOMAIN s : s[i].score \in Int
  BY <1>1 DEF IsSample
<1> HIDE DEF n, x
<1>4. low \cap in = {}
  <2> SUFFICES ASSUME NEW i \in low, i \in in PROVE FALSE
    OBVIOUS
  <2>0. i \in DOMAIN s
    BY DEF Upto
  <2>1. PICK l \in 1..(j - 1) : s[i].score <= x[l]
    BY DEF Upto, x
  <2>2. x[j] <= s[i].score
    BY DEF From, x
  <2>3. l \in 1..n /\ l < j /\ x[l] \in Int /\ x[j] \in Int /\ s[i].score \in Int
    BY <1>2, <1>3, <2>0
  <2>4. x[j] <= x[l]
    BY <2>1, <2>2, <2>3
  <2>5. j <= l
    BY <1>1, <1>2, <2>3, <2>4
  <2> QED BY <1>2, <2>3, <2>5
<1>5. low \cup in = all
  <2>1. ASSUME NEW i \in low PROVE i \in all
    BY <1>2 DEF Upto
  <2>2. ASSUME NEW i \in in PROVE i \in all
    <3>1. i \in DOMAIN s /\ s[i].score <= x[k] /\ k \in 1..k
      BY <1>2 DEF From, x
    <3> QED BY <3>1 DEF Upto, x
  <2>3. ASSUME NEW i \in all, i \notin low PROVE i \in in
    <3>1. i \in DOMAIN s
      BY DEF Upto
    <3>2. PICK l \in 1..k : s[i].score <= x[l]
      BY DEF Upto, x
    <3>3. PICK m \in 1..n : s[i].score = x[m]
      BY <1>1, <3>1
    <3>4. ~(m <= j - 1)
      <4>1. m <= j - 1 => m \in 1..(j - 1) /\ s[i].score <= x[m]
        BY <1>2, <1>3, <3>3
      <4> QED BY <2>3, <3>1, <4>1 DEF Upto, x
    <3>5. l \in 1..n /\ l <= k /\ j <= m
      BY <1>1, <1>2, <3>4
    <3>6. x[j] <= x[m] /\ x[l] <= x[k]
      BY <1>1, <1>2, <3>5
    <3>7. x[j] <= s[i].score /\ s[i].score <= x[k]
      BY <1>2, <1>3, <3>1, <3>2, <3>3, <3>5, <3>6
    <3> QED BY <3>1, <3>7 DEF From, x
  <2> HIDE DEF low, in, all
  <2> QED BY <2>1, <2>2, <2>3
<1>6. low \in SUBSET (DOMAIN s) /\ in \in SUBSET (DOMAIN s) /\ all \in SUBSET (DOMAIN s)
  BY DEF Upto, From
<1>7. \E i \in DOMAIN s : i \in in
  <2>1. PICK i \in DOMAIN s : s[i].score = x[j]
    BY <1>1, <1>2
  <2>2. x[j] <= s[i].score /\ s[i].score <= x[k]
    <3>1. x[j] <= x[k] /\ x[j] \in Int /\ x[k] \in Int
      BY <1>1, <1>2, <1>3
    <3> QED BY <2>1, <3>1
  <2> QED BY <2>2 DEF From, x
<1> HIDE DEF low, in, all
<1>8. IsFiniteSet(low) /\ IsFiniteSet(in) /\ IsFiniteSet(all)
  <2>1. IsFiniteSet(DOMAIN s)
    BY DEF IsSample
  <2> QED BY <1>6, <2>1, FS_Subset
<1> DEFINE w == RowWeight(s)
           h == HarmWeight(s)
<1>9. \A i \in DOMAIN s : w[i] \in Nat \ {0} /\ h[i] \in Nat
  BY DEF IsSample, RowWeight, HarmWeight
<1> HIDE DEF w, h
<1>10. /\ SumOf(w, all) = SumOf(w, low) + SumOf(w, in)
       /\ SumOf(w, low) \in Int /\ SumOf(w, in) \in Int
  <2>1. \A i \in low \cup in : w[i] \in Int
    BY <1>6, <1>9
  <2> QED BY <1>4, <1>5, <1>8, <2>1, SumOfTwo
<1>11. /\ SumOf(h, all) = SumOf(h, low) + SumOf(h, in)
       /\ SumOf(h, low) \in Int /\ SumOf(h, in) \in Int
  <2>1. \A i \in low \cup in : h[i] \in Int
    BY <1>6, <1>9
  <2> QED BY <1>4, <1>5, <1>8, <2>1, SumOfTwo
<1>12. SumOf(w, in) > 0
  <2>1. PICK i \in DOMAIN s : i \in in
    BY <1>7
  <2> DEFINE rest == in \ {i}
  <2>2. IsFiniteSet(rest) /\ i \notin rest /\ rest \cup {i} = in
    BY <1>8, <2>1, FS_Subset
  <2>3. \A y \in rest \cup {i} : w[y] \in Int
    BY <1>6, <1>9, <2>2
  <2>4. SumOf(w, rest) \in Int /\ SumOf(w, in) = w[i] + SumOf(w, rest)
    <3> HIDE DEF rest
    <3> QED BY <2>2, <2>3, SumOfMore
  <2>5. SumOf(w, rest) \in Nat
    <3>1. \A y \in rest : w[y] \in Nat
      BY <1>6, <1>9
    <3>2. \E g : SumsUp(g, w, rest)
      BY <2>2, SumExists
    <3> DEFINE G == CHOOSE g : SumsUp(g, w, rest)
    <3>3. SumsUp(G, w, rest)
      BY <3>2
    <3> HIDE DEF G, rest
    <3>4. G[rest] \in Nat
      BY <2>2, <3>1, <3>3, SumIsNat
    <3> QED BY <3>4 DEF SumOf, G
  <2> QED BY <1>9, <2>4, <2>5
<1>13. /\ WeightUpto(s)[k] = SumOf(w, all) /\ WeightUpto(s)[j - 1] = SumOf(w, low)
       /\ HarmUpto(s)[k] = SumOf(h, all) /\ HarmUpto(s)[j - 1] = SumOf(h, low)
  BY <1>2 DEF WeightUpto, HarmUpto, n, w, h, all, low
<1>14. Weight(s, in) = SumOf(w, in) /\ Positives(s, in) = SumOf(h, in)
  BY <1>6, WeightsAre DEF w, h
<1>15. \A a, b, c \in Int : a = b + c => a - b = c
  OBVIOUS
<1>16. SumOf(w, all) \in Int /\ SumOf(h, all) \in Int
  BY <1>10, <1>11
<1>17. SumOf(w, all) - SumOf(w, low) = SumOf(w, in) /\ SumOf(h, all) - SumOf(h, low) = SumOf(h, in)
  BY <1>10, <1>11, <1>15, <1>16
<1> QED BY <1>10, <1>11, <1>12, <1>13, <1>14, <1>16, <1>17 DEF in

\* A score more, and the weight is larger.
LEMMA PointsClimb ==
  ASSUME NEW s, IsSample(s)
  PROVE  Climbs(HarmUpto(s), WeightUpto(s), Steps(s))
<1> DEFINE n == Steps(s)
           A == HarmUpto(s)
           B == WeightUpto(s)
<1>1. n \in Nat
  BY SortedIs
<1>2. /\ A = [k \in 0..n |-> A[k]] /\ B = [k \in 0..n |-> B[k]]
  BY DEF HarmUpto, WeightUpto
<1>3. A[0] \in Int /\ B[0] \in Int
  <2>1. Upto(s, 0) = {}
    BY DEF Upto
  <2>2. 0 \in 0..n
    BY <1>1
  <2> QED BY <2>1, <2>2, SumOfNone DEF HarmUpto, WeightUpto
<1>4. ASSUME NEW k \in 1..n, NEW j \in 1..k
      PROVE  /\ A[j - 1] \in Int /\ B[j - 1] \in Int /\ A[k] \in Int /\ B[k] \in Int
             /\ B[k] - B[j - 1] > 0
  BY FromIs
<1> HIDE DEF n, A, B
<1>5. \A k \in 0..n : A[k] \in Int /\ B[k] \in Int
  <2> TAKE k \in 0..n
  <2>1. CASE k = 0
    BY <1>3, <2>1
  <2>2. CASE k # 0
    <3>1. k \in 1..n /\ k \in 1..k
      BY <1>1, <2>2
    <3> QED BY <1>4, <3>1
  <2> QED BY <2>1, <2>2
<1>6. \A j, k \in 0..n : j < k => B[j] < B[k]
  <2> TAKE j, k \in 0..n
  <2> HAVE j < k
  <2>1. k \in 1..n /\ j + 1 \in 1..k /\ (j + 1) - 1 = j
    BY <1>1
  <2>2. B[k] - B[j] > 0
    BY <1>4, <2>1
  <2> QED BY <1>5, <2>2
<1>7. A \in [0..n -> Int] /\ B \in [0..n -> Int]
  BY <1>2, <1>5
<1> QED BY <1>1, <1>6, <1>7 DEF Climbs, n, A, B

\* A single block is the run of its score.
LEMMA SinglesAre ==
  ASSUME NEW s, IsSample(s)
  PROVE  /\ Len(Singletons(s)) = Steps(s) /\ Len(Singletons(s)) \in Nat
         /\ \A k \in 1..Steps(s) :
              /\ Singletons(s)[k] = Run(Sorted(s), HarmUpto(s), WeightUpto(s), k - 1, k)
              /\ Singletons(s)[k] \in BlockSet
<1> DEFINE n == Steps(s)
           x == Sorted(s)
           A == HarmUpto(s)
           B == WeightUpto(s)
           at(k) == {i \in DOMAIN s : s[i].score = x[k]}
           block(k) == Block(s, x[k], at(k))
<1>1. n \in Nat /\ x \in [1..n -> Int]
  BY SortedIs
<1>2. Singletons(s) = [k \in 1..n |-> block(k)]
  <2>1. DOMAIN x = 1..n
    BY <1>1
  <2>2. Singletons(s) = [k \in DOMAIN x |-> block(k)]
    BY DEF Singletons, Sorted
  <2> HIDE DEF n, x, block
  <2> QED BY <2>1, <2>2
<1>3. ASSUME NEW k \in 1..n PROVE block(k) = Run(x, A, B, k - 1, k) /\ block(k) \in BlockSet
  <2>1. at(k) = From(s, k, k)
    <3>1. \A i \in DOMAIN s : s[i].score = x[k] <=> x[k] <= s[i].score /\ s[i].score <= x[k]
      <4>1. x[k] \in Int /\ \A i \in DOMAIN s : s[i].score \in Int
        BY <1>1 DEF IsSample
      <4> HIDE DEF x
      <4> QED BY <4>1
    <3> QED BY <3>1 DEF From
  <2>2. k \in 1..k /\ (k - 1) + 1 = k /\ k - 1 \in 0..n /\ k \in 0..n /\ k - 1 < k
    BY <1>1
  <2>3. Weight(s, at(k)) = B[k] - B[k - 1] /\ Positives(s, at(k)) = A[k] - A[k - 1]
    <3> HIDE DEF at
    <3> QED BY <2>1, <2>2, FromIs
  <2> HIDE DEF at
  <2>4. block(k) = Run(x, A, B, k - 1, k)
    BY <2>2, <2>3 DEF Block, Run
  <2>5. Run(x, A, B, k - 1, k) \in BlockSet
    <3>1. Climbs(A, B, n)
      BY PointsClimb
    <3> HIDE DEF n, x, A, B
    <3> QED BY <1>1, <2>2, <3>1, RunIs
  <2> QED BY <2>4, <2>5
<1> HIDE DEF block, x, A, B, n
<1>4. Len(Singletons(s)) = n /\ \A k \in 1..n : Singletons(s)[k] = block(k)
  BY <1>1, <1>2
<1> QED BY <1>1, <1>3, <1>4 DEF x, A, B, n

\* The blocks of a sample are cut from its scores, and no point is below the line of one.
LEMMA BlocksHold ==
  ASSUME NEW s, IsSample(s)
  PROVE  \E e : Held(Blocks(s), e, Steps(s), Sorted(s), HarmUpto(s), WeightUpto(s))
<1> DEFINE n == Steps(s)
           x == Sorted(s)
           A == HarmUpto(s)
           B == WeightUpto(s)
           singles == Singletons(s)
           V == Seq(BlockSet)
           N == Len(singles)
           Pushed(f) == f = [k \in 0..N |-> IF k = 0 THEN <<>> ELSE Push(f[k - 1], singles[k])]
           pushed == CHOOSE f : Pushed(f)
           h == [t \in Nat \X V |-> IF t[1] \in 1..n THEN Push(t[2], singles[t[1]]) ELSE <<>>]
<1>1. /\ n \in Nat /\ N = n /\ x \in [1..n -> Int] /\ Climbs(A, B, n)
      /\ \A k \in 1..n : singles[k] = Run(x, A, B, k - 1, k) /\ singles[k] \in BlockSet
  BY SortedIs, SinglesAre, PointsClimb
<1>2. Blocks(s) = pushed[N]
  BY DEF Blocks
<1> HIDE DEF n, x, A, B, singles, N
<1>3. /\ h \in [Nat \X V -> V] /\ <<>> \in V
      /\ \A k \in 1..n : \A b \in V : h[<<k, b>>] = Push(b, singles[k])
  <2>1. <<>> \in V
    OBVIOUS
  <2>2. \A k \in 1..n : \A b \in V : Push(b, singles[k]) \in V
    BY <1>1, PushTurns
  <2>3. \A k \in 1..n : k \in Nat
    BY <1>1
  <2> HIDE DEF V
  <2> QED BY <2>1, <2>2, <2>3
<1> HIDE DEF h, V
<1>4. \E f : Pushed(f)
  <2>1. PICK g \in [Nat -> V] : StepsUp(g, <<>>, h)
    BY <1>3, RecursionExists
  <2>2. \A k \in Nat : g[k] = IF k = 0 THEN <<>> ELSE h[<<k, g[k - 1]>>]
    BY <2>1 DEF StepsUp
  <2> DEFINE f == [k \in 0..N |-> g[k]]
  <2>3. \A k \in 0..N : f[k] = IF k = 0 THEN <<>> ELSE Push(f[k - 1], singles[k])
    <3> TAKE k \in 0..N
    <3>1. k \in Nat /\ f[k] = g[k]
      BY <1>1
    <3>2. CASE k = 0
      BY <2>2, <3>1, <3>2
    <3>3. CASE k # 0
      <4>1. k - 1 \in 0..N /\ k - 1 \in Nat /\ k \in 1..n
        BY <1>1, <3>1, <3>3
      <4>2. f[k - 1] = g[k - 1] /\ g[k - 1] \in V
        BY <4>1
      <4>3. g[k] = h[<<k, g[k - 1]>>]
        BY <2>2, <3>1, <3>3
      <4>4. g[k] = Push(g[k - 1], singles[k])
        BY <1>3, <4>1, <4>2, <4>3
      <4> QED BY <3>1, <3>3, <4>2, <4>4
    <3> QED BY <3>2, <3>3
  <2>4. f = [k \in 0..N |-> f[k]]
    OBVIOUS
  <2> HIDE DEF f
  <2>5. Pushed(f)
    BY <2>3, <2>4
  <2> QED BY <2>5
<1>5. Pushed(pushed)
  <2> HIDE DEF Pushed
  <2> QED BY <1>4
<1> HIDE DEF pushed
<1>6. pushed[0] = <<>> /\ \A k \in 1..n : pushed[k] = Push(pushed[k - 1], singles[k])
  <2>1. \A k \in 0..N : pushed[k] = IF k = 0 THEN <<>> ELSE Push(pushed[k - 1], singles[k])
    BY <1>5
  <2>2. 0 \in 0..N /\ \A k \in 1..n : k \in 0..N /\ k # 0
    BY <1>1
  <2> QED BY <2>1, <2>2
<1> DEFINE P == {k \in Nat : k <= n => \E e : Held(pushed[k], e, k, x, A, B)}
<1>7. 0 \in P
  <2> DEFINE e == [t \in 0..0 |-> 0]
  <2>1. <<>> \in Seq(BlockSet) /\ Len(<<>>) = 0 /\ e \in [0..0 -> 0..0] /\ e[0] = 0
    OBVIOUS
  <2> HIDE DEF e
  <2>2. \A t \in 1..0 : FALSE
    OBVIOUS
  <2>3. Cuts(<<>>, e, 0, x, A, B)
    BY <2>1, <2>2 DEF Cuts
  <2>4. Held(<<>>, e, 0, x, A, B)
    BY <2>1, <2>2, <2>3 DEF Held
  <2> QED BY <1>6, <2>4
<1>8. ASSUME NEW k \in Nat, k \in P PROVE k + 1 \in P
  <2>1. ASSUME k + 1 <= n PROVE \E e : Held(pushed[k + 1], e, k + 1, x, A, B)
    <3>1. k <= n /\ k < n /\ k + 1 \in 1..n /\ (k + 1) - 1 = k
      BY <1>1, <2>1
    <3>2. pushed[k + 1] = Push(pushed[k], Run(x, A, B, k, k + 1))
      BY <1>1, <1>6, <3>1
    <3>3. PICK e : Held(pushed[k], e, k, x, A, B)
      BY <1>8, <3>1
    <3> HIDE DEF P
    <3> QED BY <1>1, <3>1, <3>2, <3>3, PushHolds
  <2>2. k + 1 \in Nat
    OBVIOUS
  <2> QED BY <2>1, <2>2
<1>9. \E e : Held(pushed[n], e, n, x, A, B)
  <2>1. Nat \subseteq P
    <3> HIDE DEF P
    <3> QED BY <1>7, <1>8, UpwardInduction
  <2>2. n \in P /\ n <= n
    BY <1>1, <2>1
  <2> QED BY <2>2
<1> QED BY <1>1, <1>2, <1>9 DEF n, x, A, B

\* Fractions of one denominator.
LEMMA MinusIsFrac ==
  ASSUME NEW n \in Int, NEW m \in Int, NEW d \in Nat \ {0}
  PROVE  Minus(Frac(n, d), Frac(m, d)) = Frac(n - m, d)
<1> DEFINE x == Frac(n, d)[1]
           y == Frac(n, d)[2]
           z == Frac(m, d)[1]
           w == Frac(m, d)[2]
<1>1. /\ x \in Int /\ y \in Nat \ {0} /\ z \in Int /\ w \in Nat \ {0}
      /\ x * d = n * y /\ z * d = m * w
  BY FracValue
<1>2. Minus(Frac(n, d), Frac(m, d)) = Frac(x * w - z * y, y * w)
  BY DEF Minus
<1> HIDE DEF x, y, z, w
<1> DEFINE i == x * w - z * y
           j == y * w
<1>3. i \in Int /\ j \in Nat \ {0} /\ n - m \in Int
  <2>1. \A p, q \in Nat \ {0} : p * q \in Nat \ {0}
    BY Z3
  <2>2. \A p, q \in Int : p * q \in Int
    BY Z3
  <2>3. x * w \in Int /\ z * y \in Int /\ y * w \in Nat \ {0}
    BY <1>1, <2>1, <2>2
  <2> QED BY <2>3
<1>4. i * d = (n - m) * j
  <2>1. \A a, b, c, p, q \in Int : (a * b - c * p) * q = (a * q) * b - (c * q) * p
    BY Z3
  <2>2. (x * w - z * y) * d = (n * y) * w - (m * w) * y
    BY <1>1, <2>1
  <2>3. (n * y) * w - (m * w) * y = (n - m) * (y * w)
    BY <1>1, Z3
  <2> QED BY <2>2, <2>3
<1> HIDE DEF i, j
<1>5. Frac(i, j) = Frac(n - m, d)
  BY <1>3, <1>4, FracAtMost
<1> QED BY <1>2, <1>5 DEF i, j

\* A ramp ends in its right knot, and is flat between equal ones.
LEMMA RampEnds ==
  ASSUME NEW n \in Int, NEW d \in Nat \ {0}, NEW m \in Int, NEW e \in Nat \ {0},
         NEW a \in Int, NEW c \in Nat \ {0}
  PROVE  /\ Plus(Frac(n, d), Times(Minus(Frac(m, e), Frac(n, d)), Frac(c, c))) = Frac(m, e)
         /\ Plus(Frac(n, d), Times(Minus(Frac(n, d), Frac(n, d)), Frac(a, c))) = Frac(n, d)
<1> DEFINE N == n * e
           M == m * d
           D == d * e
<1>1. N \in Int /\ M \in Int /\ D \in Nat \ {0} /\ D = e * d
  <2>1. \A p, q \in Nat \ {0} : p * q \in Nat \ {0} /\ p * q = q * p
    BY Z3
  <2>2. \A p, q \in Int : p * q \in Int
    BY Z3
  <2> QED BY <2>1, <2>2
<1>2. Frac(n, d) = Frac(N, D) /\ Frac(m, e) = Frac(M, D)
  <2>1. Frac(n, d) = Frac(N, D)
    BY FracScales
  <2>2. Frac(m, e) = Frac(M, e * d)
    BY FracScales
  <2> HIDE DEF N, M, D
  <2> QED BY <1>1, <2>1, <2>2
<1> HIDE DEF N, M, D
<1>3. Plus(Frac(n, d), Times(Minus(Frac(m, e), Frac(n, d)), Frac(c, c))) = Frac(m, e)
  <2>1. Minus(Frac(M, D), Frac(N, D)) = Frac(M - N, D) /\ M - N \in Int
    BY <1>1, MinusIsFrac
  <2>2. Frac(c, c) = Frac(1, 1)
    <3>1. c * 1 = 1 * c /\ c \in Int /\ 1 \in Int /\ 1 \in Nat \ {0}
      OBVIOUS
    <3> QED BY <3>1, FracAtMost
  <2>3. Times(Frac(M - N, D), Frac(1, 1)) = Frac(M - N, D)
    <3>1. (M - N) * 1 = M - N /\ D * 1 = D /\ 1 \in Int /\ 1 \in Nat \ {0}
      BY <1>1, <2>1
    <3>2. Times(Frac(M - N, D), Frac(1, 1)) = Frac((M - N) * 1, D * 1)
      BY <1>1, <2>1, <3>1, TimesIsFrac
    <3> QED BY <3>1, <3>2
  <2>4. Plus(Frac(N, D), Frac(M - N, D)) = Frac(M, D)
    <3>1. N + (M - N) = M
      BY <1>1
    <3>2. Plus(Frac(N, D), Frac(M - N, D)) = Frac(N + (M - N), D)
      BY <1>1, <2>1, PlusIsFrac
    <3> QED BY <3>1, <3>2
  <2> QED BY <1>2, <2>1, <2>2, <2>3, <2>4
<1>4. Plus(Frac(n, d), Times(Minus(Frac(n, d), Frac(n, d)), Frac(a, c))) = Frac(n, d)
  <2>1. n - n = 0 /\ n + 0 = n /\ 0 * a = 0 /\ 0 \in Int
    OBVIOUS
  <2>2. Minus(Frac(n, d), Frac(n, d)) = Frac(0, d)
    BY <2>1, MinusIsFrac
  <2> DEFINE D2 == d * c
  <2>3. Times(Frac(0, d), Frac(a, c)) = Frac(0, D2)
    BY <2>1, TimesIsFrac
  <2>4. D2 \in Nat \ {0}
    <3>1. \A p, q \in Nat \ {0} : p * q \in Nat \ {0}
      BY Z3
    <3> QED BY <3>1
  <2> HIDE DEF D2
  <2>5. Frac(0, D2) = Frac(0, d)
    BY <2>4, ZeroIsFrac
  <2>6. Plus(Frac(n, d), Frac(0, d)) = Frac(n, d)
    BY <2>1, PlusIsFrac
  <2> QED BY <2>2, <2>3, <2>5, <2>6
<1> QED BY <1>3, <1>4

\* Every score is in one block.
LEMMA CutAround ==
  ASSUME NEW m \in Nat, NEW x, NEW A, NEW B, NEW blocks, NEW e, Cuts(blocks, e, m, x, A, B),
         NEW i \in 1..m
  PROVE  /\ \E t \in 1..Len(blocks) : e[t - 1] < i /\ i <= e[t]
         /\ \A t, u \in 1..Len(blocks) :
              e[t - 1] < i /\ i <= e[t] /\ e[u - 1] < i /\ i <= e[u] => t = u
<1> DEFINE L == Len(blocks)
           T == {t \in 0..L : i <= e[t]}
<1>1. /\ L \in Nat /\ \A t \in 0..L : e[t] \in 0..m
      /\ \A s, t \in 0..L : s < t => e[s] < e[t]
  BY CutsAre
<1>2. e[0] = 0 /\ e[L] = m
  BY DEF Cuts
<1> HIDE DEF L
<1>3. \E t \in 1..L : e[t - 1] < i /\ i <= e[t]
  <2>1. T \in SUBSET Int /\ IsFiniteSet(T) /\ L \in T
    <3>1. IsFiniteSet(0..L) /\ T \in SUBSET (0..L)
      BY <1>1, FS_Interval
    <3>2. IsFiniteSet(T)
      BY <3>1, FS_Subset
    <3> QED BY <1>1, <1>2, <3>2
  <2> DEFINE t == Min(T)
  <2>2. t \in T /\ \A y \in T : t <= y
    <3> HIDE DEF T
    <3> QED BY <2>1, MinOfFinite
  <2> HIDE DEF t
  <2>3. t \in 0..L /\ i <= e[t]
    BY <2>2
  <2>4. t # 0
    BY <1>2, <2>3
  <2>5. t \in 1..L /\ t - 1 \in 0..L /\ ~(t <= t - 1)
    BY <1>1, <2>3, <2>4
  <2>6. t - 1 \notin T
    BY <2>2, <2>5
  <2>7. ~(i <= e[t - 1]) /\ e[t - 1] \in 0..m
    BY <1>1, <2>5, <2>6
  <2>8. e[t - 1] < i
    BY <2>7
  <2> QED BY <2>3, <2>5, <2>8
<1>4. ASSUME NEW t \in 1..L, NEW u \in 1..L, i <= e[t], e[u - 1] < i PROVE u <= t
  <2> SUFFICES ASSUME t < u PROVE FALSE
    BY <1>1
  <2>1. t \in 0..L /\ u - 1 \in 0..L /\ (t = u - 1 \/ t < u - 1)
    BY <1>1
  <2>2. e[t] \in 0..m /\ e[u - 1] \in 0..m /\ (e[t] = e[u - 1] \/ e[t] < e[u - 1])
    BY <1>1, <2>1
  <2> QED BY <1>4, <2>2
<1>5. \A t, u \in 1..L : e[t - 1] < i /\ i <= e[t] /\ e[u - 1] < i /\ i <= e[u] => t = u
  <2> TAKE t, u \in 1..L
  <2> HAVE e[t - 1] < i /\ i <= e[t] /\ e[u - 1] < i /\ i <= e[u]
  <2>1. u <= t /\ t <= u
    BY <1>4
  <2> QED BY <1>1, <2>1
<1> QED BY <1>3, <1>5 DEF L

\* The blocks of a sample at their cuts.
Fitted(s, e) == Held(Blocks(s), e, Steps(s), Sorted(s), HarmUpto(s), WeightUpto(s))

\* What the cuts say of a block.
LEMMA BlocksAre ==
  ASSUME NEW s, IsSample(s), NEW e, Fitted(s, e)
  PROVE  /\ Len(Blocks(s)) \in Nat /\ e[0] = 0 /\ e[Len(Blocks(s))] = Steps(s)
         /\ \A t \in 0..Len(Blocks(s)) : e[t] \in 0..Steps(s)
         /\ \A t, u \in 0..Len(Blocks(s)) : t < u => e[t] < e[u]
         /\ \A t \in 1..Len(Blocks(s)) :
              /\ e[t - 1] \in 0..Steps(s) /\ e[t] \in 0..Steps(s) /\ e[t - 1] < e[t]
              /\ Blocks(s)[t].low = Sorted(s)[e[t - 1] + 1] /\ Blocks(s)[t].high = Sorted(s)[e[t]]
              /\ \E h \in Int : \E w \in Nat \ {0} :
                   /\ h = HarmUpto(s)[e[t]] - HarmUpto(s)[e[t - 1]]
                   /\ w = WeightUpto(s)[e[t]] - WeightUpto(s)[e[t - 1]]
                   /\ Mean(Blocks(s)[t]) = Frac(h, w)
<1> DEFINE n == Steps(s)
           x == Sorted(s)
           A == HarmUpto(s)
           B == WeightUpto(s)
           blocks == Blocks(s)
           L == Len(blocks)
<1>1. n \in Nat /\ x \in [1..n -> Int] /\ Climbs(A, B, n)
  BY SortedIs, PointsClimb
<1>2. Cuts(blocks, e, n, x, A, B)
  BY DEF Fitted, Held
<1> HIDE DEF n, x, A, B, blocks
<1>3. /\ L \in Nat /\ \A t \in 0..L : e[t] \in 0..n
      /\ \A t, u \in 0..L : t < u => e[t] < e[u]
  BY <1>1, <1>2, CutsAre
<1>4. e[0] = 0 /\ e[L] = n /\ \A t \in 1..L : blocks[t] = Run(x, A, B, e[t - 1], e[t])
  BY <1>2 DEF Cuts
<1> HIDE DEF L
<1>5. ASSUME NEW t \in 1..L
      PROVE  /\ e[t - 1] \in 0..n /\ e[t] \in 0..n /\ e[t - 1] < e[t]
             /\ blocks[t].low = x[e[t - 1] + 1] /\ blocks[t].high = x[e[t]]
             /\ \E h \in Int : \E w \in Nat \ {0} :
                   /\ h = A[e[t]] - A[e[t - 1]] /\ w = B[e[t]] - B[e[t - 1]]
                   /\ Mean(blocks[t]) = Frac(h, w)
  <2>1. t - 1 \in 0..L /\ t \in 0..L /\ t - 1 < t
    BY <1>3
  <2>2. e[t - 1] \in 0..n /\ e[t] \in 0..n /\ e[t - 1] < e[t]
    BY <1>3, <2>1
  <2>3. blocks[t] = Run(x, A, B, e[t - 1], e[t])
    BY <1>4
  <2>4. blocks[t].low = x[e[t - 1] + 1] /\ blocks[t].high = x[e[t]]
    BY <2>3 DEF Run
  <2> DEFINE a == e[t - 1]
             c == e[t]
  <2>5. /\ Mean(Run(x, A, B, a, c)) = Frac(A[c] - A[a], B[c] - B[a])
        /\ A[c] - A[a] \in Int /\ B[c] - B[a] \in Nat \ {0}
    <3>1. a \in 0..n /\ c \in 0..n /\ a < c
      BY <2>2
    <3> HIDE DEF a, c
    <3>2. x \in [1..n -> Int] /\ Climbs(A, B, n)
      BY <1>1
    <3> QED BY <3>1, <3>2, RunIs
  <2> QED BY <2>2, <2>3, <2>4, <2>5
<1> QED BY <1>3, <1>4, <1>5 DEF L, n, x, A, B, blocks

\* The map at a knot.
LEMMA KnotsAre ==
  ASSUME NEW s, IsSample(s), NEW e, Fitted(s, e)
  PROVE  /\ DOMAIN Fit(s) \in SUBSET Int /\ IsFiniteSet(DOMAIN Fit(s))
         /\ \A y \in DOMAIN Fit(s) : \E j \in 1..Steps(s) : y = Sorted(s)[j]
         /\ \A t \in 1..Len(Blocks(s)) : /\ Sorted(s)[e[t - 1] + 1] \in DOMAIN Fit(s)
                                         /\ Sorted(s)[e[t]] \in DOMAIN Fit(s)
         /\ \A t \in 1..Len(Blocks(s)) : \A j \in 1..Steps(s) :
              e[t - 1] < j /\ j <= e[t] /\ Sorted(s)[j] \in DOMAIN Fit(s)
                => Fit(s)[Sorted(s)[j]] = Mean(Blocks(s)[t])
<1> DEFINE n == Steps(s)
           x == Sorted(s)
           blocks == Blocks(s)
           L == Len(blocks)
           ends(t) == {blocks[t].low, blocks[t].high}
           K == UNION {ends(t) : t \in DOMAIN blocks}
           ending(y) == {t \in DOMAIN blocks : y \in ends(t)}
<1>1. n \in Nat /\ x \in [1..n -> Int] /\ \A j, k \in 1..n : j = k <=> x[j] = x[k]
  BY SortedIs
<1>2. /\ L \in Nat
      /\ \A t \in 1..L : /\ e[t - 1] \in 0..n /\ e[t] \in 0..n /\ e[t - 1] < e[t]
                         /\ ends(t) = {x[e[t - 1] + 1], x[e[t]]}
  BY BlocksAre
<1>3. Cuts(blocks, e, n, x, HarmUpto(s), WeightUpto(s)) /\ DOMAIN blocks = 1..L
  BY DEF Fitted, Held, Cuts
<1>4. Fit(s) = [y \in K |-> Mean(blocks[Min(ending(y))])]
  BY DEF Fit
<1> HIDE DEF n, x, blocks, L, ends
<1>5. ASSUME NEW t \in 1..L
      PROVE  /\ e[t - 1] + 1 \in 1..n /\ e[t] \in 1..n
             /\ e[t - 1] < e[t - 1] + 1 /\ e[t - 1] + 1 <= e[t] /\ e[t - 1] < e[t] /\ e[t] <= e[t]
  <2>1. e[t - 1] \in 0..n /\ e[t] \in 0..n /\ e[t - 1] < e[t]
    BY <1>2
  <2> QED BY <1>1, <2>1
<1>6. \A y \in K : \E j \in 1..n : y = x[j]
  <2> TAKE y \in K
  <2>1. PICK t \in 1..L : y \in ends(t)
    BY <1>3
  <2> QED BY <1>2, <1>5, <2>1
<1>7. K \in SUBSET Int /\ IsFiniteSet(K)
  <2> DEFINE X == {x[j] : j \in 1..n}
  <2>1. IsFiniteSet(X)
    <3>1. IsFiniteSet(1..n)
      BY <1>1, FS_Interval
    <3> DEFINE f == [j \in 1..n |-> x[j]]
    <3>2. f \in [1..n -> X] /\ \A y \in X : \E j \in 1..n : f[j] = y
      OBVIOUS
    <3> HIDE DEF f, X
    <3> QED BY <3>1, <3>2, ImageIsFinite
  <2>2. K \subseteq X
    <3> HIDE DEF K
    <3> QED BY <1>6
  <2>3. X \subseteq Int
    BY <1>1
  <2> HIDE DEF X, K
  <2> QED BY <2>1, <2>2, <2>3, FS_Subset
<1>8. \A t \in 1..L : x[e[t - 1] + 1] \in K /\ x[e[t]] \in K
  <2> TAKE t \in 1..L
  <2>1. ends(t) \subseteq K
    BY <1>3
  <2> HIDE DEF K
  <2> QED BY <1>2, <2>1
<1>9. ASSUME NEW t \in 1..L, NEW j \in 1..n, e[t - 1] < j, j <= e[t], x[j] \in K
      PROVE  Fit(s)[x[j]] = Mean(blocks[t])
  <2>1. ASSUME NEW u \in 1..L, x[j] \in ends(u) PROVE u = t
    <3>1. x[j] = x[e[u - 1] + 1] \/ x[j] = x[e[u]]
      BY <1>2, <2>1
    <3>2. j = e[u - 1] + 1 \/ j = e[u]
      BY <1>1, <1>5, <3>1
    <3>3. e[u - 1] < j /\ j <= e[u]
      BY <1>5, <3>2
    <3> QED BY <1>1, <1>3, <1>9, <3>3, CutAround DEF L
  <2>2. \E u \in 1..L : x[j] \in ends(u)
    BY <1>3, <1>9
  <2>3. ending(x[j]) = {t}
    BY <1>3, <2>1, <2>2
  <2>4. Min({t}) = t
    <3>0. t \in Int
      BY <1>2
    <3>1. {t} \in SUBSET Int /\ IsFiniteSet({t}) /\ {t} # {}
      BY <3>0, FS_Singleton
    <3>2. Min({t}) \in {t}
      BY <3>1, MinOfFinite
    <3> QED BY <3>2
  <2> HIDE DEF ending, K
  <2> QED BY <1>4, <1>9, <2>3, <2>4
<1>10. DOMAIN Fit(s) = K
  BY <1>4
<1> HIDE DEF K
<1> QED BY <1>6, <1>7, <1>8, <1>9, <1>10 DEF n, x, L, blocks

\* What the map gives at a score is the mean of the score's block.
LEMMA PredictIs ==
  ASSUME NEW s, IsSample(s), NEW e, Fitted(s, e), NEW t \in 1..Len(Blocks(s)),
         NEW i \in 1..Steps(s), e[t - 1] < i, i <= e[t]
  PROVE  Predict(Fit(s), Sorted(s)[i]) = Mean(Blocks(s)[t])
<1> DEFINE n == Steps(s)
           x == Sorted(s)
           L == Len(Blocks(s))
           M(u) == Mean(Blocks(s)[u])
           map == Fit(s)
           K == DOMAIN map
           left == Max({k \in K : k < x[i]})
           right == Min({k \in K : x[i] <= k})
           low == x[e[t - 1] + 1]
           high == x[e[t]]
<1>1. /\ n \in Nat /\ x \in [1..n -> Int] /\ \A j, k \in 1..n : j < k <=> x[j] < x[k]
      /\ \A j, k \in 1..n : j <= k <=> x[j] <= x[k]
      /\ \A j, k \in 1..n : j = k <=> x[j] = x[k]
  BY SortedIs
<1>2. /\ L \in Nat
      /\ \A u \in 1..L : /\ e[u - 1] \in 0..n /\ e[u] \in 0..n /\ e[u - 1] < e[u]
                         /\ \E h \in Int : \E w \in Nat \ {0} : M(u) = Frac(h, w)
  BY BlocksAre
<1>3. /\ K \in SUBSET Int /\ IsFiniteSet(K) /\ \A y \in K : \E j \in 1..n : y = x[j]
      /\ low \in K /\ high \in K
      /\ \A u \in 1..L : \A j \in 1..n :
           e[u - 1] < j /\ j <= e[u] /\ x[j] \in K => map[x[j]] = M(u)
  BY KnotsAre
<1>4. Predict(map, x[i]) =
        IF x[i] <= Min(K) THEN map[Min(K)]
        ELSE IF x[i] >= Max(K) THEN map[Max(K)]
        ELSE Plus(map[left], Times(Minus(map[right], map[left]), Frac(x[i] - left, right - left)))
  BY DEF Predict
<1>5. Cuts(Blocks(s), e, n, x, HarmUpto(s), WeightUpto(s))
  BY DEF Fitted, Held
<1>6. ASSUME NEW j \in 1..n PROVE \E u \in 1..L : e[u - 1] < j /\ j <= e[u]
  BY <1>1, <1>5, CutAround
<1> SUFFICES Predict(map, x[i]) = M(t)
  OBVIOUS
<1> HIDE DEF n, x, L, M, map
<1>7. /\ e[t - 1] + 1 \in 1..n /\ e[t] \in 1..n /\ e[t - 1] + 1 <= i
      /\ e[t - 1] \in Int /\ e[t] \in Int /\ t \in 1..L /\ i \in 1..n
  <2>1. t \in 1..L /\ i \in 1..n
    BY DEF L, n
  <2>2. e[t - 1] \in 0..n /\ e[t] \in 0..n /\ e[t - 1] < e[t]
    BY <1>2, <2>1
  <2>3. e[t - 1] < i /\ i <= e[t] /\ n \in Nat
    BY <1>1
  <2> DEFINE a == e[t - 1]
             c == e[t]
  <2>4. a \in 0..n /\ c \in 0..n /\ a < c /\ a < i
    BY <2>2, <2>3
  <2> HIDE DEF a, c
  <2>5. /\ a + 1 \in 1..n /\ c \in 1..n /\ a + 1 <= i /\ a \in Int /\ c \in Int
    BY <2>1, <2>3, <2>4
  <2> QED BY <2>1, <2>5 DEF a, c
<1>8. /\ x[i] \in Int /\ low \in Int /\ high \in Int /\ low <= x[i] /\ x[i] <= high
  BY <1>1, <1>7
<1> HIDE DEF low, high
\* A knot of the block has its mean.
<1>9. ASSUME NEW y \in K, low <= y, y <= high PROVE map[y] = M(t)
  <2>1. PICK j \in 1..n : y = x[j]
    BY <1>3
  <2>2. e[t - 1] + 1 <= j /\ j <= e[t]
    BY <1>1, <1>7, <1>9, <2>1 DEF low, high
  <2>3. e[t - 1] < j
    BY <1>7, <2>2
  <2> QED BY <1>3, <1>7, <2>1, <2>2, <2>3
<1>10. ASSUME NEW y \in K PROVE \E h \in Int : \E w \in Nat \ {0} : map[y] = Frac(h, w)
  <2>1. PICK j \in 1..n : y = x[j]
    BY <1>3
  <2>2. PICK u \in 1..L : e[u - 1] < j /\ j <= e[u]
    BY <1>6
  <2>3. map[y] = M(u)
    BY <1>3, <2>1, <2>2
  <2> QED BY <1>2, <2>3
<1>11. Min(K) \in K /\ Max(K) \in K /\ \A y \in K : Min(K) <= y /\ y <= Max(K)
  <2>1. K # {}
    BY <1>3
  <2>2. Max(K) \in K /\ \A y \in K : Max(K) >= y
    BY <1>3, <2>1, MaxOfFinite
  <2>3. Min(K) \in K /\ \A y \in K : Min(K) <= y
    BY <1>3, <2>1, MinOfFinite
  <2>4. \A y \in K : y \in Int
    BY <1>3
  <2> HIDE DEF K
  <2> QED BY <2>2, <2>3, <2>4
<1> HIDE DEF K
<1>12. CASE x[i] <= Min(K)
  <2>1. low <= Min(K) /\ Min(K) <= high
    <3>1. Min(K) \in Int /\ Min(K) <= low
      BY <1>3, <1>11
    <3> DEFINE y == Min(K)
    <3>2. y \in Int /\ y <= low /\ x[i] <= y
      BY <1>12, <3>1
    <3> HIDE DEF y
    <3>3. low <= y /\ y <= high
      BY <1>8, <3>2
    <3> QED BY <3>3 DEF y
  <2> QED BY <1>4, <1>9, <1>11, <1>12, <2>1
<1>13. CASE ~(x[i] <= Min(K)) /\ x[i] >= Max(K)
  <2>1. low <= Max(K) /\ Max(K) <= high
    <3> DEFINE y == Max(K)
    <3>1. y \in Int /\ high <= y /\ x[i] >= y
      BY <1>3, <1>11, <1>13
    <3> HIDE DEF y
    <3>2. low <= y /\ y <= high
      BY <1>8, <3>1
    <3> QED BY <3>2 DEF y
  <2> QED BY <1>4, <1>9, <1>11, <1>13, <2>1
<1>14. CASE ~(x[i] <= Min(K)) /\ ~(x[i] >= Max(K))
  <2> DEFINE below == {k \in K : k < x[i]}
             above == {k \in K : x[i] <= k}
  <2>1. left \in K /\ left < x[i] /\ \A y \in K : y < x[i] => y <= left
    <3>1. Min(K) \in below
      <4>1. Min(K) \in Int
        BY <1>3, <1>11
      <4>2. \A p, q \in Int : ~(p <= q) => q < p
        OBVIOUS
      <4> QED BY <1>8, <1>11, <1>14, <4>1, <4>2
    <3>2. below \in SUBSET Int /\ IsFiniteSet(below)
      BY <1>3, FS_Subset
    <3> DEFINE y == Max(below)
    <3>3. y \in below /\ \A z \in below : y >= z
      <4> HIDE DEF below
      <4> QED BY <3>1, <3>2, MaxOfFinite
    <3>4. left = y
      OBVIOUS
    <3> HIDE DEF y
    <3>5. \A z \in K : z < x[i] => z <= y
      <4> TAKE z \in K
      <4> HAVE z < x[i]
      <4>1. z \in below /\ z \in Int /\ y \in Int
        BY <1>3, <3>3
      <4> HIDE DEF below
      <4> QED BY <3>3, <4>1
    <3> QED BY <3>3, <3>4, <3>5
  <2>2. right \in K /\ x[i] <= right /\ \A y \in K : x[i] <= y => right <= y
    <3>1. high \in above
      BY <1>3, <1>8
    <3>2. above \in SUBSET Int /\ IsFiniteSet(above)
      BY <1>3, FS_Subset
    <3> DEFINE y == Min(above)
    <3>3. y \in above /\ \A z \in above : y <= z
      <4> HIDE DEF above
      <4> QED BY <3>1, <3>2, MinOfFinite
    <3>4. right = y
      OBVIOUS
    <3> HIDE DEF y
    <3> QED BY <3>3, <3>4
  <2> HIDE DEF left, right, below, above
  <2>3. left \in Int /\ right \in Int /\ right - left \in Nat \ {0} /\ x[i] - left \in Int
    <3>1. left \in Int /\ right \in Int
      BY <1>3, <2>1, <2>2
    <3> QED BY <1>8, <2>1, <2>2, <3>1
  <2>4. map[right] = M(t)
    <3>1. low <= right /\ right <= high
      BY <1>3, <1>8, <2>2, <2>3
    <3> QED BY <1>9, <2>2, <3>1
  <2>5. PICK h \in Int, w \in Nat \ {0} : map[left] = Frac(h, w)
    BY <1>10, <2>1
  <2>6. PICK g \in Int, v \in Nat \ {0} : map[right] = Frac(g, v)
    BY <1>10, <2>2
  <2> DEFINE c == right - left
             a == x[i] - left
  <2>7. /\ Plus(map[left], Times(Minus(map[right], map[left]), Frac(c, c))) = map[right]
        /\ Plus(map[left], Times(Minus(map[left], map[left]), Frac(a, c))) = map[left]
    <3>1. c \in Nat \ {0} /\ a \in Int
      BY <2>3
    <3> HIDE DEF c, a
    <3>2. /\ Plus(Frac(h, w), Times(Minus(Frac(g, v), Frac(h, w)), Frac(c, c))) = Frac(g, v)
          /\ Plus(Frac(h, w), Times(Minus(Frac(h, w), Frac(h, w)), Frac(a, c))) = Frac(h, w)
      BY <3>1, RampEnds, SMTT(20)
    <3> QED BY <2>5, <2>6, <3>2
  <2>8. Predict(map, x[i]) =
          Plus(map[left], Times(Minus(map[right], map[left]), Frac(a, c)))
    BY <1>4, <1>14
  <2>9. CASE x[i] = right
    <3>1. a = c
      BY <2>9
    <3> HIDE DEF a, c
    <3> QED BY <2>4, <2>7, <2>8, <3>1
  <2>10. CASE x[i] # right
    <3>1. ~(low = x[i])
      <4> SUFFICES ASSUME low = x[i] PROVE FALSE
        OBVIOUS
      <4>1. right <= x[i]
        BY <1>3, <1>8, <2>2
      <4> QED BY <1>8, <2>2, <2>3, <2>10, <4>1
    <3>2. low <= left
      BY <1>3, <1>8, <2>1, <3>1
    <3>3. left <= high
      BY <1>8, <2>1, <2>3
    <3>4. map[left] = M(t)
      BY <1>9, <2>1, <3>2, <3>3
    <3> HIDE DEF a, c
    <3> QED BY <2>4, <2>7, <2>8, <3>4
  <2> QED BY <2>9, <2>10
<1> QED BY <1>12, <1>13, <1>14

\* AtMost orders the fractions.
LEMMA AtMostTransitive ==
  ASSUME NEW p, Lowest(p), NEW q, Lowest(q), NEW r, Lowest(r), AtMost(p, q), AtMost(q, r)
  PROVE  AtMost(p, r)
<1>1. /\ p[1] \in Int /\ q[1] \in Int /\ r[1] \in Int
      /\ p[2] \in Nat /\ q[2] \in Nat \ {0} /\ r[2] \in Nat
  BY DEF Lowest
<1>2. p[1] * q[2] <= q[1] * p[2] /\ q[1] * r[2] <= r[1] * q[2]
  BY DEF AtMost
<1> DEFINE a == p[1]
           b == p[2]
           c == q[1]
           d == q[2]
           f == r[1]
           g == r[2]
<1>3. a * g <= f * b
  <2>1. /\ a \in Int /\ c \in Int /\ f \in Int /\ b \in Nat /\ d \in Nat \ {0} /\ g \in Nat
        /\ a * d <= c * b /\ c * g <= f * d
    BY <1>1, <1>2
  <2> HIDE DEF a, b, c, d, f, g
  <2> QED BY <2>1, SlopesCompare
<1> QED BY <1>3 DEF AtMost

LEMMA AtMostEither ==
  ASSUME NEW p, Lowest(p), NEW q, Lowest(q)
  PROVE  /\ AtMost(p, q) \/ AtMost(q, p)
         /\ AtMost(p, q) /\ AtMost(q, p) => p = q
<1> DEFINE a == p[1] * q[2]
           b == q[1] * p[2]
<1>1. a \in Int /\ b \in Int
  <2>1. p[1] \in Int /\ p[2] \in Int /\ q[1] \in Int /\ q[2] \in Int
    BY DEF Lowest
  <2>2. \A i, j \in Int : i * j \in Int
    BY Z3
  <2> QED BY <2>1, <2>2
<1>2. (AtMost(p, q) <=> a <= b) /\ (AtMost(q, p) <=> b <= a)
  BY DEF AtMost
<1>3. a = b => p = q
  BY LowestIsUnique
<1> HIDE DEF a, b
<1> QED BY <1>1, <1>2, <1>3

\* The smallest and the largest of finitely many fractions.
LEMMA SmallestIs ==
  ASSUME NEW S, IsFiniteSet(S), S # {}, \A p \in S : Lowest(p)
  PROVE  Smallest(S) \in S /\ \A q \in S : AtMost(Smallest(S), q)
<1> DEFINE R == {r \in S \X S : AtMost(r[1], r[2])}
<1>1. \A p, q \in S : p # q => <<p, q>> \in R \/ <<q, p>> \in R
  BY AtMostEither
<1>2. \A p, q, r \in S : <<p, q>> \in R /\ <<q, r>> \in R => <<p, r>> \in R
  BY AtMostTransitive
<1>3. PICK m \in S : \A y \in S : y # m => <<m, y>> \in R
  <2> HIDE DEF R
  <2> QED BY <1>1, <1>2, FirstOfOrder
<1>4. AtMost(m, m)
  BY AtMostEither
<1>5. \A q \in S : AtMost(m, q)
  BY <1>3, <1>4
<1> QED BY <1>5 DEF Smallest

\* They are the elements that bound the others.
LEMMA ExtremesAre ==
  ASSUME NEW S, NEW p \in S, \A q \in S : Lowest(q)
  PROVE  /\ (\A q \in S : AtMost(p, q)) => Smallest(S) = p
         /\ (\A q \in S : AtMost(q, p)) => Largest(S) = p
<1>1. ASSUME \A q \in S : AtMost(p, q) PROVE Smallest(S) = p
  <2>1. Smallest(S) \in S /\ AtMost(Smallest(S), p)
    BY <1>1 DEF Smallest
  <2> QED BY <1>1, <2>1, AtMostEither
<1>2. ASSUME \A q \in S : AtMost(q, p) PROVE Largest(S) = p
  <2>1. Largest(S) \in S /\ AtMost(p, Largest(S))
    BY <1>2 DEF Largest
  <2> QED BY <1>2, <2>1, AtMostEither
<1> QED BY <1>1, <1>2

\* The isotonic value at a score is the mean of the score's block.
LEMMA IsotonicIs ==
  ASSUME IsSample(sample), NEW e, Fitted(sample, e), NEW t \in 1..Len(Blocks(sample)),
         NEW i \in 1..Steps(sample), e[t - 1] < i, i <= e[t]
  PROVE  Isotonic(i) = Mean(Blocks(sample)[t])
<1> DEFINE n == Steps(sample)
           A == HarmUpto(sample)
           B == WeightUpto(sample)
           mean(j, k) == Frac(Positives(sample, From(sample, j, k)),
                              Weight(sample, From(sample, j, k)))
           lows(j) == {mean(j, k) : k \in i..n}
           all == {Smallest(lows(j)) : j \in 1..i}
           m == Mean(Blocks(sample)[t])
           L == Len(Blocks(sample))
           a == e[t - 1]
           c == e[t]
<1>1. n \in Nat /\ Sorted(sample) \in [1..n -> Int] /\ Climbs(A, B, n)
  BY SortedIs, PointsClimb
<1>2. /\ L \in Nat /\ a \in 0..n /\ c \in 0..n /\ a < c
      /\ m = Frac(A[c] - A[a], B[c] - B[a])
  BY BlocksAre
<1>3. \A k \in 0..n : Under(A, B, a, c, k)
  BY DEF Fitted, Held
<1>4. Isotonic(i) = Largest(all)
  <2>1. Len(Sorted(sample)) = n
    BY <1>1
  <2> QED BY <2>1 DEF Isotonic, Sorted, From
<1>5. ASSUME NEW j \in 1..i, NEW k \in i..n
      PROVE  /\ mean(j, k) = Frac(A[k] - A[j - 1], B[k] - B[j - 1])
             /\ A[k] - A[j - 1] \in Int /\ B[k] - B[j - 1] \in Nat \ {0}
             /\ j - 1 \in 0..n /\ k \in 0..n /\ j - 1 < k
  <2>1. k \in 1..n /\ j \in 1..k /\ j - 1 \in 0..n /\ k \in 0..n /\ j - 1 < k
    BY <1>1
  <2>2. mean(j, k) = Frac(A[k] - A[j - 1], B[k] - B[j - 1])
    BY <2>1, FromIs
  <2>3. A[k] - A[j - 1] \in Int /\ B[k] - B[j - 1] \in Nat \ {0}
    <3> HIDE DEF A, B, n
    <3>1. \A p \in 0..n : A[p] \in Int
      BY <1>1, PointsAre
    <3>2. \A p, q \in 0..n : p < q => B[q] - B[p] \in Nat \ {0}
      BY <1>1, PointsAre
    <3> QED BY <2>1, <3>1, <3>2
  <2> QED BY <2>1, <2>2, <2>3
<1>6. A[c] - A[a] \in Int /\ B[c] - B[a] \in Nat \ {0}
  <2>1. a \in 0..n /\ c \in 0..n /\ a < c
    BY <1>2
  <2> HIDE DEF A, B, n, a, c
  <2>2. \A k \in 0..n : A[k] \in Int
    BY <1>1, PointsAre
  <2>3. \A j, k \in 0..n : j < k => B[k] - B[j] \in Nat \ {0}
    BY <1>1, PointsAre
  <2> QED BY <2>1, <2>2, <2>3
<1> SUFFICES Isotonic(i) = m
  OBVIOUS
<1>7. c \in i..n /\ a + 1 \in 1..i /\ (a + 1) - 1 = a /\ i \in 1..n
  <2>1. a < i /\ i <= c /\ i \in 1..n
    OBVIOUS
  <2> HIDE DEF a, c, n
  <2> QED BY <1>1, <1>2, <2>1
<1> HIDE DEF n, A, B, mean, m, L, a, c
<1>8. Lowest(m)
  BY <1>2, <1>6, FracIs
<1>9. ASSUME NEW j \in 1..i
      PROVE  /\ \A q \in lows(j) : Lowest(q)
             /\ IsFiniteSet(lows(j)) /\ lows(j) # {} /\ mean(j, c) \in lows(j)
  <2>1. \A q \in lows(j) : Lowest(q)
    <3> TAKE q \in lows(j)
    <3>1. PICK k \in i..n : q = mean(j, k)
      OBVIOUS
    <3> QED BY <1>5, <3>1, FracIs
  <2>2. mean(j, c) \in lows(j)
    BY <1>7
  <2>3. IsFiniteSet(lows(j))
    <3>1. IsFiniteSet(i..n)
      BY <1>1, <1>7, FS_Interval
    <3> DEFINE f == [k \in i..n |-> mean(j, k)]
    <3>2. f \in [i..n -> lows(j)] /\ \A y \in lows(j) : \E k \in i..n : f[k] = y
      OBVIOUS
    <3> HIDE DEF f, lows
    <3> QED BY <3>1, <3>2, ImageIsFinite
  <2> HIDE DEF lows
  <2> QED BY <2>1, <2>2, <2>3
<1>10. Smallest(lows(a + 1)) = m
  <2>1. mean(a + 1, c) = m
    BY <1>2, <1>5, <1>7
  <2>2. ASSUME NEW k \in i..n PROVE AtMost(m, mean(a + 1, k))
    <3>1. Under(A, B, a, c, k)
      BY <1>3, <1>5, <1>7
    <3>2. (A[c] - A[a]) * (B[k] - B[a]) <= (A[k] - A[a]) * (B[c] - B[a])
      BY <3>1 DEF Under
    <3>3. /\ mean(a + 1, k) = Frac(A[k] - A[a], B[k] - B[a])
          /\ A[k] - A[a] \in Int /\ B[k] - B[a] \in Nat \ {0}
      BY <1>5, <1>7
    <3> DEFINE p == A[c] - A[a]
               q == B[c] - B[a]
               r == A[k] - A[a]
               u == B[k] - B[a]
    <3>4. AtMost(Frac(p, q), Frac(r, u)) <=> p * u <= r * q
      <4>1. p \in Int /\ q \in Nat \ {0} /\ r \in Int /\ u \in Nat \ {0}
        BY <1>6, <3>3
      <4> HIDE DEF p, q, r, u
      <4> QED BY <4>1, FracAtMost
    <3> QED BY <1>2, <3>2, <3>3, <3>4
  <2>3. \A q \in lows(a + 1) : AtMost(m, q)
    BY <2>2
  <2> HIDE DEF lows
  <2> QED BY <1>7, <1>9, <2>1, <2>3, ExtremesAre
<1>11. ASSUME NEW j \in 1..i PROVE AtMost(Smallest(lows(j)), m) /\ Lowest(Smallest(lows(j)))
  <2>1. /\ Smallest(lows(j)) \in lows(j) /\ Lowest(Smallest(lows(j)))
        /\ AtMost(Smallest(lows(j)), mean(j, c)) /\ Lowest(mean(j, c))
    <3> HIDE DEF lows
    <3>1. Smallest(lows(j)) \in lows(j) /\ \A q \in lows(j) : AtMost(Smallest(lows(j)), q)
      BY <1>9, SmallestIs
    <3> QED BY <1>9, <3>1
  <2>2. AtMost(mean(j, c), m)
    <3> DEFINE b == j - 1
    <3>1. /\ mean(j, c) = Frac(A[c] - A[b], B[c] - B[b])
          /\ A[c] - A[b] \in Int /\ B[c] - B[b] \in Nat \ {0} /\ b \in 0..n
      BY <1>5, <1>7
    <3> HIDE DEF b
    <3>2. (A[c] - A[b]) * (B[c] - B[a]) <= (A[c] - A[a]) * (B[c] - B[b])
      <4>1. Under(A, B, a, c, b)
        BY <1>3, <3>1
      <4> QED BY <1>1, <1>2, <3>1, <4>1, UnderFromRight
    <3> DEFINE p == A[c] - A[a]
               q == B[c] - B[a]
               r == A[c] - A[b]
               u == B[c] - B[b]
    <3>3. AtMost(Frac(r, u), Frac(p, q)) <=> r * q <= p * u
      <4>1. p \in Int /\ q \in Nat \ {0} /\ r \in Int /\ u \in Nat \ {0}
        BY <1>6, <3>1
      <4> HIDE DEF p, q, r, u
      <4> QED BY <4>1, FracAtMost
    <3> QED BY <1>2, <3>1, <3>2, <3>3
  <2> HIDE DEF lows
  <2>3. AtMost(Smallest(lows(j)), m)
    BY <1>8, <2>1, <2>2, AtMostTransitive
  <2> QED BY <2>1, <2>3
<1> HIDE DEF lows
<1>12. Largest(all) = m
  <2>1. m \in all
    BY <1>7, <1>10
  <2>2. \A q \in all : Lowest(q) /\ AtMost(q, m)
    BY <1>11
  <2> HIDE DEF all
  <2> QED BY <2>1, <2>2, ExtremesAre
<1> QED BY <1>4, <1>12

\* Rows are as the lemmas take them.
LEMMA SampleIs == ASSUME sample \in Seq(LabelledRow) PROVE IsSample(sample)
<1>1. IsFiniteSet(DOMAIN sample)
  BY RowsAre
<1>2. \A i \in DOMAIN sample : sample[i] \in LabelledRow
  OBVIOUS
<1>3. \A i \in DOMAIN sample : /\ sample[i].score \in Int /\ sample[i].label \in BOOLEAN
                               /\ sample[i].weight \in Nat \ {0}
  <2> TAKE i \in DOMAIN sample
  <2>1. /\ sample[i].score \in ScoreRange /\ sample[i].label \in BOOLEAN
        /\ sample[i].weight \in Weights
    BY <1>2 DEF LabelledRow
  <2>2. ScoreRange \subseteq Nat /\ Weights \subseteq Nat \ {0}
    BY SamplesAssumption
  <2>3. sample[i].score \in Nat
    BY <2>1, <2>2
  <2>4. sample[i].weight \in Nat \ {0}
    BY <2>1, <2>2
  <2>5. \A k \in Nat : k \in Int
    OBVIOUS
  <2> QED BY <2>1, <2>3, <2>4, <2>5
<1> QED BY <1>1, <1>3 DEF IsSample

\* calibration.py: pooling adjacent violators, however the rows are tied and
\* weighted, gives the isotonic regression of the labels at every score: for
\* samples of any length.
THEOREM FitIsAlwaysIsotonic == SamplesSpec => []FitIsIsotonic
<1>1. sample \in Seq(LabelledRow) => FitIsIsotonic
  <2> SUFFICES ASSUME sample \in Seq(LabelledRow), NEW i \in 1..Cardinality(Scores(sample))
               PROVE  Predict(Fit(sample), Ascending(Scores(sample))[i]) = Isotonic(i)
    BY DEF FitIsIsotonic
  <2>1. IsSample(sample)
    BY SampleIs
  <2>2. PICK e : Fitted(sample, e)
    BY <2>1, BlocksHold DEF Fitted
  <2>3. Steps(sample) \in Nat /\ i \in 1..Steps(sample)
    BY <2>1, SortedIs DEF Steps
  <2>4. PICK t \in 1..Len(Blocks(sample)) : e[t - 1] < i /\ i <= e[t]
    <3>1. Cuts(Blocks(sample), e, Steps(sample), Sorted(sample), HarmUpto(sample),
               WeightUpto(sample))
      BY <2>2 DEF Fitted, Held
    <3> QED BY <2>3, <3>1, CutAround
  <2>5. Predict(Fit(sample), Sorted(sample)[i]) = Mean(Blocks(sample)[t])
    BY <2>1, <2>2, <2>3, <2>4, PredictIs
  <2>6. Isotonic(i) = Mean(Blocks(sample)[t])
    BY <2>1, <2>2, <2>3, <2>4, IsotonicIs
  <2> QED BY <2>5, <2>6 DEF Sorted
<1> QED BY <1>1, SamplesAreRows, PTL

-----------------------------------------------------------------------------
(* Calibration: the scores that the map gives one value.                    *)

\* Means of blocks do not fall.
LEMMA SlopesClimb ==
  ASSUME NEW n, NEW A, NEW B, Climbs(A, B, n),
         NEW a \in 0..n, NEW c \in 0..n, NEW b \in 0..n, NEW d \in 0..n,
         a < c, c <= b, b < d, Under(A, B, a, c, d), Under(A, B, b, d, a)
  PROVE  (A[c] - A[a]) * (B[d] - B[b]) <= (A[d] - A[b]) * (B[c] - B[a])
<1> DEFINE x == A[c] - A[a]
           w == B[c] - B[a]
           y == A[d] - A[a]
           v == B[d] - B[a]
           z == A[d] - A[b]
           u == B[d] - B[b]
<1>1. n \in Nat /\ a < d /\ \A k \in 0..n : A[k] \in Int
  BY PointsAre DEF Climbs
<1>2. \A j, k \in 0..n : j < k => B[k] - B[j] \in Nat \ {0}
  BY PointsAre
<1>3. x \in Int /\ y \in Int /\ z \in Int
  BY <1>1
<1>4. w \in Nat \ {0} /\ v \in Nat \ {0} /\ u \in Nat \ {0}
  BY <1>1, <1>2
<1>5. x * v <= y * w
  BY DEF Under
<1>6. y * u <= z * v
  BY UnderFromRight
<1> HIDE DEF x, y, z, w, v, u
<1>7. x * u <= z * w
  BY <1>3, <1>4, <1>5, <1>6, SlopesCompare
<1> QED BY <1>7 DEF x, y, z, w, v, u

\* Blocks of one mean make a run that has no point below its line either.
LEMMA MergedLine ==
  ASSUME NEW n, NEW A, NEW B, Climbs(A, B, n),
         NEW a \in 0..n, NEW c \in 0..n, NEW b \in 0..n, NEW d \in 0..n, NEW k \in 0..n,
         a < c, c <= d, b < d, a <= b, a <= k, Under(A, B, a, c, k), Under(A, B, b, d, a),
         (A[d] - A[b]) * (B[c] - B[a]) = (A[c] - A[a]) * (B[d] - B[b])
  PROVE  Under(A, B, a, d, k)
<1> DEFINE x == A[d] - A[a]
           w == B[d] - B[a]
           y == A[d] - A[b]
           v == B[d] - B[b]
           z == A[c] - A[a]
           u == B[c] - B[a]
           h == A[k] - A[a]
           g == B[k] - B[a]
<1>1. n \in Nat /\ a < d /\ \A i \in 0..n : A[i] \in Int
  BY PointsAre DEF Climbs
<1>2. /\ \A i, j \in 0..n : i < j => B[j] - B[i] \in Nat \ {0}
      /\ \A i, j \in 0..n : i <= j => B[j] - B[i] \in Nat
  BY PointsAre
<1>3. x \in Int /\ y \in Int /\ z \in Int /\ h \in Int
  BY <1>1
<1>4. w \in Nat \ {0} /\ v \in Nat \ {0} /\ u \in Nat \ {0} /\ g \in Nat
  BY <1>1, <1>2
<1>5. x * v <= y * w
  BY UnderFromRight
<1>6. y * u = z * v
  OBVIOUS
<1>7. z * g <= h * u
  BY DEF Under
<1>8. Under(A, B, a, d, k) <=> x * g <= h * w
  BY DEF Under
<1> HIDE DEF x, y, z, w, v, u, h, g
<1>9. y * u <= z * v
  <2>1. \A i, j \in Int : i * j \in Int
    BY Z3
  <2>2. z * v \in Int
    BY <1>3, <1>4, <2>1
  <2> QED BY <1>6, <2>2
<1>10. x * u <= z * w
  BY <1>3, <1>4, <1>5, <1>9, SlopesCompare
<1>11. x * g <= h * w
  BY <1>3, <1>4, <1>7, <1>10, SlopesCompare
<1> QED BY <1>8, <1>11

\* The means of the blocks, the first to the last.
LEMMA MeansClimb ==
  ASSUME NEW s, IsSample(s), NEW e, Fitted(s, e)
  PROVE  /\ \A t \in 1..Len(Blocks(s)) : Lowest(Mean(Blocks(s)[t]))
         /\ \A t, u \in 1..Len(Blocks(s)) : t <= u => AtMost(Mean(Blocks(s)[t]), Mean(Blocks(s)[u]))
<1> DEFINE n == Steps(s)
           A == HarmUpto(s)
           B == WeightUpto(s)
           L == Len(Blocks(s))
           M(t) == Mean(Blocks(s)[t])
<1>1. /\ L \in Nat /\ \A t \in 0..L : e[t] \in 0..n
      /\ \A t, u \in 0..L : t < u => e[t] < e[u]
      /\ \A t \in 1..L :
           /\ A[e[t]] - A[e[t - 1]] \in Int /\ B[e[t]] - B[e[t - 1]] \in Nat \ {0}
           /\ M(t) = Frac(A[e[t]] - A[e[t - 1]], B[e[t]] - B[e[t - 1]])
  BY BlocksAre
<1>2. Climbs(A, B, n) /\ n \in Nat
  BY PointsClimb, SortedIs
<1>3. \A t \in 1..L : \A k \in 0..n : Under(A, B, e[t - 1], e[t], k)
  BY DEF Fitted, Held
<1> HIDE DEF n, A, B, L
<1>4. \A t \in 1..L : Lowest(M(t))
  <2> TAKE t \in 1..L
  <2> DEFINE h == A[e[t]] - A[e[t - 1]]
             w == B[e[t]] - B[e[t - 1]]
  <2>1. h \in Int /\ w \in Nat \ {0} /\ M(t) = Frac(h, w)
    BY <1>1
  <2> HIDE DEF h, w, M
  <2> QED BY <2>1, FracIs
<1>5. ASSUME NEW t \in 1..L, NEW u \in 1..L, t <= u PROVE AtMost(M(t), M(u))
  <2>1. CASE t = u
    <3> HIDE DEF M
    <3> QED BY <1>4, <2>1, AtMostEither
  <2>2. CASE t # u
    <3> DEFINE a == e[t - 1]
               c == e[t]
               b == e[u - 1]
               d == e[u]
    <3>1. t - 1 \in 0..L /\ t \in 0..L /\ u - 1 \in 0..L /\ u \in 0..L
          /\ t - 1 < t /\ u - 1 < u /\ (t = u - 1 \/ t < u - 1)
      BY <1>1, <1>5, <2>2
    <3>2. a \in 0..n /\ c \in 0..n /\ b \in 0..n /\ d \in 0..n /\ a < c /\ b < d
      BY <1>1, <3>1
    <3>3. c = b \/ c < b
      BY <1>1, <3>1
    <3>4. c <= b
      <4> HIDE DEF c, b
      <4> QED BY <3>2, <3>3
    <3>5. Under(A, B, a, c, d) /\ Under(A, B, b, d, a)
      BY <1>3, <3>2
    <3>6. (A[c] - A[a]) * (B[d] - B[b]) <= (A[d] - A[b]) * (B[c] - B[a])
      <4> HIDE DEF a, b, c, d
      <4> QED BY <1>2, <3>2, <3>4, <3>5, SlopesClimb
    <3> DEFINE h == A[c] - A[a]
               w == B[c] - B[a]
               g == A[d] - A[b]
               v == B[d] - B[b]
    <3>7. h \in Int /\ w \in Nat \ {0} /\ M(t) = Frac(h, w)
      BY <1>1
    <3>8. g \in Int /\ v \in Nat \ {0} /\ M(u) = Frac(g, v)
      BY <1>1
    <3>9. h * v <= g * w
      BY <3>6
    <3> HIDE DEF h, w, g, v, M
    <3> QED BY <3>7, <3>8, <3>9, FracAtMost
  <2> QED BY <2>1, <2>2
<1> HIDE DEF M
<1>6. \A t, u \in 1..L : t <= u => AtMost(M(t), M(u))
  BY <1>5
<1> QED BY <1>4, <1>6 DEF M, L

\* What the map gives the scores.
ValueAt(s) == [k \in 1..Steps(s) |-> Predict(Fit(s), Sorted(s)[k])]

\* The map climbs, and the scores of a value are a run that no point is below.
LEMMA LevelIs ==
  ASSUME NEW s, IsSample(s), NEW value, value = ValueAt(s)
  PROVE  /\ \A k \in 1..Steps(s) : Lowest(value[k])
         /\ \A j, k \in 1..Steps(s) : j <= k => AtMost(value[j], value[k])
         /\ \A i \in 1..Steps(s) : \E a, c \in 0..Steps(s) :
              /\ a < c
              /\ \A k \in 1..Steps(s) : value[k] = value[i] <=> a < k /\ k <= c
              /\ \A k \in 0..Steps(s) : a <= k => Under(HarmUpto(s), WeightUpto(s), a, c, k)
<1> DEFINE n == Steps(s)
           A == HarmUpto(s)
           B == WeightUpto(s)
           L == Len(Blocks(s))
           M(t) == Mean(Blocks(s)[t])
<1>1. PICK e : Fitted(s, e)
  BY BlocksHold DEF Fitted
<1>2. /\ L \in Nat /\ \A t \in 0..L : e[t] \in 0..n
      /\ \A t, u \in 0..L : t < u => e[t] < e[u]
      /\ \A t \in 1..L :
           /\ A[e[t]] - A[e[t - 1]] \in Int /\ B[e[t]] - B[e[t - 1]] \in Nat \ {0}
           /\ M(t) = Frac(A[e[t]] - A[e[t - 1]], B[e[t]] - B[e[t - 1]])
  BY <1>1, BlocksAre
<1>3. Climbs(A, B, n) /\ n \in Nat
  BY PointsClimb, SortedIs
<1>4. \A t \in 1..L : \A k \in 0..n : Under(A, B, e[t - 1], e[t], k)
  BY <1>1 DEF Fitted, Held
<1>5. /\ \A t \in 1..L : Lowest(M(t))
      /\ \A t, u \in 1..L : t <= u => AtMost(M(t), M(u))
  BY <1>1, MeansClimb
<1>6. \A i \in 1..n : \A t \in 1..L : e[t - 1] < i /\ i <= e[t] => value[i] = M(t)
  BY <1>1, PredictIs DEF ValueAt
<1>7. \A i \in 1..n : \E t \in 1..L : e[t - 1] < i /\ i <= e[t]
  <2>1. Cuts(Blocks(s), e, n, Sorted(s), A, B)
    BY <1>1 DEF Fitted, Held
  <2> QED BY <1>3, <2>1, CutAround
<1>8. \A i \in 1..n : value[i] = Predict(Fit(s), Sorted(s)[i])
  BY DEF ValueAt
<1> HIDE DEF n, A, B, L, M
<1>9. \A i \in 1..n : Lowest(value[i])
  <2> TAKE i \in 1..n
  <2>1. PICK t \in 1..L : e[t - 1] < i /\ i <= e[t]
    BY <1>7
  <2> QED BY <1>5, <1>6, <2>1
\* Cuts in order.
<1>10. ASSUME NEW t \in 0..L, NEW u \in 0..L, t <= u PROVE e[t] <= e[u]
  <2>1. t = u \/ t < u
    BY <1>2, <1>10
  <2>2. e[t] \in 0..n /\ e[u] \in 0..n
    BY <1>2
  <2>3. e[t] = e[u] \/ e[t] < e[u]
    BY <1>2, <2>1
  <2> QED BY <2>2, <2>3
<1>11. ASSUME NEW i \in 1..n, NEW t \in 1..L, i <= e[t], NEW u \in 1..L, e[u - 1] < i
       PROVE  u <= t
  <2> SUFFICES ASSUME t < u PROVE FALSE
    BY <1>2
  <2>1. t \in 0..L /\ u - 1 \in 0..L /\ t <= u - 1
    BY <1>2
  <2>2. e[t] <= e[u - 1] /\ e[t] \in 0..n /\ e[u - 1] \in 0..n
    BY <1>2, <1>10, <2>1
  <2> QED BY <1>11, <2>2
<1>12. \A j, k \in 1..n : j <= k => AtMost(value[j], value[k])
  <2> TAKE j, k \in 1..n
  <2> HAVE j <= k
  <2>1. PICK t \in 1..L : e[t - 1] < j /\ j <= e[t]
    BY <1>7
  <2>2. PICK u \in 1..L : e[u - 1] < k /\ k <= e[u]
    BY <1>7
  <2>3. j <= e[u] /\ u \in 0..L /\ t \in 0..L
    <3>1. u \in 0..L /\ t \in 0..L
      BY <1>2
    <3>2. e[u] \in 0..n
      BY <1>2, <3>1
    <3> QED BY <1>3, <2>2, <3>1, <3>2
  <2>4. t <= u
    BY <1>11, <2>1, <2>3
  <2> QED BY <1>5, <1>6, <2>1, <2>2, <2>4
<1>13. ASSUME NEW i \in 1..n
       PROVE  \E a, c \in 0..n :
                /\ a < c
                /\ \A k \in 1..n : value[k] = value[i] <=> a < k /\ k <= c
                /\ \A k \in 0..n : a <= k => Under(A, B, a, c, k)
  <2> DEFINE T == {t \in 1..L : M(t) = value[i]}
  <2>1. T \in SUBSET Int /\ IsFiniteSet(T) /\ T # {}
    <3>1. IsFiniteSet(1..L) /\ 1..L \in SUBSET Int
      BY <1>2, FS_Interval
    <3>2. IsFiniteSet(T)
      BY <3>1, FS_Subset
    <3>3. PICK t \in 1..L : e[t - 1] < i /\ i <= e[t]
      BY <1>7
    <3>4. t \in T
      BY <1>6, <3>3
    <3> QED BY <3>1, <3>2, <3>4
  <2> DEFINE p == Min(T)
             q == Max(T)
             a == e[p - 1]
             c == e[p]
             b == e[q - 1]
             d == e[q]
  <2>2. p \in T /\ q \in T /\ \A t \in T : p <= t /\ q >= t
    <3> HIDE DEF T
    <3> QED BY <2>1, MinOfFinite, MaxOfFinite
  <2> HIDE DEF p, q
  <2>3. /\ p \in 1..L /\ q \in 1..L /\ M(p) = value[i] /\ M(q) = value[i] /\ p <= q
        /\ p - 1 \in 0..L /\ p \in 0..L /\ q - 1 \in 0..L /\ q \in 0..L
        /\ p - 1 < p /\ q - 1 < q /\ p - 1 <= q - 1
    <3>1. p \in 1..L /\ q \in 1..L /\ M(p) = value[i] /\ M(q) = value[i] /\ p <= q
      BY <2>2
    <3> QED BY <1>2, <3>1
  <2>4. /\ a \in 0..n /\ c \in 0..n /\ b \in 0..n /\ d \in 0..n /\ a < c /\ b < d
        /\ a <= b /\ c <= d
    BY <1>2, <1>10, <2>3
  <2>5. a < d
    <3> HIDE DEF a, b, c, d
    <3> QED BY <1>3, <2>4
  <2>6. ASSUME NEW t \in 1..L PROVE M(t) = value[i] <=> p <= t /\ t <= q
    <3>1. M(t) = value[i] => p <= t /\ t <= q
      <4>1. M(t) = value[i] => p <= t /\ q >= t
        BY <2>2
      <4> QED BY <1>2, <2>3, <4>1
    <3>2. ASSUME p <= t, t <= q PROVE M(t) = value[i]
      <4>1. AtMost(M(p), M(t)) /\ AtMost(M(t), M(q))
        BY <1>5, <2>3, <3>2
      <4> QED BY <1>5, <2>3, <4>1, AtMostEither
    <3> QED BY <3>1, <3>2
  <2>7. ASSUME NEW k \in 1..n PROVE value[k] = value[i] <=> a < k /\ k <= d
    <3>1. PICK t \in 1..L : e[t - 1] < k /\ k <= e[t]
      BY <1>7
    <3>2. value[k] = value[i] <=> p <= t /\ t <= q
      BY <1>6, <2>6, <3>1
    <3>3. a < k => p <= t
      BY <1>11, <2>3, <3>1
    <3>4. k <= d => t <= q
      BY <1>11, <2>3, <3>1
    <3>5. p <= t => a < k
      <4> HAVE p <= t
      <4>1. p - 1 <= t - 1 /\ t - 1 \in 0..L
        BY <1>2, <2>3
      <4>2. a <= e[t - 1] /\ e[t - 1] \in 0..n
        BY <1>2, <1>10, <2>3, <4>1
      <4> HIDE DEF a
      <4> QED BY <1>3, <2>4, <3>1, <4>2
    <3>6. t <= q => k <= d
      <4> HAVE t <= q
      <4>1. t \in 0..L
        BY <1>2
      <4>2. e[t] <= d /\ e[t] \in 0..n
        BY <1>2, <1>10, <2>3, <4>1
      <4> HIDE DEF d
      <4> QED BY <1>3, <2>4, <3>1, <4>2
    <3> QED BY <3>2, <3>3, <3>4, <3>5, <3>6
  <2>8. ASSUME NEW k \in 0..n, a <= k PROVE Under(A, B, a, d, k)
    <3>1. Under(A, B, a, c, k) /\ Under(A, B, b, d, a)
      BY <1>4, <2>3, <2>4
    <3> DEFINE h == A[c] - A[a]
               w == B[c] - B[a]
               g == A[d] - A[b]
               v == B[d] - B[b]
    <3>2. h \in Int /\ w \in Nat \ {0} /\ M(p) = Frac(h, w)
      BY <1>2, <2>3
    <3>3. g \in Int /\ v \in Nat \ {0} /\ M(q) = Frac(g, v)
      BY <1>2, <2>3
    <3>4. g * w = h * v
      <4>1. Frac(h, w) = Frac(g, v)
        BY <2>3, <3>2, <3>3
      <4>2. h \in Int /\ w \in Nat \ {0} /\ g \in Int /\ v \in Nat \ {0}
        BY <3>2, <3>3
      <4> HIDE DEF h, w, g, v
      <4>3. h * v = g * w
        BY <4>1, <4>2, FracAtMost
      <4> QED BY <4>3
    <3>5. (A[d] - A[b]) * (B[c] - B[a]) = (A[c] - A[a]) * (B[d] - B[b])
      BY <3>4
    <3> HIDE DEF a, b, c, d, h, w, g, v
    <3> QED BY <1>3, <2>4, <2>8, <3>1, <3>5, MergedLine
  <2> HIDE DEF a, b, c, d
  <2> QED BY <2>4, <2>5, <2>7, <2>8
<1> QED BY <1>9, <1>12, <1>13 DEF n, A, B

\* A factor of every summand is a factor of the sum.
LEMMA SumOfScaled ==
  ASSUME NEW S, IsFiniteSet(S), NEW w \in Int, NEW v, NEW u,
         \A i \in S : v[i] \in Int /\ u[i] = w * v[i]
  PROVE  SumOf(u, S) = w * SumOf(v, S) /\ SumOf(v, S) \in Int
<1> DEFINE P == {q \in SUBSET S : SumOf(u, q) = w * SumOf(v, q)}
<1>1. {} \in P
  <2>1. w * 0 = 0
    OBVIOUS
  <2> QED BY <2>1, SumOfNone
<1>2. ASSUME NEW q \in SUBSET S, NEW i \in S \ q, q \in P PROVE q \cup {i} \in P
  <2>1. IsFiniteSet(q) /\ i \notin q
    BY FS_Subset
  <2>2. \A a, b \in Int : a * b \in Int
    BY Z3
  <2>3. \A y \in q \cup {i} : v[y] \in Int /\ u[y] \in Int
    BY <2>2
  <2>4. SumOf(v, q) \in Int /\ SumOf(v, q \cup {i}) = v[i] + SumOf(v, q)
    BY <2>1, <2>3, SumOfMore
  <2>5. SumOf(u, q \cup {i}) = u[i] + SumOf(u, q)
    BY <2>1, <2>3, SumOfMore
  <2>6. SumOf(u, q) = w * SumOf(v, q) /\ u[i] = w * v[i] /\ v[i] \in Int
    BY <1>2
  <2>7. \A a, b, c \in Int : a * (b + c) = a * b + a * c
    BY Z3
  <2>8. w * (v[i] + SumOf(v, q)) = w * v[i] + w * SumOf(v, q)
    BY <2>4, <2>6, <2>7
  <2>9. SumOf(u, q \cup {i}) = w * SumOf(v, q \cup {i})
    BY <2>4, <2>5, <2>6, <2>8
  <2> QED BY <2>9
<1>3. S \in P
  <2> HIDE DEF P
  <2> QED BY <1>1, <1>2, GrowingSets
<1> QED BY <1>3, SumOfInts

\* The positives of a set come early: of the rows below a row, or up to it, the share of
\* positives is no less than that of the set.  Their ranks then add up to no more than if
\* all rows tied.
Early(S, P, f, low, upto) ==
  /\ IsFiniteSet(S) /\ P \in SUBSET S /\ \A i \in S : f[i] \in Int
  /\ \A i \in P : low[i] \in SUBSET S /\ \A j \in S : j \in low[i] <=> f[j] < f[i]
  /\ \A i \in P : upto[i] \in SUBSET S /\ \A j \in S : j \in upto[i] <=> f[j] <= f[i]
  /\ \A i \in P :
       /\ Cardinality(P) * Cardinality(upto[i]) <= Cardinality(S) * Cardinality(P \cap upto[i])
       /\ Cardinality(P) * Cardinality(low[i]) <= Cardinality(S) * Cardinality(P \cap low[i])

\* The rows below a positive, and up to it, for all of them.
LEMMA EarlyPositives ==
  ASSUME NEW S, NEW P, NEW f, NEW low, NEW upto, Early(S, P, f, low, upto),
         NEW b, \A i \in P : b[i] = Cardinality(low[i]) + Cardinality(upto[i])
  PROVE  SumOf(b, P) <= Cardinality(P) * Cardinality(S) /\ SumOf(b, P) \in Int
<1> DEFINE p == Cardinality(P)
           n == Cardinality(S)
           below(i) == Cardinality({j \in P : f[j] < f[i]})
           atMost(i) == Cardinality({j \in P : f[j] <= f[i]})
           tied(i) == Cardinality({j \in P : f[j] = f[i]})
           q == [i \in P |-> below(i) + atMost(i)]
           pb == [i \in P |-> p * b[i]]
           nq == [i \in P |-> n * q[i]]
<1> USE DEF Early
<1>1. IsFiniteSet(P) /\ p \in Nat /\ n \in Nat
  BY FS_Subset, FS_CardinalityType
<1>2. \A i \in P : /\ below(i) \in Nat /\ atMost(i) \in Nat /\ tied(i) \in Nat
                   /\ atMost(i) = below(i) + tied(i)
  <2> TAKE i \in P
  <2> DEFINE D == {j \in P : f[j] < f[i]}
             E == {j \in P : f[j] = f[i]}
  <2>1. IsFiniteSet(D) /\ IsFiniteSet(E) /\ D \cap E = {}
    <3>1. D \cap E = {}
      OBVIOUS
    <3> QED BY <1>1, <3>1, FS_Subset
  <2>2. {j \in P : f[j] <= f[i]} = D \cup E
    <3>1. \A j \in P : f[j] <= f[i] <=> (f[j] < f[i] \/ f[j] = f[i])
      OBVIOUS
    <3> QED BY <3>1
  <2>3. /\ Cardinality(D \cup E) = Cardinality(D) + Cardinality(E)
        /\ Cardinality(D) \in Nat /\ Cardinality(E) \in Nat
    <3> HIDE DEF D, E
    <3> QED BY <2>1, DisjointCount
  <2>4. below(i) = Cardinality(D) /\ tied(i) = Cardinality(E) /\ atMost(i) = Cardinality(D \cup E)
    BY <2>2
  <2> HIDE DEF D, E, below, atMost, tied
  <2> QED BY <2>3, <2>4
<1>3. SumOf(q, P) = p * p
  <2> DEFINE k == [i \in P |-> f[i]]
  <2>1. k \in [P -> Int]
    OBVIOUS
  <2>2. \A i \in P : /\ {j \in P : k[j] < k[i]} = {j \in P : f[j] < f[i]}
                     /\ {j \in P : k[j] = k[i]} = {j \in P : f[j] = f[i]}
    OBVIOUS
  <2>3. \A i \in P : q[i] = 2 * below(i) + tied(i)
    <3> TAKE i \in P
    <3>1. q[i] = below(i) + atMost(i)
      OBVIOUS
    <3> HIDE DEF below, atMost, tied, q
    <3> QED BY <1>2, <3>1
  <2>4. \A i \in P : q[i] = 2 * Cardinality({j \in P : k[j] < k[i]})
                            + Cardinality({j \in P : k[j] = k[i]})
    BY <2>2, <2>3
  <2> HIDE DEF k, q, p
  <2>5. SumOf(q, P) = Cardinality(P) * Cardinality(P)
    BY <1>1, <2>1, <2>4, PairsWithSelf
  <2> QED BY <2>5 DEF p
<1>4. \A i \in P : b[i] \in Int /\ p * b[i] <= n * q[i] /\ q[i] \in Int /\ n * q[i] >= 0
                   /\ p * b[i] \in Int /\ n * q[i] \in Int
  <2> TAKE i \in P
  <2> DEFINE c == Cardinality(low[i])
             d == Cardinality(upto[i])
  <2>1. c \in Nat /\ d \in Nat
    <3>1. IsFiniteSet(low[i]) /\ IsFiniteSet(upto[i])
      BY FS_Subset
    <3> QED BY <3>1, FS_CardinalityType
  <2>2. b[i] = c + d /\ q[i] = below(i) + atMost(i)
    OBVIOUS
  <2>3. p * d <= n * atMost(i) /\ p * c <= n * below(i)
    <3>1. P \cap upto[i] = {j \in P : f[j] <= f[i]} /\ P \cap low[i] = {j \in P : f[j] < f[i]}
      OBVIOUS
    <3> QED BY <3>1
  <2> HIDE DEF c, d, below, atMost, p, n, q
  <2>4. below(i) \in Nat /\ atMost(i) \in Nat
    BY <1>2
  <2>5. /\ \A x, y, z \in Nat : x * (y + z) = x * y + x * z
        /\ \A x, y \in Nat : x * y \in Nat
    BY Z3
  <2>6. /\ p * (c + d) = p * c + p * d /\ n * (below(i) + atMost(i)) = n * below(i) + n * atMost(i)
        /\ p * c \in Nat /\ p * d \in Nat /\ n * below(i) \in Nat /\ n * atMost(i) \in Nat
    BY <1>1, <2>1, <2>4, <2>5
  <2> QED BY <2>1, <2>2, <2>3, <2>4, <2>6
<1> HIDE DEF q
<1>5. SumOf(pb, P) = p * SumOf(b, P) /\ SumOf(b, P) \in Int
  <2>1. \A i \in P : b[i] \in Int /\ pb[i] = p * b[i]
    BY <1>4
  <2>2. p \in Int
    BY <1>1
  <2> HIDE DEF p, pb
  <2> QED BY <1>1, <2>1, <2>2, SumOfScaled
<1>6. SumOf(nq, P) = n * (p * p)
  <2>1. \A i \in P : q[i] \in Int /\ nq[i] = n * q[i]
    BY <1>4
  <2>2. n \in Int
    BY <1>1
  <2> HIDE DEF n, nq, p
  <2>3. SumOf(nq, P) = n * SumOf(q, P)
    BY <1>1, <2>1, <2>2, SumOfScaled
  <2> QED BY <1>3, <2>3
<1>7. SumOf(pb, P) <= SumOf(nq, P)
  <2>1. \A i \in P : nq[i] \in Int /\ nq[i] >= 0 /\ pb[i] \in Int /\ pb[i] <= nq[i]
    BY <1>4
  <2> HIDE DEF nq, pb
  <2> QED BY <1>1, <2>1, SumOfPart
<1> HIDE DEF pb, nq
<1>8. CASE p = 0
  <2>1. P = {}
    BY <1>1, <1>8, FS_EmptySet
  <2>2. SumOf(b, P) = 0 /\ p * n = 0
    <3>1. SumOf(b, P) = 0
      BY <2>1, SumOfNone
    <3>2. p * n = 0
      <4> HIDE DEF p, n
      <4> QED BY <1>1, <1>8
    <3> QED BY <3>1, <3>2
  <2> QED BY <1>5, <2>2
<1>9. CASE p # 0
  <2> DEFINE x == SumOf(b, P)
             y == p * n
  <2> HIDE DEF p, n, x
  <2>1. x \in Int /\ p \in Nat \ {0} /\ n \in Nat
    BY <1>1, <1>5, <1>9 DEF x
  <2>2. p * x <= n * (p * p)
    BY <1>5, <1>6, <1>7 DEF x
  <2>3. /\ \A i, j \in Int : i * j = j * i /\ i * j \in Int
        /\ \A i, j \in Int : i * (j * j) = (j * i) * j
    BY Z3
  <2>4. p * x = x * p /\ n * (p * p) = y * p /\ y \in Int
    BY <2>1, <2>3
  <2> HIDE DEF y
  <2>5. x * p <= y * p
    BY <2>2, <2>4
  <2>6. x <= y
    BY <2>1, <2>4, <2>5, ScaledOrder
  <2> QED BY <2>1, <2>6 DEF x, y, p, n
<1> QED BY <1>8, <1>9

\* Sums that are in order on each level are in order.
LEMMA LevelsAdd ==
  ASSUME NEW P, IsFiniteSet(P), NEW v, NEW u, \A i \in P : v[i] \in Int /\ u[i] \in Int,
         NEW C, IsFiniteSet(C), NEW c, \A i \in P : c[i] \in C,
         NEW at, \A z \in C : at[z] \in SUBSET P /\ \A i \in P : i \in at[z] <=> c[i] = z,
         \A z \in C : SumOf(v, at[z]) <= SumOf(u, at[z])
  PROVE  SumOf(v, P) <= SumOf(u, P)
<1> DEFINE in(q) == {i \in P : c[i] \in q}
           W == {q \in SUBSET C : SumOf(v, in(q)) <= SumOf(u, in(q))}
<1>1. {} \in W
  <2>1. in({}) = {} /\ {} \in SUBSET C /\ 0 <= 0
    OBVIOUS
  <2> HIDE DEF in
  <2> QED BY <2>1, SumOfNone
<1>2. ASSUME NEW q \in SUBSET C, NEW z \in C \ q, q \in W PROVE q \cup {z} \in W
  <2> DEFINE S == in(q)
             T == at[z]
  <2>1. IsFiniteSet(S) /\ IsFiniteSet(T) /\ S \cap T = {} /\ in(q \cup {z}) = S \cup T
    <3>1. IsFiniteSet(S) /\ IsFiniteSet(T)
      BY FS_Subset
    <3>2. S \cap T = {} /\ in(q \cup {z}) = S \cup T
      OBVIOUS
    <3> QED BY <3>1, <3>2
  <2>2. \A i \in S \cup T : v[i] \in Int /\ u[i] \in Int
    OBVIOUS
  <2>3. SumOf(v, T) <= SumOf(u, T)
    OBVIOUS
  <2>4. SumOf(v, S) <= SumOf(u, S)
    BY <1>2
  <2>5. q \cup {z} \in SUBSET C
    OBVIOUS
  <2> HIDE DEF S, T, in
  <2>6. /\ SumOf(v, S \cup T) = SumOf(v, S) + SumOf(v, T)
        /\ SumOf(v, S) \in Int /\ SumOf(v, T) \in Int
    BY <2>1, <2>2, SumOfTwo
  <2>7. /\ SumOf(u, S \cup T) = SumOf(u, S) + SumOf(u, T)
        /\ SumOf(u, S) \in Int /\ SumOf(u, T) \in Int
    BY <2>1, <2>2, SumOfTwo
  <2>8. SumOf(v, S \cup T) <= SumOf(u, S \cup T)
    BY <2>3, <2>4, <2>6, <2>7
  <2> QED BY <2>1, <2>5, <2>8
<1>4. in(C) = P
  OBVIOUS
<1>5. C \in W
  <2> HIDE DEF W
  <2> QED BY <1>1, <1>2, GrowingSets
<1> HIDE DEF in
<1> QED BY <1>4, <1>5

\* c is a coarser score than f.
Merges(D, P, f, c) ==
  /\ IsFiniteSet(D) /\ P \in SUBSET D /\ \A i \in D : f[i] \in Int /\ c[i] \in Int
  /\ \A i, j \in D : f[i] <= f[j] => c[i] <= c[j]

\* At each value of c, the positives come early in f.
EarlyLevels(D, P, f, c, at, low, upto) ==
  /\ \A i \in P : at[i] \in SUBSET D /\ \A j \in D : j \in at[i] <=> c[j] = c[i]
  /\ \A i \in P : Early(at[i], P \cap at[i], f, low, upto)

\* _mid_ranks, doubled, of a score.
RankAmong(D, f, i) ==
  (Cardinality({j \in D : f[j] < f[i]}) + 1)
    + (Cardinality({j \in D : f[j] < f[i]}) + Cardinality({j \in D : f[j] = f[i]}))

\* Then the coarser score ranks the positives no lower.
LEMMA MergedRanks ==
  ASSUME NEW D, NEW P, NEW f, NEW c, Merges(D, P, f, c),
         NEW at, NEW low, NEW upto, EarlyLevels(D, P, f, c, at, low, upto),
         NEW v, \A i \in P : v[i] = RankAmong(D, f, i),
         NEW u, \A i \in P : u[i] = RankAmong(D, c, i)
  PROVE  SumOf(v, P) <= SumOf(u, P) /\ SumOf(v, P) \in Int /\ SumOf(u, P) \in Int
<1> USE DEF Merges, EarlyLevels
<1>0. IsFiniteSet(P) /\ \A T \in SUBSET D : IsFiniteSet(T) /\ Cardinality(T) \in Nat
  BY FS_Subset, FS_CardinalityType
<1>1. \A i \in P : v[i] \in Int /\ u[i] \in Int
  <2> TAKE i \in P
  <2>1. /\ {j \in D : f[j] < f[i]} \in SUBSET D /\ {j \in D : f[j] = f[i]} \in SUBSET D
        /\ {j \in D : c[j] < c[i]} \in SUBSET D /\ {j \in D : c[j] = c[i]} \in SUBSET D
    OBVIOUS
  <2> DEFINE p == Cardinality({j \in D : f[j] < f[i]})
             q == Cardinality({j \in D : f[j] = f[i]})
             r == Cardinality({j \in D : c[j] < c[i]})
             t == Cardinality({j \in D : c[j] = c[i]})
  <2>2. p \in Nat /\ q \in Nat /\ r \in Nat /\ t \in Nat
    BY <1>0, <2>1
  <2>3. v[i] = (p + 1) + (p + q) /\ u[i] = (r + 1) + (r + t)
    BY DEF RankAmong
  <2> HIDE DEF p, q, r, t
  <2> QED BY <2>2, <2>3
<1>2. ASSUME NEW z \in {c[i] : i \in P}
      PROVE  SumOf(v, {i \in P : c[i] = z}) <= SumOf(u, {i \in P : c[i] = z})
  <2> DEFINE S == {j \in D : c[j] = z}
             Q == {i \in P : c[i] = z}
             X == {j \in D : c[j] < z}
             before(i) == {j \in S : f[j] < f[i]}
             within(i) == {j \in S : f[j] <= f[i]}
             k == 2 * Cardinality(X) + 1
             b == [i \in Q |-> Cardinality(before(i)) + Cardinality(within(i))]
             ks == [i \in Q |-> k]
             all == [i \in Q |-> Cardinality(S)]
  <2>1. /\ Q = P \cap S /\ Q \in SUBSET S /\ S \in SUBSET D /\ X \in SUBSET D
        /\ \A i \in Q : before(i) \in SUBSET D /\ within(i) \in SUBSET D
    OBVIOUS
  <2>2. IsFiniteSet(Q) /\ IsFiniteSet(S) /\ Cardinality(X) \in Nat /\ Cardinality(S) \in Nat
        /\ IsFiniteSet(X) /\ Cardinality(Q) \in Nat
        /\ \A i \in Q : Cardinality(before(i)) \in Nat /\ Cardinality(within(i)) \in Nat
    <3>1. Q \in SUBSET D
      BY <2>1
    <3> HIDE DEF Q, S, X, before, within
    <3> QED BY <1>0, <2>1, <3>1
  <2>3. ASSUME NEW i \in Q
        PROVE  v[i] = k + b[i] /\ u[i] = k + Cardinality(S)
    <3> DEFINE B == {j \in D : f[j] < f[i]}
               E == {j \in D : f[j] = f[i]}
    <3>1. i \in P /\ i \in D /\ c[i] = z
      OBVIOUS
    <3>2. /\ \A j \in D : f[j] < f[i] \/ f[j] = f[i] <=> f[j] <= f[i]
          /\ \A j \in D : f[j] <= f[i] => c[j] = z \/ c[j] < z
          /\ \A j \in D : c[j] < z => f[j] < f[i]
      <4>1. ASSUME NEW j \in D
            PROVE  /\ f[j] < f[i] \/ f[j] = f[i] <=> f[j] <= f[i]
                   /\ f[j] <= f[i] => c[j] = z \/ c[j] < z
                   /\ c[j] < z => f[j] < f[i]
        <5>1. f[j] \in Int /\ f[i] \in Int /\ c[j] \in Int /\ c[i] \in Int
              /\ (f[j] <= f[i] => c[j] <= c[i]) /\ (f[i] <= f[j] => c[i] <= c[j])
          BY <3>1
        <5> QED BY <3>1, <5>1
      <4> QED BY <4>1
    <3>3. /\ B = X \cup before(i) /\ X \cap before(i) = {}
          /\ B \cup E = X \cup within(i) /\ X \cap within(i) = {} /\ B \cap E = {}
      <4>1. \A j \in D : j \in X => j \notin S
        <5> TAKE j \in D
        <5>1. c[j] \in Int
          OBVIOUS
        <5> QED BY <5>1
      <4>2. \A j \in D : j \in B => j \notin E
        <5> TAKE j \in D
        <5>1. f[j] \in Int /\ f[i] \in Int
          BY <3>1
        <5> QED BY <5>1
      <4>3. \A j \in D : j \in B <=> j \in X \/ j \in before(i)
        BY <3>2
      <4>4. \A j \in D : j \in B \/ j \in E <=> j \in X \/ j \in within(i)
        BY <3>2
      <4>5. B \in SUBSET D /\ E \in SUBSET D /\ before(i) \in SUBSET S /\ within(i) \in SUBSET S
        OBVIOUS
      <4> HIDE DEF B, E, X, S, before, within
      <4> QED BY <2>1, <4>1, <4>2, <4>3, <4>4, <4>5
    <3>4. /\ IsFiniteSet(B) /\ IsFiniteSet(E) /\ IsFiniteSet(before(i)) /\ IsFiniteSet(within(i))
      BY <1>0, <2>1
    <3>5. v[i] = (Cardinality(B) + 1) + (Cardinality(B) + Cardinality(E))
      BY <3>1 DEF RankAmong
    <3>6. u[i] = (Cardinality(X) + 1) + (Cardinality(X) + Cardinality(S))
      BY <3>1 DEF RankAmong
    <3>7. b[i] = Cardinality(before(i)) + Cardinality(within(i))
      OBVIOUS
    <3> HIDE DEF B, E, X, S, before, within, b, Q
    <3>8. Cardinality(B) = Cardinality(X) + Cardinality(before(i))
      BY <2>2, <3>3, <3>4, DisjointCount
    <3>9. Cardinality(B \cup E) = Cardinality(X) + Cardinality(within(i))
      BY <2>2, <3>3, <3>4, DisjointCount
    <3>10. Cardinality(B \cup E) = Cardinality(B) + Cardinality(E)
           /\ Cardinality(B) \in Nat /\ Cardinality(E) \in Nat
      BY <3>3, <3>4, DisjointCount
    <3>11. Cardinality(before(i)) \in Nat /\ Cardinality(within(i)) \in Nat
      BY <2>2
    <3> QED BY <2>2, <3>5, <3>6, <3>7, <3>8, <3>9, <3>10, <3>11
  <2>4. Early(S, Q, f, low, upto)
    <3>1. PICK i \in P : c[i] = z
      OBVIOUS
    <3>2. at[i] = S /\ P \cap at[i] = Q
      BY <3>1
    <3>3. Early(at[i], P \cap at[i], f, low, upto)
      OBVIOUS
    <3> QED BY <3>2, <3>3
  <2>5. ASSUME NEW i \in Q PROVE b[i] = Cardinality(low[i]) + Cardinality(upto[i])
    <3>1. low[i] = before(i) /\ upto[i] = within(i)
      BY <2>4 DEF Early
    <3>2. b[i] = Cardinality(before(i)) + Cardinality(within(i))
      OBVIOUS
    <3> QED BY <3>1, <3>2
  <2>6. \A i \in Q : v[i] \in Int /\ u[i] \in Int
    BY <1>1
  <2>7. \A i \in Q : ks[i] = k /\ all[i] = Cardinality(S)
    OBVIOUS
  <2>8. k \in Int
    BY <2>2
  <2>9. \A i \in Q : b[i] \in Int
    BY <2>2
  <2> HIDE DEF S, Q, X, before, within, b, ks, all, k
  <2>10. SumOf(b, Q) <= Cardinality(Q) * Cardinality(S) /\ SumOf(b, Q) \in Int
    BY <2>4, <2>5, EarlyPositives
  <2>11. SumOf(all, Q) = Cardinality(Q) * Cardinality(S)
    <3>1. Cardinality(S) \in Int /\ \A i \in Q : all[i] = Cardinality(S)
      BY <2>2, <2>7
    <3>2. IsFiniteSet(Q)
      BY <2>2
    <3> DEFINE w == Cardinality(S)
    <3>3. w \in Int /\ \A i \in Q : all[i] = w
      BY <3>1
    <3> HIDE DEF w
    <3>4. SumOf(all, Q) = Cardinality(Q) * w
      BY <3>2, <3>3, SumOfEqual
    <3> QED BY <3>4 DEF w
  <2>12. SumOf(v, Q) = SumOf(ks, Q) + SumOf(b, Q)
    <3>1. \A i \in Q : ks[i] \in Int /\ b[i] \in Int /\ v[i] = ks[i] + b[i]
      BY <2>3, <2>7, <2>8, <2>9
    <3> QED BY <2>2, <3>1, SumOfAll
  <2>13. SumOf(u, Q) = SumOf(ks, Q) + SumOf(all, Q)
    <3>1. \A i \in Q : ks[i] \in Int /\ all[i] \in Int /\ u[i] = ks[i] + all[i]
      BY <2>2, <2>3, <2>7, <2>8
    <3> QED BY <2>2, <3>1, SumOfAll
  <2>14. SumOf(ks, Q) \in Int /\ SumOf(all, Q) \in Int
    BY <2>2, <2>7, <2>8, SumOfInts
  <2>15. SumOf(v, Q) <= SumOf(u, Q)
    BY <2>10, <2>11, <2>12, <2>13, <2>14
  <2> QED BY <2>15 DEF Q
<1>3. SumOf(v, P) \in Int /\ SumOf(u, P) \in Int
  BY <1>0, <1>1, SumOfInts
<1>4. SumOf(v, P) <= SumOf(u, P)
  <2> DEFINE C == {c[i] : i \in P}
             level == [z \in C |-> {i \in P : c[i] = z}]
             g == [i \in P |-> c[i]]
  <2>0. \A z \in C : SumOf(v, level[z]) <= SumOf(u, level[z])
    BY <1>2
  <2>1. \A z \in C : level[z] \in SUBSET P /\ \A i \in P : i \in level[z] <=> c[i] = z
    OBVIOUS
  <2>2. g \in [P -> C] /\ (\A z \in C : \E i \in P : g[i] = z) /\ \A i \in P : c[i] \in C
    OBVIOUS
  <2> HIDE DEF C, level, g
  <2>3. IsFiniteSet(P) /\ IsFiniteSet(C)
    BY <1>0, <2>2, ImageIsFinite
  <2> QED BY <1>1, <2>0, <2>1, <2>2, <2>3, LevelsAdd
<1> QED BY <1>3, <1>4

-----------------------------------------------------------------------------
(* Calibration keeps the ranking of the rows.                               *)

\* With rows of weight 1 the points are counts.
LEMMA CountFrom ==
  ASSUME NEW s, IsSample(s), \A i \in DOMAIN s : s[i].weight = 1,
         NEW k \in 1..Steps(s), NEW j \in 1..k
  PROVE  /\ Cardinality(From(s, j, k)) = WeightUpto(s)[k] - WeightUpto(s)[j - 1]
         /\ Cardinality(Positive(s) \cap From(s, j, k)) = HarmUpto(s)[k] - HarmUpto(s)[j - 1]
<1> DEFINE F == From(s, j, k)
           Q == Positive(s) \cap F
           w == RowWeight(s)
           h == HarmWeight(s)
<1>1. /\ F \in SUBSET (DOMAIN s) /\ Q \in SUBSET F
      /\ \A i \in F : i \in Q <=> s[i].label
      /\ \A i \in DOMAIN s : w[i] = 1 /\ h[i] = IF s[i].label THEN 1 ELSE 0
  BY DEF From, Positive, RowWeight, HarmWeight
<1>2. Weight(s, F) = SumOf(w, F) /\ Positives(s, F) = SumOf(h, F)
  BY <1>1, WeightsAre
<1>3. /\ Weight(s, F) = WeightUpto(s)[k] - WeightUpto(s)[j - 1]
      /\ Positives(s, F) = HarmUpto(s)[k] - HarmUpto(s)[j - 1]
  BY FromIs
<1> HIDE DEF F, Q, w, h
<1>4. IsFiniteSet(F) /\ IsFiniteSet(Q)
  <2>1. IsFiniteSet(DOMAIN s)
    BY DEF IsSample
  <2>2. Q \in SUBSET (DOMAIN s)
    BY <1>1
  <2> QED BY <1>1, <2>1, <2>2, FS_Subset
<1>5. Cardinality(F) \in Nat /\ Cardinality(Q) \in Nat
  BY <1>4, FS_CardinalityType
<1>6. SumOf(w, F) = Cardinality(F)
  <2>1. \A i \in F : w[i] = 1
    BY <1>1
  <2>2. SumOf(w, F) = Cardinality(F) * 1
    BY <1>4, <2>1, SumOfEqual
  <2> QED BY <1>5, <2>2
<1>7. SumOf(h, F) = Cardinality(Q)
  <2>1. \A i \in Q : h[i] = 1
    BY <1>1
  <2>2. SumOf(h, Q) = Cardinality(Q) * 1
    BY <1>4, <2>1, SumOfEqual
  <2>3. \A i \in F : h[i] \in Int
    <3> TAKE i \in F
    <3>1. h[i] = 1 \/ h[i] = 0
      BY <1>1
    <3> QED BY <3>1
  <2>4. \A i \in F \ Q : h[i] = 0
    BY <1>1
  <2>5. SumOf(h, Q) = SumOf(h, F)
    BY <1>1, <1>4, <2>3, <2>4, SumOfRest
  <2> QED BY <1>5, <2>2, <2>5
<1> QED BY <1>2, <1>3, <1>6, <1>7 DEF F, Q

\* S are the rows that the map gives the value of i.
SameValue(s, k, f, i, S, low, upto) ==
  /\ k \in [DOMAIN s -> 1..Steps(s)] /\ i \in DOMAIN s /\ S \in SUBSET (DOMAIN s)
  /\ \A j \in DOMAIN s : f[j] = s[j].score /\ s[j].score = Sorted(s)[k[j]]
  /\ \A j \in DOMAIN s : j \in S <=> ValueAt(s)[k[j]] = ValueAt(s)[k[i]]
  /\ \A j \in S : low[j] \in SUBSET S /\ \A l \in S : l \in low[j] <=> f[l] < f[j]
  /\ \A j \in S : upto[j] \in SUBSET S /\ \A l \in S : l \in upto[j] <=> f[l] <= f[j]

\* Among them the positives come early.
LEMMA LevelIsEarly ==
  ASSUME NEW s, IsSample(s), \A i \in DOMAIN s : s[i].weight = 1,
         NEW k, NEW f, NEW i, NEW S, NEW low, NEW upto,
         SameValue(s, k, f, i, S, low, upto)
  PROVE  Early(S, Positive(s) \cap S, f, low, upto)
<1> DEFINE n == Steps(s)
           x == Sorted(s)
           A == HarmUpto(s)
           B == WeightUpto(s)
           P == Positive(s)
           D == DOMAIN s
           value == ValueAt(s)
<1> USE DEF SameValue
<1>1. /\ n \in Nat /\ x \in [1..n -> Int]
      /\ \A j, l \in 1..n : /\ j < l <=> x[j] < x[l]
                            /\ j <= l <=> x[j] <= x[l]
  BY SortedIs
<1>2. PICK a, d \in 0..n :
        /\ a < d
        /\ \A l \in 1..n : value[l] = value[k[i]] <=> a < l /\ l <= d
        /\ \A l \in 0..n : a <= l => Under(A, B, a, d, l)
  <2>1. \A r \in 1..Steps(s) : \E p, q \in 0..Steps(s) :
          /\ p < q
          /\ \A l \in 1..Steps(s) : value[l] = value[r] <=> p < l /\ l <= q
          /\ \A l \in 0..Steps(s) : p <= l => Under(HarmUpto(s), WeightUpto(s), p, q, l)
    BY LevelIs
  <2>2. k[i] \in 1..Steps(s)
    OBVIOUS
  <2> QED BY <2>1, <2>2
<1>3. ASSUME NEW l \in 1..n, a + 1 <= l
      PROVE  /\ Cardinality(From(s, a + 1, l)) = B[l] - B[a]
             /\ Cardinality(P \cap From(s, a + 1, l)) = A[l] - A[a]
  <2>1. a + 1 \in 1..l /\ (a + 1) - 1 = a
    BY <1>2, <1>3
  <2> QED BY <2>1, CountFrom
<1>4. \A j, l \in 1..n : \A r \in D :
        r \in From(s, j, l) <=> x[j] <= s[r].score /\ s[r].score <= x[l]
  BY DEF From
<1>5. \A j, l \in 1..n : From(s, j, l) \in SUBSET D
  BY DEF From
<1>6. \A r \in D : k[r] \in 1..n /\ f[r] = x[k[r]] /\ s[r].score = x[k[r]]
  OBVIOUS
<1>7. IsFiniteSet(D)
  BY DEF IsSample
<1>8. \A j \in D : j \in S <=> a < k[j] /\ k[j] <= d
  BY <1>2, <1>6
<1>9. Climbs(A, B, n)
  BY PointsClimb
<1> SUFFICES Early(S, P \cap S, f, low, upto)
  OBVIOUS
<1> HIDE DEF n, x, A, B, P, D
<1>10. a + 1 \in 1..n /\ d \in 1..n /\ a + 1 <= d /\ a \in 0..n /\ d \in 0..n
  BY <1>1, <1>2
\* A run of the level's scores.
<1>11. ASSUME NEW l \in 1..n, a + 1 <= l, NEW r \in D
       PROVE  r \in From(s, a + 1, l) <=> a < k[r] /\ k[r] <= l
  <2>1. r \in From(s, a + 1, l) <=> x[a + 1] <= x[k[r]] /\ x[k[r]] <= x[l]
    BY <1>4, <1>6, <1>10
  <2>2. x[a + 1] <= x[k[r]] <=> a + 1 <= k[r]
    BY <1>1, <1>6, <1>10
  <2>3. x[k[r]] <= x[l] <=> k[r] <= l
    BY <1>1, <1>6
  <2>4. a + 1 <= k[r] <=> a < k[r]
    BY <1>1, <1>6, <1>10
  <2> QED BY <2>1, <2>2, <2>3, <2>4
<1>12. S = From(s, a + 1, d)
  <2>1. \A r \in D : r \in S <=> r \in From(s, a + 1, d)
    BY <1>8, <1>10, <1>11
  <2>2. S \in SUBSET D /\ From(s, a + 1, d) \in SUBSET D
    BY <1>5, <1>10 DEF D
  <2> QED BY <2>1, <2>2
<1>13. Cardinality(S) = B[d] - B[a] /\ Cardinality(P \cap S) = A[d] - A[a]
  BY <1>3, <1>10, <1>12
\* What is early in the level.
<1>14. ASSUME NEW l \in 1..n, a + 1 <= l, NEW T, T = From(s, a + 1, l), T \in SUBSET S
       PROVE  Cardinality(P \cap S) * Cardinality(T)
                <= Cardinality(S) * Cardinality((P \cap S) \cap T)
  <2>1. l \in 0..n /\ a <= l
    BY <1>10, <1>14
  <2>2. (A[d] - A[a]) * (B[l] - B[a]) <= (A[l] - A[a]) * (B[d] - B[a])
    BY <1>2, <2>1 DEF Under
  <2>3. (P \cap S) \cap T = P \cap T
    BY <1>14
  <2>4. Cardinality(T) = B[l] - B[a] /\ Cardinality(P \cap T) = A[l] - A[a]
    BY <1>3, <1>14
  <2> DEFINE p == A[l] - A[a]
             q == B[d] - B[a]
  <2>5. p \in Int /\ q \in Int
    <3>1. A[l] \in Int /\ A[a] \in Int /\ B[d] \in Int /\ B[a] \in Int
      BY <1>9, <1>10, <2>1, PointsAre
    <3> QED BY <3>1
  <2> HIDE DEF p, q
  <2>6. p * q = q * p
    <3>1. \A u, v \in Int : u * v = v * u
      BY Z3
    <3> QED BY <2>5, <3>1
  <2> QED BY <1>13, <2>2, <2>3, <2>4, <2>6 DEF p, q
<1>15. \A j \in S : /\ j \in D /\ k[j] \in 1..n /\ a + 1 <= k[j] /\ k[j] <= d
                    /\ \A l \in S : /\ l \in D
                                    /\ f[l] <= f[j] <=> k[l] <= k[j]
                                    /\ f[l] < f[j] <=> k[l] < k[j]
  <2> TAKE j \in S
  <2>1. j \in D /\ k[j] \in 1..n /\ a < k[j] /\ k[j] <= d
    BY <1>6, <1>8 DEF D
  <2>2. a + 1 <= k[j]
    BY <1>10, <2>1
  <2>3. ASSUME NEW l \in S
        PROVE  l \in D /\ (f[l] <= f[j] <=> k[l] <= k[j]) /\ (f[l] < f[j] <=> k[l] < k[j])
    <3>1. l \in D
      BY DEF D
    <3> QED BY <1>1, <1>6, <2>1, <3>1
  <2> QED BY <2>1, <2>2, <2>3
<1>16. ASSUME NEW j \in S
       PROVE  Cardinality(P \cap S) * Cardinality(upto[j])
                <= Cardinality(S) * Cardinality((P \cap S) \cap upto[j])
  <2>1. k[j] \in 1..n /\ a + 1 <= k[j]
    BY <1>15
  <2>2. upto[j] \in SUBSET S /\ \A l \in S : l \in upto[j] <=> k[l] <= k[j]
    BY <1>15
  <2>3. \A l \in D : l \in From(s, a + 1, k[j]) => l \in S
    <3> TAKE l \in D
    <3>1. l \in From(s, a + 1, k[j]) => a < k[l] /\ k[l] <= k[j] /\ k[l] \in 1..n
      BY <1>6, <1>11, <2>1
    <3>2. l \in From(s, a + 1, k[j]) => a < k[l] /\ k[l] <= d
      BY <1>10, <1>15, <3>1
    <3> QED BY <1>8, <3>2
  <2>4. \A l \in S : l \in From(s, a + 1, k[j]) <=> k[l] <= k[j]
    BY <1>8, <1>11, <1>15, <2>1
  <2>5. From(s, a + 1, k[j]) \in SUBSET D
    BY <1>5, <1>10, <2>1
  <2>6. upto[j] = From(s, a + 1, k[j])
    BY <2>2, <2>3, <2>4, <2>5
  <2> QED BY <1>14, <2>1, <2>2, <2>6
<1>17. ASSUME NEW j \in S
       PROVE  Cardinality(P \cap S) * Cardinality(low[j])
                <= Cardinality(S) * Cardinality((P \cap S) \cap low[j])
  <2> DEFINE m == k[j] - 1
  <2>1. k[j] \in 1..n /\ a + 1 <= k[j] /\ m \in 0..n /\ a <= m /\ m + 1 = k[j]
    BY <1>1, <1>10, <1>15
  <2> HIDE DEF m
  <2>2. low[j] \in SUBSET S /\ \A l \in S : l \in low[j] <=> k[l] <= m
    <3>1. low[j] \in SUBSET S /\ \A l \in S : l \in low[j] <=> k[l] < k[j]
      BY <1>15
    <3>2. \A l \in S : k[l] < k[j] <=> k[l] <= m
      <4> TAKE l \in S
      <4>1. k[l] \in 1..n
        BY <1>15
      <4> QED BY <1>1, <2>1, <4>1
    <3> QED BY <3>1, <3>2
  <2>3. CASE m = a
    <3>1. \A l \in S : ~(k[l] <= m)
      <4> TAKE l \in S
      <4>1. k[l] \in 1..n /\ a + 1 <= k[l]
        BY <1>15
      <4> QED BY <1>10, <2>3, <4>1
    <3>2. low[j] = {}
      BY <2>2, <3>1
    <3>3. Cardinality(low[j]) = 0 /\ Cardinality((P \cap S) \cap low[j]) = 0
      BY <3>2, FS_EmptySet
    <3>4. Cardinality(P \cap S) \in Int /\ Cardinality(S) \in Int
      <4>1. \A T \in SUBSET D : IsFiniteSet(T)
        BY <1>7, FS_Subset
      <4>2. S \in SUBSET D /\ P \cap S \in SUBSET D
        BY DEF D
      <4>3. Cardinality(P \cap S) \in Nat /\ Cardinality(S) \in Nat
        BY <4>1, <4>2, FS_CardinalityType
      <4> QED BY <4>3
    <3>5. \A u, v \in Int : u * 0 <= v * 0
      OBVIOUS
    <3> QED BY <3>3, <3>4, <3>5
  <2>4. CASE m # a
    <3>1. m \in 1..n /\ a + 1 <= m
      BY <1>10, <2>1, <2>4
    <3>2. \A l \in D : l \in From(s, a + 1, m) => l \in S
      <4> TAKE l \in D
      <4>1. l \in From(s, a + 1, m) => a < k[l] /\ k[l] <= m /\ k[l] \in 1..n
        BY <1>6, <1>11, <3>1
      <4>2. k[j] <= d
        BY <1>15
      <4>3. l \in From(s, a + 1, m) => a < k[l] /\ k[l] <= d
        BY <1>10, <2>1, <4>1, <4>2
      <4> QED BY <1>8, <4>3
    <3>3. \A l \in S : l \in From(s, a + 1, m) <=> k[l] <= m
      BY <1>8, <1>11, <1>15, <3>1
    <3>4. From(s, a + 1, m) \in SUBSET D
      BY <1>5, <1>10, <3>1
    <3>5. low[j] = From(s, a + 1, m)
      BY <2>2, <3>2, <3>3, <3>4
    <3> QED BY <1>14, <2>2, <3>1, <3>5
  <2> QED BY <2>3, <2>4
<1>18. IsFiniteSet(S) /\ \A j \in S : f[j] \in Int
  <2>1. IsFiniteSet(S)
    BY <1>7, FS_Subset DEF D
  <2>2. \A j \in S : x[k[j]] \in Int /\ f[j] = x[k[j]]
    BY <1>1, <1>6, <1>15
  <2> QED BY <2>1, <2>2
<1> QED BY <1>16, <1>17, <1>18 DEF Early

\* Below is strict.
LEMMA BelowIs ==
  ASSUME NEW p, Lowest(p), NEW q, Lowest(q)
  PROVE  Below(p, q) <=> ~AtMost(q, p)
<1> DEFINE a == p[1] * q[2]
           b == q[1] * p[2]
<1>1. a \in Int /\ b \in Int
  <2>1. p[1] \in Int /\ p[2] \in Int /\ q[1] \in Int /\ q[2] \in Int
    BY DEF Lowest
  <2>2. \A i, j \in Int : i * j \in Int
    BY Z3
  <2> QED BY <2>1, <2>2
<1>2. (Below(p, q) <=> a < b) /\ (AtMost(q, p) <=> b <= a)
  BY DEF Below, AtMost
<1> HIDE DEF a, b
<1> QED BY <1>1, <1>2

\* c counts the values that are below one's own.
Counts(D, g, below, c) ==
  /\ \A i \in D : \A y : y \in below[i] <=> \E j \in D : y = g[j] /\ Below(g[j], g[i])
  /\ \A i \in D : c[i] = Cardinality(below[i])

\* Such counts keep the order of the values.
LEMMA CountsKeepOrder ==
  ASSUME NEW D, IsFiniteSet(D), NEW g, \A i \in D : Lowest(g[i]),
         NEW below, NEW c, Counts(D, g, below, c)
  PROVE  \A i, j \in D : /\ c[i] \in Nat
                         /\ AtMost(g[i], g[j]) => c[i] <= c[j]
                         /\ c[i] = c[j] <=> g[i] = g[j]
<1> USE DEF Counts
<1>1. \A i \in D : IsFiniteSet(below[i])
  <2> DEFINE T == {g[j] : j \in D}
             h == [j \in D |-> g[j]]
  <2>1. h \in [D -> T] /\ \A y \in T : \E j \in D : h[j] = y
    OBVIOUS
  <2>2. \A i \in D : below[i] \in SUBSET T
    OBVIOUS
  <2> HIDE DEF T, h
  <2>3. IsFiniteSet(T)
    BY <2>1, ImageIsFinite
  <2> QED BY <2>2, <2>3, FS_Subset
<1>2. \A i \in D : c[i] \in Nat
  BY <1>1, FS_CardinalityType
<1>3. ASSUME NEW i \in D, NEW j \in D, AtMost(g[i], g[j])
      PROVE  below[i] \in SUBSET below[j] /\ c[i] <= c[j]
  <2>1. ASSUME NEW l \in D, Below(g[l], g[i]) PROVE Below(g[l], g[j])
    <3>1. ~AtMost(g[i], g[l])
      BY <2>1, BelowIs
    <3>2. ~AtMost(g[j], g[l])
      BY <1>3, <3>1, AtMostTransitive
    <3> QED BY <3>2, BelowIs
  <2>2. below[i] \in SUBSET below[j]
    BY <2>1
  <2> QED BY <1>1, <2>2, FS_Subset
<1>4. ASSUME NEW i \in D, NEW j \in D, AtMost(g[i], g[j]), c[i] = c[j] PROVE g[i] = g[j]
  <2>1. below[i] = below[j]
    <3> DEFINE p == below[i]
               q == below[j]
    <3>1. p \in SUBSET q /\ IsFiniteSet(q) /\ Cardinality(q) = Cardinality(p)
      BY <1>1, <1>3, <1>4
    <3> HIDE DEF p, q
    <3>2. p = q
      BY <3>1, FS_Subset
    <3> QED BY <3>2 DEF p, q
  <2>2. ~Below(g[i], g[i])
    BY AtMostEither, BelowIs
  <2>3. g[i] \notin below[i]
    <3>1. ASSUME NEW l \in D, g[i] = g[l], Below(g[l], g[i]) PROVE FALSE
      BY <2>2, <3>1
    <3> QED BY <3>1
  <2>4. ~Below(g[i], g[j])
    BY <2>1, <2>3
  <2>5. AtMost(g[j], g[i])
    BY <2>4, BelowIs
  <2> QED BY <1>4, <2>5, AtMostEither
<1>5. ASSUME NEW i \in D, NEW j \in D, g[i] = g[j] PROVE c[i] = c[j]
  <2>1. AtMost(g[i], g[j]) /\ AtMost(g[j], g[i])
    BY <1>5, AtMostEither
  <2>2. c[i] <= c[j] /\ c[j] <= c[i]
    BY <1>3, <2>1
  <2> QED BY <1>2, <2>2
<1>6. ASSUME NEW i \in D, NEW j \in D, c[i] = c[j] PROVE g[i] = g[j]
  <2>1. AtMost(g[i], g[j]) \/ AtMost(g[j], g[i])
    BY AtMostEither
  <2>2. c[j] = c[i]
    BY <1>6
  <2> QED BY <1>4, <1>6, <2>1, <2>2
<1> QED BY <1>2, <1>3, <1>5, <1>6

\* A score that is in the order of the map's values ranks no worse than the score of
\* the rows.
LEMMA CoarseRanks ==
  ASSUME NEW s, IsSample(s), \A i \in DOMAIN s : s[i].weight = 1, BothClasses(s),
         NEW g, \A i \in DOMAIN s : g[i] = Predict(Fit(s), s[i].score),
         NEW c, \A i, j \in DOMAIN s : /\ c[i] \in Int
                                       /\ AtMost(g[i], g[j]) => c[i] <= c[j]
                                       /\ c[i] = c[j] <=> g[i] = g[j],
         NEW t, DOMAIN t = DOMAIN s,
         \A i \in DOMAIN s : t[i].score = c[i] /\ t[i].label = s[i].label
  PROVE  AtMost(RankAuc(s), RankAuc(t))
<1> DEFINE D == DOMAIN s
           P == Positive(s)
           N == Negative(s)
           n == Steps(s)
           x == Sorted(s)
           value == ValueAt(s)
           k == [i \in D |-> CHOOSE l \in 1..n : s[i].score = x[l]]
           f == [i \in D |-> s[i].score]
           at == [i \in D |-> {j \in D : c[j] = c[i]}]
           low == [i \in D |-> {j \in D : c[j] = c[i] /\ f[j] < f[i]}]
           upto == [i \in D |-> {j \in D : c[j] = c[i] /\ f[j] <= f[i]}]
           v == [i \in P |-> MidRank(s, i)]
           u == [i \in P |-> MidRank(t, i)]
<1>1. IsFiniteSet(D) /\ \A i \in D : s[i].score \in Int
  BY DEF IsSample
<1>2. /\ P \in SUBSET D /\ N \in SUBSET D /\ P # {} /\ N # {}
      /\ Positive(t) = P /\ Negative(t) = N
  BY DEF BothClasses, Positive, Negative
<1>3. /\ n \in Nat /\ \A i \in D : \E l \in 1..n : s[i].score = x[l]
      /\ \A j, l \in 1..n : j <= l <=> x[j] <= x[l]
  BY SortedIs
<1>4. k \in [D -> 1..n] /\ \A i \in D : s[i].score = x[k[i]]
  BY <1>3
<1>5. \A i \in D : g[i] = value[k[i]]
  <2> TAKE i \in D
  <2>1. s[i].score = x[k[i]] /\ k[i] \in 1..n
    BY <1>4
  <2> HIDE DEF k
  <2> QED BY <2>1 DEF ValueAt
<1>6. \A i \in D : f[i] = s[i].score /\ f[i] \in Int
  BY <1>1
<1> HIDE DEF k, f
<1>7. Merges(D, P, f, c)
  <2>1. \A i, j \in D : f[i] <= f[j] => c[i] <= c[j]
    <3> SUFFICES ASSUME NEW i \in D, NEW j \in D, f[i] <= f[j] PROVE c[i] <= c[j]
      OBVIOUS
    <3>1. k[i] \in 1..n /\ k[j] \in 1..n /\ x[k[i]] <= x[k[j]]
      BY <1>4, <1>6
    <3>2. k[i] <= k[j]
      BY <1>3, <3>1
    <3>3. \A l, m \in 1..n : l <= m => AtMost(value[l], value[m])
      BY LevelIs
    <3>4. AtMost(value[k[i]], value[k[j]])
      <4> HIDE DEF value, n
      <4> QED BY <3>1, <3>2, <3>3
    <3>5. AtMost(g[i], g[j])
      BY <1>5, <3>4
    <3> QED BY <3>5
  <2>2. \A i \in D : c[i] \in Int
    OBVIOUS
  <2> QED BY <1>1, <1>2, <1>6, <2>1, <2>2 DEF Merges
<1>8. ASSUME NEW i \in P PROVE Early(at[i], P \cap at[i], f, low, upto)
  <2>1. i \in D
    BY <1>2
  <2> DEFINE S == at[i]
  <2>2. S \in SUBSET D /\ \A j \in D : j \in S <=> c[j] = c[i]
    BY <2>1
  <2>3. \A j \in D : j \in S <=> value[k[j]] = value[k[i]]
    <3> TAKE j \in D
    <3>1. c[j] = c[i] <=> g[j] = g[i]
      BY <2>1
    <3> QED BY <1>5, <2>1, <2>2, <3>1
  <2>4. \A j \in S : low[j] \in SUBSET S /\ \A l \in S : l \in low[j] <=> f[l] < f[j]
    BY <2>2
  <2>5. \A j \in S : upto[j] \in SUBSET S /\ \A l \in S : l \in upto[j] <=> f[l] <= f[j]
    BY <2>2
  <2>6. \A j \in D : f[j] = s[j].score /\ s[j].score = Sorted(s)[k[j]]
    BY <1>4, <1>6
  <2>7. k \in [DOMAIN s -> 1..Steps(s)] /\ i \in DOMAIN s /\ S \in SUBSET (DOMAIN s)
    BY <1>4, <2>1, <2>2
  <2> HIDE DEF S, low, upto, at, P
  <2>8. Early(S, Positive(s) \cap S, f, low, upto)
    <3>1. SameValue(s, k, f, i, S, low, upto)
      BY <2>3, <2>4, <2>5, <2>6, <2>7 DEF SameValue
    <3> QED BY <3>1, LevelIsEarly
  <2> QED BY <2>8 DEF S, P
<1>9. \A i \in P : v[i] = RankAmong(D, f, i)
  <2> TAKE i \in P
  <2>1. i \in D /\ v[i] = MidRank(s, i)
    BY <1>2
  <2>2. /\ {j \in D : f[j] < f[i]} = {j \in D : s[j].score < s[i].score}
        /\ {j \in D : f[j] = f[i]} = {j \in D : s[j].score = s[i].score}
    BY <1>6, <2>1
  <2> HIDE DEF v
  <2> QED BY <2>1, <2>2 DEF MidRank, RankAmong
<1>10. \A i \in P : u[i] = RankAmong(D, c, i)
  <2> TAKE i \in P
  <2>1. i \in D /\ u[i] = MidRank(t, i)
    BY <1>2
  <2>2. /\ {j \in D : c[j] < c[i]} = {j \in DOMAIN t : t[j].score < t[i].score}
        /\ {j \in D : c[j] = c[i]} = {j \in DOMAIN t : t[j].score = t[i].score}
    BY <2>1
  <2> HIDE DEF u
  <2> QED BY <2>1, <2>2 DEF MidRank, RankAmong
<1>11. \A i \in P : at[i] \in SUBSET D /\ \A j \in D : j \in at[i] <=> c[j] = c[i]
  BY <1>2
<1>12. /\ RankAuc(s) = Frac(SumOf(v, P) - Cardinality(P) * (Cardinality(P) + 1),
                            2 * Cardinality(P) * Cardinality(N))
       /\ RankAuc(t) = Frac(SumOf(u, P) - Cardinality(P) * (Cardinality(P) + 1),
                            2 * Cardinality(P) * Cardinality(N))
  <2>1. v = [i \in P |-> MidRank(s, i)] /\ u = [i \in P |-> MidRank(t, i)]
    OBVIOUS
  <2>2. P = Positive(s) /\ P = Positive(t) /\ N = Negative(s) /\ N = Negative(t)
    BY <1>2
  <2> HIDE DEF v, u, P, N
  <2>3. RankAuc(s) = Frac(SumOf(v, P) - Cardinality(P) * (Cardinality(P) + 1),
                          2 * Cardinality(P) * Cardinality(Negative(s)))
    BY <2>1, <2>2, RankAucIs
  <2>4. RankAuc(t) = Frac(SumOf(u, P) - Cardinality(P) * (Cardinality(P) + 1),
                          2 * Cardinality(P) * Cardinality(Negative(t)))
    BY <2>1, <2>2, RankAucIs
  <2> QED BY <2>2, <2>3, <2>4
<1>13. Cardinality(P) \in Nat \ {0} /\ Cardinality(N) \in Nat \ {0}
  <2>1. IsFiniteSet(P) /\ IsFiniteSet(N)
    BY <1>1, <1>2, FS_Subset
  <2> HIDE DEF P, N
  <2>2. Cardinality(P) # 0 /\ Cardinality(N) # 0
    BY <1>2, <2>1, FS_EmptySet
  <2> QED BY <2>1, <2>2, FS_CardinalityType
<1> HIDE DEF D, P, N, v, u, at, low, upto
<1>14. SumOf(v, P) <= SumOf(u, P) /\ SumOf(v, P) \in Int /\ SumOf(u, P) \in Int
  <2>1. EarlyLevels(D, P, f, c, at, low, upto)
    BY <1>8, <1>11 DEF EarlyLevels
  <2> QED BY <1>7, <1>9, <1>10, <2>1, MergedRanks
<1> DEFINE p == Cardinality(P)
           q == Cardinality(N)
           a == SumOf(v, P)
           b == SumOf(u, P)
           e == p * (p + 1)
           d == 2 * p * q
<1>15. e \in Int /\ d \in Nat \ {0}
  <2> HIDE DEF p, q
  <2>1. \A i, j \in Nat \ {0} : i * j \in Nat \ {0} /\ i + 1 \in Nat \ {0} /\ 2 * i \in Nat \ {0}
    BY Z3
  <2>2. p \in Nat \ {0} /\ q \in Nat \ {0}
    BY <1>13 DEF p, q
  <2>3. p + 1 \in Nat \ {0} /\ 2 * p \in Nat \ {0}
    BY <2>1, <2>2
  <2>4. e \in Nat \ {0} /\ d \in Nat \ {0}
    BY <2>1, <2>2, <2>3
  <2> QED BY <2>4
<1>16. RankAuc(s) = Frac(a - e, d) /\ RankAuc(t) = Frac(b - e, d)
  BY <1>12
<1>17. a \in Int /\ b \in Int /\ a <= b
  BY <1>14
<1> HIDE DEF p, q, a, b, e, d
<1>18. a - e \in Int /\ b - e \in Int /\ a - e <= b - e
  BY <1>15, <1>17
<1>19. (a - e) * d <= (b - e) * d
  BY <1>15, <1>18, ScaledOrder
<1>20. AtMost(Frac(a - e, d), Frac(b - e, d))
  BY <1>15, <1>18, <1>19, FracAtMost
<1> QED BY <1>16, <1>20

\* The comment in fit, "a synthetic detector with raw AUC 0.9893 calibrated to
\* 0.5000": on the rows that fitted it, however many, no map ranks worse than the
\* raw score did.
THEOREM CalibrationAlwaysKeepsRanking == SamplesSpec => []CalibrationKeepsRanking
<1>1. sample \in Seq(LabelledRow) => CalibrationKeepsRanking
  <2> DEFINE s == [i \in DOMAIN sample |-> [sample[i] EXCEPT !.weight = 1]]
             calibrated(i) == Predict(Fit(s), sample[i].score)
             rank(i) == Cardinality({calibrated(j) : j \in {j \in DOMAIN sample :
                          Below(calibrated(j), calibrated(i))}})
             t == [i \in DOMAIN sample |-> [s[i] EXCEPT !.score = rank(i)]]
             D == DOMAIN sample
             g == [i \in D |-> calibrated(i)]
             below == [i \in D |-> {calibrated(j) : j \in {j \in D :
                        Below(calibrated(j), calibrated(i))}}]
             c == [i \in D |-> rank(i)]
  <2> SUFFICES ASSUME sample \in Seq(LabelledRow), BothClasses(sample)
               PROVE  AtMost(RankAuc(s), RankAuc(t))
    BY DEF CalibrationKeepsRanking
  <2>1. IsSample(sample)
    BY SampleIs
  <2>2. ASSUME NEW i \in D
        PROVE  /\ s[i].score = sample[i].score /\ s[i].label = sample[i].label
               /\ s[i].weight = 1 /\ t[i].score = c[i] /\ t[i].label = s[i].label
    <3>1. sample[i] \in LabelledRow
      OBVIOUS
    <3> DEFINE m == rank(i)
               r == sample[i]
    <3>2. s[i] = [r EXCEPT !.weight = 1] /\ t[i] = [s[i] EXCEPT !.score = m] /\ c[i] = m
      OBVIOUS
    <3>3. r \in [score : ScoreRange, label : BOOLEAN, weight : Weights]
      BY <3>1 DEF LabelledRow
    <3> HIDE DEF m, r, s, t, c
    <3>4. /\ s[i].score = r.score /\ s[i].label = r.label /\ s[i].weight = 1
          /\ t[i].score = m /\ t[i].label = s[i].label
      <4> DEFINE w == s[i]
      <4>1. w.score = r.score /\ w.label = r.label /\ w.weight = 1
            /\ w \in [score : ScoreRange, label : BOOLEAN, weight : Int]
        BY <3>2, <3>3
      <4>2. t[i] = [w EXCEPT !.score = m]
        BY <3>2
      <4> HIDE DEF w
      <4>3. t[i].score = m /\ t[i].label = w.label
        BY <4>1, <4>2
      <4> QED BY <4>1, <4>3 DEF w
    <3> QED BY <3>2, <3>4 DEF r
  <2>3. DOMAIN s = D /\ DOMAIN t = DOMAIN s
    OBVIOUS
  <2>4. \A i \in D : g[i] = Predict(Fit(s), sample[i].score) /\ c[i] = Cardinality(below[i])
    OBVIOUS
  <2>5. \A i \in D : \A y : y \in below[i] <=> \E j \in D : y = g[j] /\ Below(g[j], g[i])
    <3> HIDE DEF s
    <3> QED OBVIOUS
  <2> HIDE DEF s, t, c, g, below
  <2> SUFFICES AtMost(RankAuc(s), RankAuc(t))
    OBVIOUS
  <2>6. IsSample(s)
    <3>1. IsFiniteSet(D) /\ \A i \in D : sample[i].score \in Int /\ sample[i].label \in BOOLEAN
      BY <2>1 DEF IsSample
    <3>2. 1 \in Nat \ {0}
      OBVIOUS
    <3> QED BY <2>2, <2>3, <3>1, <3>2 DEF IsSample
  <2>7. BothClasses(s)
    <3>1. Positive(s) = Positive(sample) /\ Negative(s) = Negative(sample)
      BY <2>2, <2>3 DEF Positive, Negative
    <3> QED BY <3>1 DEF BothClasses
  <2>8. \A i \in D : Lowest(g[i])
    <3> TAKE i \in D
    <3>1. PICK k \in 1..Steps(s) : s[i].score = Sorted(s)[k]
      BY <2>3, <2>6, SortedIs
    <3>2. g[i] = ValueAt(s)[k]
      BY <2>2, <2>4, <3>1 DEF ValueAt
    <3> QED BY <2>6, <3>2, LevelIs
  <2>9. IsFiniteSet(D)
    BY <2>1 DEF IsSample
  <2> HIDE DEF D
  <2>10. \A i, j \in D : /\ c[i] \in Nat
                         /\ AtMost(g[i], g[j]) => c[i] <= c[j]
                         /\ c[i] = c[j] <=> g[i] = g[j]
    <3>1. Counts(D, g, below, c)
      BY <2>4, <2>5 DEF Counts
    <3> QED BY <2>8, <2>9, <3>1, CountsKeepOrder
  <2>11. \A i, j \in DOMAIN s : /\ c[i] \in Int
                                /\ AtMost(g[i], g[j]) => c[i] <= c[j]
                                /\ c[i] = c[j] <=> g[i] = g[j]
    BY <2>3, <2>10
  <2>12. \A i \in DOMAIN s : g[i] = Predict(Fit(s), s[i].score)
    BY <2>2, <2>3, <2>4
  <2>13. \A i \in DOMAIN s : /\ s[i].weight = 1
                             /\ t[i].score = c[i] /\ t[i].label = s[i].label
    BY <2>2, <2>3
  <2> QED BY <2>3, <2>6, <2>7, <2>11, <2>12, <2>13, CoarseRanks
<1> QED BY <1>1, SamplesAreRows, PTL
=============================================================================
