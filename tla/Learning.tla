------------------------------ MODULE Learning ------------------------------
(***************************************************************************)
(* The learning loop around Refit: `make report` records a chain, `make    *)
(* relearn` refits from it and writes an artifact (cli.py), an engine      *)
(* adopts the newest artifact fitted against its detectors or fits its own *)
(* maps from the corpus (service.py), files are written in place and       *)
(* processes die (learning/artifacts.py), and rules are edited in between. *)
(***************************************************************************)
EXTENDS Refit

CONSTANTS
  Chains,       \* the chains a run may record: [decisions, reviews]
  Corpus,       \* the calibration split, as rows of weight 1
  MaxDetector,  \* bound: versions the detectors go through
  MaxRuns       \* bound: refits

ASSUME LearningAssumption == MaxDetector \in Nat \ {0}

\* Interactions are numbers, in the order in which they are read.
Numbered(ids) == ids \in SUBSET Nat /\ IsFiniteSet(ids)

ASSUME CorpusAssumption == Numbered(DOMAIN Corpus)

\* What the evaluation records: the slots filled at random are the queue's, and
\* the queue raises what was withheld.  WeightUnit makes their weights whole.
RecordedSlots(c) ==
  /\ c = [decisions |-> c.decisions, reviews |-> c.reviews]
  /\ Numbered(DOMAIN c.decisions)
  /\ \A i \in DOMAIN c.decisions \cap DOMAIN c.reviews :
       c.reviews[i].random => c.reviews[i].withheld /\ c.decisions[i].verdict \in Withheld
  /\ \A r \in Routes(c.decisions) :
       LET drawn == Cardinality(Sampled(c.decisions, c.reviews, r))
       IN  drawn # 0 => (WeightUnit * Cardinality(Raised(c.decisions, r))) % drawn = 0

ASSUME ChainAssumption == \A c \in Chains : RecordedSlots(c)

VARIABLES
  detector,     \* detector_version() of a process started now
  chain,        \* the recorded chain: [decisions, reviews]
  learned,      \* the files of data/learned: [detector, routes, rows, whole, mtime]
  job,          \* make relearn: [at, detector, rows, outcome]
  report,       \* docs/results/relearn.json
  engine,       \* an AssessmentEngine: its detector, maps and thresholds; rows and
                \* source of these thresholds; raised, if a calibrate has since
  released,     \* per detector version, what the last finished write held
  runs

learningVars == <<detector, chain, learned, job, report, engine, released, runs>>

NoFunction == [x \in {} |-> x]
Idle == [at |-> "idle", detector |-> 0, rows |-> NoFunction,
         outcome |-> [accepted |-> NoFunction, refused |-> {}]]
Version == 1..MaxDetector

\* AssessmentEngine.__init__: no maps, no thresholds.
NewEngine(version) ==
  [detector |-> version, maps |-> NoFunction, thresholds |-> NoFunction,
   rows |-> NoFunction, source |-> "none", raised |-> FALSE]

LearningInit ==
  /\ detector = 1
  /\ chain = [decisions |-> NoFunction, reviews |-> NoFunction]
  /\ learned = {}
  /\ job = Idle
  /\ report = [accepted |-> {}, refused |-> {}]
  /\ engine = NewEngine(1)
  /\ released = [v \in Version |-> NoFunction]
  /\ runs = 0

-----------------------------------------------------------------------------
\* Faulty variant: any artifact will do.
ReachedAny(version) == learned

\* latest_artifact reads from the newest file on: it stops at one that matches
\* and raises at one that does not parse.
Reached(version) == {f \in learned : ~f.whole \/ f.detector = version}

Newest(files) == CHOOSE f \in files : \A g \in files : g.mtime <= f.mtime
Raises(version) == Reached(version) # {} /\ ~Newest(Reached(version)).whole
Latest(version) ==
  IF Reached(version) = {} THEN [routes |-> NoFunction, rows |-> NoFunction]
  ELSE Newest(Reached(version))

\* A pattern pack or a detector is changed: new processes run the new one.
EditDetector ==
  /\ detector < MaxDetector
  /\ detector' = detector + 1
  /\ UNCHANGED <<chain, learned, job, report, engine, released, runs>>

\* make report: the recorded chain is reset and written anew (report.py); a
\* decision carries the hash of the rules that scored it.
RunReport ==
  /\ \E c \in Chains :
       chain' = [c EXCEPT !.decisions = [i \in DOMAIN c.decisions |->
                   [route |-> c.decisions[i].route, raw |-> c.decisions[i].raw,
                    verdict |-> c.decisions[i].verdict, by |-> detector]]]
  /\ UNCHANGED <<detector, learned, job, report, engine, released, runs>>

\* _relearn: collect, find the incumbent, refit.
Relearn ==
  /\ job.at = "idle" /\ DOMAIN chain.decisions # {}
  /\ runs < MaxRuns /\ runs' = runs + 1
  /\ ~Raises(detector)
  /\ LET rows == Collect(chain.decisions, chain.reviews) IN
     job' = [at |-> "refitted", detector |-> detector, rows |-> rows,
             outcome |-> RefitOutcome(rows, Latest(detector).routes)]
  /\ UNCHANGED <<detector, chain, learned, report, engine, released>>

\* write_refit_report, before the artifact; without one the command ends.
WriteRefitReport ==
  /\ job.at = "refitted"
  /\ report' = [accepted |-> DOMAIN job.outcome.accepted, refused |-> job.outcome.refused]
  /\ job' = IF DOMAIN job.outcome.accepted = {} THEN Idle ELSE [job EXCEPT !.at = "reported"]
  /\ UNCHANGED <<detector, chain, learned, engine, released, runs>>

\* A refit at a time: the number of the refit stands for the time of its file.
Artifact(whole) ==
  [detector |-> job.detector, routes |-> job.outcome.accepted, rows |-> job.rows,
   whole |-> whole, mtime |-> runs]
SameName(f) == f.detector = job.detector /\ f.routes = job.outcome.accepted

\* write_artifact: the name is the content's hash, and the file is truncated
\* and written in place, so it becomes the newest and is torn until it ends.
Opened == {f \in learned : ~SameName(f)} \cup {Artifact(FALSE)}

BeginWrite ==
  /\ job.at = "reported"
  /\ learned' = Opened
  /\ job' = [job EXCEPT !.at = "writing"]
  /\ UNCHANGED <<detector, chain, report, engine, released, runs>>

EndWrite ==
  /\ job.at = "writing"
  /\ learned' = (learned \ {Artifact(FALSE)}) \cup {Artifact(TRUE)}
  /\ released' = [released EXCEPT ![job.detector] = job.outcome.accepted]
  /\ job' = Idle
  /\ UNCHANGED <<detector, chain, report, engine, runs>>

\* The command dies; what it wrote stays.
Crash ==
  /\ job.at # "idle"
  /\ job' = Idle
  /\ UNCHANGED <<detector, chain, learned, report, engine, released, runs>>

-----------------------------------------------------------------------------
StartEngine ==
  /\ engine' = NewEngine(detector)
  /\ UNCHANGED <<detector, chain, learned, job, report, released, runs>>

\* CalibrationArtifact.calibrators() and thresholds()
MapsOf(routes) == [r \in DOMAIN routes |-> routes[r].maps]
ThresholdsOf(routes) == [r \in DOMAIN routes |-> routes[r].certificate.threshold]

\* load_released_calibration: the artifact's maps and thresholds replace all.
LoadReleased ==
  /\ ~Raises(engine.detector)
  /\ Reached(engine.detector) # {}
  /\ LET artifact == Latest(engine.detector) IN
     engine' = [engine EXCEPT !.maps = MapsOf(artifact.routes),
                              !.thresholds = ThresholdsOf(artifact.routes),
                              !.rows = artifact.rows, !.source = "artifact", !.raised = FALSE]
  /\ UNCHANGED <<detector, chain, learned, job, report, released, runs>>

\* _calibrate and harm.maximum(): a route without maps is served its raw scores.
HarmAt(maps, route, raw) ==
  IF route \in DOMAIN maps THEN CalibratedMax(maps[route], raw)
  ELSE Largest({<<raw[a], ScoreSteps>> : a \in Axis})

\* _fit_calibrators, of the fitting fold: the routes that have rows there.
CorpusMaps ==
  [r \in {r \in Routes(Corpus) : Fitting(Corpus, r) # {}} |-> FitAxes(Corpus, Fitting(Corpus, r))]

\* The threshold of a route on the selection fold, as detect() scores it.
ThresholdThrough(maps, rows, route) ==
  LET order == Ordered(Selection(rows, route))
  IN  LearnThenTest([k \in DOMAIN order |-> HarmAt(maps, route, rows[order[k]].raw)],
                    HarmedOf(rows, Selection(rows, route))).threshold

CalibrateThrough(maps) ==
  /\ \A r \in Routes(Corpus) : Selection(Corpus, r) # {}
  /\ engine' = [engine EXCEPT
       !.maps = CorpusMaps,
       !.thresholds = [r \in Routes(Corpus) |-> ThresholdThrough(maps, Corpus, r)],
       !.rows = Corpus, !.source = "corpus", !.raised = FALSE]
  /\ UNCHANGED <<detector, chain, learned, job, report, released, runs>>

\* Faulty variant: the new maps replace the old ones after the loop, as the new
\* thresholds do.
CalibrateThroughOld == CalibrateThrough(engine.maps)

\* calibrate: the new maps serve before the loop scores the selection fold
\* through them, nothing is gated, and the thresholds are set after the loop.
CalibrateEngine == CalibrateThrough(CorpusMaps)

\* The loop raises, at a route without selection rows or one whose policy does
\* not resolve: the new maps serve under whatever thresholds there were.
CalibrateRaises ==
  /\ Routes(Corpus) # {}
  /\ engine' = [engine EXCEPT !.maps = CorpusMaps, !.raised = TRUE]
  /\ UNCHANGED <<detector, chain, learned, job, report, released, runs>>

LearningNext ==
  \/ EditDetector \/ RunReport \/ Relearn \/ WriteRefitReport
  \/ BeginWrite \/ EndWrite \/ Crash
  \/ StartEngine \/ LoadReleased \/ CalibrateEngine \/ CalibrateRaises

LearningSpec == LearningInit /\ [][LearningNext]_learningVars

-----------------------------------------------------------------------------
(* Properties.                                                             *)

\* latest_artifact: "the newest released artifact that matches this detector".
\* Whatever was written, rewritten, torn or released for other detectors, the
\* maps and thresholds an engine adopts are those of the last release for its own.
LoadsLastRelease ==
  [][engine' # engine /\ engine'.source = "artifact" /\ ~engine'.raised =>
       /\ engine'.maps = MapsOf(released[engine'.detector])
       /\ engine'.thresholds = ThresholdsOf(released[engine'.detector])
       /\ engine'.detector = engine.detector]_learningVars

\* The rows that no map of route r was fitted on and that the engine, as it is,
\* lets through below the c-th candidate; and whether so few harmful ones among
\* them bound the escape rate.
HeldOut(r) == {i \in DOMAIN engine.rows : engine.rows[i].route = r} \ FittingFold
LetThrough(r, c) ==
  {i \in HeldOut(r) : Below(HarmAt(engine.maps, r, engine.rows[i].raw), Candidate(c))}
Bounded(r, c) ==
  LET harmful == {i \in LetThrough(r, c) : engine.rows[i].harm}
  IN  Passes(Cardinality(harmful), Cardinality(LetThrough(r, c)))

Certified(r) ==
  /\ \E c \in Candidates :
       /\ engine.thresholds[r] = Candidate(c)
       /\ c = 0 \/ Bounded(r, c)
       /\ \A d \in Candidates : c < d => ~Bounded(r, d)
  /\ r \in DOMAIN engine.maps =>
       engine.maps[r] = FitAxes(engine.rows, {i \in DOMAIN engine.rows :
                          engine.rows[i].route = r /\ i \in FittingFold})

\* "A row that fitted a map can never certify the threshold built on it": on the
\* rows that fitted none of its maps, an engine that loaded, fitted, started or
\* failed to in any order lets through, below each threshold it has, no more
\* harm than the test allows, and any higher candidate would.  The exception is
\* an engine that adopted an artifact and whose calibrate has since raised.
ServedIsCertified ==
  ~(engine.source = "artifact" /\ engine.raised) =>
    \A r \in DOMAIN engine.thresholds : Certified(r)

\* refit.py: weighting by 1/p "recovers the population the map is meant to
\* price".  The rows drawn at random stand for all the cases their route
\* raised, and no case that the serving rule chose is among the rows.
WeightsRestorePopulation ==
  [][job.at = "idle" /\ job'.at = "refitted" =>
       LET rows == job'.rows
           drawn(r) == {i \in DOMAIN rows : rows[i].route = r /\ chain.reviews[i].withheld}
       IN  \A r \in Routes(rows) :
             drawn(r) # {} =>
               /\ MapThenSumSet(LAMBDA i : rows[i].weight, drawn(r))
                    = WeightUnit * Cardinality(Raised(chain.decisions, r))
               /\ \A i \in drawn(r) : chain.reviews[i].random]_learningVars

\* models.py on pattern_pack_hash: it "lets a refit refuse rows scored by a
\* pack it was not fitted against".  The rows behind an artifact were scored by
\* the detectors it is stamped with.
FittedOnItsDetector ==
  \A f \in learned :
    f.whole =>
      \A i \in DOMAIN f.rows :
        f.rows[i].route \in DOMAIN f.routes => f.rows[i].by = f.detector

\* test_learning_refit.py: "a released threshold has to let something through".
ReleaseLetsThrough ==
  \A f \in learned : \A r \in DOMAIN f.routes : f.routes[r].certificate.released > 0
=============================================================================
