# ControlPlane in TLA+

Models of the assurance gateway in `controlplane/` and of what is run beside it,
checked with TLC, and theorems about them, checked with TLAPS. ControlPlane
decides for every model answer which check is worth its price, keeps a safety
floor that no price overrides, admits work into bounded lanes, and writes each
decision into a ledger chained by hash; offline it evaluates itself under a
budget, sends what it withheld to reviewers and learns from their labels.
`PROJECT.json` lists components, runs, theorems, hazards, findings and, under
`map`, the source lines of every definition.

A run: `tlc -workers 2 -config admission_safety.cfg MCAdmission.tla`.
The proofs: `tlapm` on `Arithmetic.tla`, `LedgerStoreProofs.tla`,
`GatewayProofs.tla`, `AllocationProofs.tla`, `AssessmentProofs.tla`,
`EvaluationProofs.tla`, `LearningProofs.tla` and `ConsoleProofs.tla`.

## 1. Inventory

### Components, their state and operations

| Component (source) | State | Operations |
|---|---|---|
| Admission control (`runtime/admission.py`) | per route: two lanes, each a token bucket, an `asyncio.Semaphore`, `queued` and `active`; counters of admitted, degraded and rejected | `admit`, `release`, `snapshot` |
| Gateway (`gateway/app.py`) | the admission leases, the stream tasks, the spend window and the budget controller | `chat_completions` as JSON or as a stream |
| Assessment engine (`service.py`) | calibrators and thresholds (fixed while serving), session store, ledger | `assess`, `preflight`; offline `calibrate`, `floor_spend_inr`, `load_released_calibration` |
| Allocator, cost model, effect gate (`economics/`, `risk/harm_vector.py`, `effects/`) | none: pure | `combine_signals`, `allocate_verification`, `gate_effects` |
| Session risk (`feedback/session.py`, `feedback/conversation.py`) | a risk per session | `risk`, `observe`, `reset` |
| Audit ledger (`ledger/`) | a SQLite table, a connection and a lock per process | `append`, `append_review`, `verify`, `records`, `reset`, `close` |
| Budget (`economics/budget_*.py`) | shadow price; committed spend, rows served | `update`; `mandatory_only`, `commit` |
| Review desk (`review/queue.py`) | pending cases, reviewers' hours | `submit`, `drain` under five rules |
| Review feedback (`review/reviewer.py`, `review/recalibration.py`) | labels | review, audit of released rows |
| Evaluation (`eval/report.py`, `attention.py`, `metrics.py`, `baselines.py`) | the traces of a window | serve, review, audit, baselines, accounting |
| Calibration, guarantee, rank metrics (`risk/calibration.py`, `guarantees/conformal.py`, `eval/benchmark_metrics.py`) | none: pure | `fit`, `predict`; `learn_then_test`; AUC, average precision, operating points |
| Learning (`learning/`, `cli.py`) | artifact files, `relearn.json` | refit, release gate, `write_artifact`, `latest_artifact`, adoption by an engine |
| Policy store (`policy/loader.py`) | a cache of YAML packs by mtime | `resolve` |
| Corpora: download (`corpora/download.py`, `fetch.py`) | files and `.partial` files | `ensure_cached_file`, `fetch` |
| Commands and console (`cli.py`, `console/streamlit_app.py`) | the files under `data/` and `docs/results/`; the console's caches | data, report, demo, attention, relearn, clean; the console's views |
| Demonstration page (`console/demo_app.py`) | a `st.session_state` per tab, one engine for all | a run of the page script per event |
| Detectors and judges (`detectors/`) | pattern pack, fitted models | `run`; `GuardedJudge` |
| Corpora: parsers, simulator, data types, configuration | none | conversions and drawing of texts |

### How they interact

A call to the gateway is a task of one asyncio event loop. It awaits `admit`,
runs `preflight` in a worker thread (`asyncio.to_thread`), and then either
awaits `assess` in a worker thread and answers, or returns a stream whose
generator starts `assess` as a task of its own, sends tokens, waits for the
task and sends the decision. The lease of `admit` goes back in a `finally`
clause, or, for a stream, in a done callback of the assessment task. `assess`
resolves the policy, reads the session's risk, runs the detectors, decides,
perhaps runs the judge and decides again, folds the turn into the session and
appends the trace to the ledger. The gateway feeds the trace's spend to the
budget controller, whose shadow price the next call reads. The admission lane
decides whether a call is degraded: `mandatory_only` raises its price so that
only the floor buys a check. Shared state: the semaphores and counters of a
route (event loop only), the session store and policy cache (worker threads, no
lock), the ledger's connection (worker threads, one lock) and the database file
(several processes, SQLite's write lock).

Offline, `make report` streams rows through `assess` under the governor, gives
the withheld ones to the desk and a slice of the released ones to an audit, and
leaves decisions and labels in the ledger. `make relearn` joins the two, refits
the route's maps and threshold and writes an artifact; the next engine adopts
the newest one for its detectors, or fits its own from the corpus. The console
and the demonstration page read the files the commands leave, or share one
engine among browser tabs.

### What is hard

- *Interleaving*: worker threads and processes on the ledger; worker threads on
  a session and on the policy cache; tasks on the semaphore; tabs on one engine.
- *Failure*: statements and commits that raise, crashes, power loss with
  `synchronous=NORMAL`; a judge that is unreachable or answers nonsense;
  handlers that are cancelled; commands and downloads killed half way through a
  file; artifacts written in place.
- *Ordering*: permits granted to waiters that time out or are cancelled in the
  same loop iteration; a client that leaves before, during or after its stream;
  a page script replaced in the middle of a run.
- *Staleness*: caches by mtime, by existence of a file, for the life of a
  server; maps fitted on the scores of rules that have since been edited.
- *Numbers*: the floor against arbitrarily high prices; a price computed with
  rounding and compared with rounding; ties, weights and thresholds between
  candidates; a reservation at a rate that underestimates.

### What makes each component correct

- Admission: permits, queue places and wake-ups are never lost or made up.
- Gateway: a lane never runs more than its concurrency; leases go back; a queued
  call is decided; the spend of decided work reaches the controller.
- Assessment: the floor is checked at any price; degraded work buys nothing
  else; effects wait for checks; a purchase is never undone by the second pass;
  the risk a turn leaves behind reaches the turns after it.
- Ledger: one chain, whatever runs concurrently and whatever fails; acknowledged
  records stay; failed appends leave nothing; no lock or transaction stays.
- Budget: spend and reservation stay within the budget but for one row and for
  what the rate underestimates; the price is the worst recent stretch.
- Review desk: no case is worked before it arrives or past the shift, the desk
  ends, and no rule reviews more cases than another.
- Evaluation: a baseline is held to the allocator's spend, and what is averted
  and what is left add up.
- Calibration and guarantee: the fit is the isotonic regression, ranking
  survives it, labels move a threshold the right way.
- Learning: an engine adopts its detectors' last release; thresholds are
  certified on rows that fitted nothing; weights restore the population.
- Policy store: a decision is made under no older pack than it asked for.
- Downloads: a path that is returned holds the pinned bytes.
- Console and page: what is on a screen comes from one run of a command, or from
  a request that was released.

## 2. Modules

| Module | Models | Notes |
|---|---|---|
| `AuditChain` | what the ledger promises: one log, indivisible appends | abstract specification |
| `LedgerStore` | `ledger/` of several processes and threads | implements `AuditChain` |
| `LedgerStoreProofs` | theorems about `LedgerStore` | |
| `Admission` | `runtime/admission.py` for one route | |
| `Gateway` | `gateway/app.py` | extends `Admission`, and is shown to implement it |
| `GatewayProofs` | theorems about `Admission`, `Gateway` and `DegradedPrice` | |
| `Allocation`, `AllocationProofs` | the decision rules as operators | no state; lemmas about the best tier and cut lines |
| `Assessment`, `AssessmentProofs` | `assess()` by several threads, judge failures, session risk | extends `Allocation` |
| `DegradedPrice` | `_mandatory_only_price` in binary floating point | |
| `Budget` | governor and controller over any spends | what `EvaluationWindow` implements |
| `ReviewDesk` | `drain()`, an action per pass of its loop | |
| `EvaluationWindow` | one budget of the evaluation, from the first row to the labels | composes `Allocation`, `Budget`, `ReviewDesk` |
| `EvaluationProofs` | theorems about `Budget`, `ReviewDesk`, `EvaluationWindow` and `EvaluationReport` | |
| `EvaluationReport` | baselines and loss accounting | extends `EvaluationWindow` |
| `Ratio`, `Calibration`, `Conformal`, `RankMetrics` | the statistics, in exact fractions | no state |
| `Samples` | the statistics on a sample that grows by a row at a time | extends `RankMetrics`, `Conformal` |
| `Refit` | `learning/refit.py` | extends `Calibration`, `Conformal` |
| `Learning` | artifacts, `make relearn`, engines, rule edits | extends `Refit` |
| `LearningProofs` | theorems about `Learning` and `Samples` | |
| `DemoPage` | the script runs of several tabs over one engine | |
| `PolicyPacks` | `PolicyStore.resolve` under an editor | |
| `CorpusCache` | the two ways a pinned file gets on disk | |
| `Workspace` | the files of the commands, and the console's views | |
| `ConsoleProofs` | theorems about the four modules above | |
| `Arithmetic` | facts the proofs cite: maxima, counting, sums, recursive functions, folds, fractions in lowest terms | no state |
| `MC*` | instances for TLC | `MCNumerics` is extended by `MCEvaluation` |

Modules that share no state are checked in one run where they belong together:
`MCConsole` and `MCEvaluation` have a variable `part` that names the one a
behaviour is of, and leave the others' variables alone.

**Ledger.** `rows` is the committed table, `inTxn[p]` and `view[p]` the open
transaction of process `p` and what it sees, `lock[p]` its `threading.Lock`.
`pc`, `rec` and `prev` are a thread's position, its record and the local
variable `previous`. Each SQL statement is an action, since other processes run
between them and each can raise: BEGIN outside the `try`, SELECT and INSERT
inside it (rolled back), the commit after it, and the DELETE of `reset` with no
`try` at all. A commit that raises may leave the transaction open or not.
`Begin` needs the database's write lock; `recoverable` is the set of tables a
power loss may leave, which grows with each commit and shrinks at a checkpoint.
Hashes are an uninterpreted `Hash`, of which `CollisionFree` says that two
records never have one digest; the row contents and the SQL schema are
abstracted, and a committed call returns in the same step.

**Admission.** An action is what a task does between two awaits. `stage` is
where a request is in `admit`; `value`, `waiters` and `fut` are the semaphore;
`tokens` counts whole tokens, refilled one at a time at any moment, which covers
every rate. asyncio is external: `wait_for` in Python 3.11 runs
`Semaphore.acquire` in a task of its own, so timeouts, cancellations and grants
can meet in several orders, and each has an action.

**Gateway.** `step` is the position of a call or of its stream, `worker` that
of its assessment in the thread pool, `recorded` the calls whose spend was
folded into the controller. `Disruptions` selects cancellation of handlers and
disconnects before and during the body. The 400 answers before admission change
no state and are left out, as is the controller's arithmetic, which `Budget` has.

**Assessment.** A turn is one call of `assess`. Its actions are split where
other threads can interfere: reading the session's risk, the judge, the read
and the write of `observe`, the append. Floats become integers: scores and
thresholds in hundredths, prices in hundredths, money in a unit that keeps
benefits whole. One tool call stands for the call's effects: the code gates
each by its own class and prices the highest. Tiers 0 and 1 are inputs. A judge
delivers a vector, or fails: one that cannot be reached scores
`UnavailableScore` on the axes it was asked about, and a reply that is cut short
parses to zeros. `trace[t].judged` remembers which, and only a property reads it.

**DegradedPrice.** Numbers are counts of the least positive one, rounded to
`Bits` significant bits after every operation, ties to even, as IEEE 754 does.

**Budget and evaluation.** `Budget` leaves a row's spend open: anything its
checks may cost, and no more than the floor's check once the governor says so.
`EvaluationWindow` fills it in with `Assess` and is shown to implement it
(`HoldsBudget`). Averages of the controller are exact because `Scale` is a
multiple of every row count. The desk's times are whole minutes; the random
draws of reviewers and audits are constants per row, as they are seeded per id.

**Learning.** The chain is two functions of the interaction, its decision and
its review. The code keeps the newest record of an interaction and skips rows
without `raw_harm` or `observed_axes`; the chain of a report holds one decision and
at most one review of each, and both are written with them, so neither is in the
model. An engine's `calibrate` is two actions, one that ends
(`CalibrateEngine`) and one that raises with the new maps in place
(`CalibrateRaises`). An artifact is a record with the flag `whole`; a process that dies
in `write_artifact` leaves it torn. Its time is the number of the refit that
wrote it: one refit runs at a time. `detector` is the version a process started
now would have; a rule edit moves it. `released[d]` remembers, for the
properties only, the last release for `d`.

**DemoPage.** Streamlit is external: an event starts a run of the script, and
the run it replaces stops when it next touches the session's state, so every
assignment to that state is an action. `PolicyPacks` and `Workspace` know a
file's content by a version number, and half a file is a value of its own.
`CorpusCache` models one loading process after another, as the Makefile runs
them.

## 3. Runs

| Run | Distinct states | What it shows |
|---|---|---|
| `ledger_faults` | 91,930 | every ledger property, with all faults, crashes, power loss and resets |
| `admission_safety` | 50,927 | permits, counters, queue bounds, wake-ups |
| `gateway_calls` | 6,607 | lane bound, leases, spend and decisions under every disruption |
| `gateway_leak` | violation | finding 1 |
| `assess_turns` | 243,701 | floor, degraded work, effects, purchases, session risk |
| `assess_lost_update` | violation | finding 2 |
| `assess_unjudged` | violation | finding 3 |
| `evaluation` | 80,096 | budget, desk, baselines, losses; the statistics and the degraded price |
| `learning` | 32,564 | adoption, certification and weights |
| `refit_foreign` | violation | finding 4 |
| `refit_vacuous` | violation | finding 5 |
| `console` | 368,567 | page, policy packs, downloads, files and views |

### Bounds, and why they are enough

- `ledger_faults`: two processes, one with two threads, so that both the
  process's lock and the database's lock are contended; three records, so that
  a fork needs no more than it has (two rivals on one predecessor) and a wedged
  transaction can be followed by another append. In the gateway every statement
  may raise; in the second process only BEGIN, SELECT and INSERT, which is where
  `TxnEndsWithLock` is claimed. Only the number of records is bounded: each is
  submitted once.
- `admission_safety`: five requests on two discretionary permits, two queue
  places and a mandatory lane of one: two grants can be on their way while
  another waiter times out. Requests are interchangeable (symmetry).
- `gateway_calls`: a JSON and a streamed call on one permit and one queue place.
  Calls of a lane interact only through its permits, which `admission_safety`
  checks with more requests; the second call is there to take the permit the
  first gives up too early, and to be decided although it never does.
- `assess_turns`: one watched turn with two axes, every combination of regime,
  effect class and lane, reports on both sides of every bar, prices 0, 300 and
  100000 (nothing deters, some checks do, all do); two more turns charge its
  session, enough to lower its bar from 40 to 17 and to 0, and do not overlap
  (`Overlapping = FALSE`). The judge delivers one of two vectors or fails.
- `evaluation`: five rows of four kinds, in every order, under a budget of 660
  that one tier-2 check of the costliest kind (640) nearly exhausts; a floor
  rate (16) below what a floor check costs (18), so that the reservation
  underestimates; two reviewers and cases of 25 minutes in a window of 60, so
  that reviewers are idle, contended and out of time; all five rules and every
  second slot random. Samples of up to four rows with three scores and two
  weights have ties, blocks that merge back over several others, and candidates
  that pass after one that failed. The price has five significant bits and every
  benefit up to sixteen times the least cost: rounding errors are relative, so
  more bits shrink them and do not remove them.
- `learning`: four chains of two routes with up to six interactions, which
  between them are released and meet each refusal of the refit; two versions of
  the detectors and two refits, so that an old release, a new one and a torn
  file can lie side by side in any order.
- `console`: two tabs, one whose user waits and one whose user does not, with
  two prompts each (see `DemoUsed` for the splits); two workers with four
  resolves under two saves; two loading processes with three loads and two
  kills; an edit, two commands, a kill and two views (see `WorkUsed`).

No passing run uses a state constraint; the bounds above are in the guards.
`CHECK_DEADLOCK FALSE` is said where every call of a bounded instance ends.

### Fairness

- `LedgerStore!FairSpec`: a thread inside a call runs on, SQLite answers or
  raises within its busy timeout. Crashes are not fair.
- `Gateway!FairGateway`: the event loop runs every ready callback and fires
  every timer, the thread pool runs submitted work, and an assessment ends:
  detectors are bounded computations and the judge's HTTP call has a timeout.
  Clients owe nothing, and a lease may be held for good.
- `EvaluationWindow!FairSpec`: a sequential program runs on (raising cases, one
  pass of `drain`).
- `DemoPage!DemoFairness`: Streamlit runs the script of a tab on. Users owe
  nothing.

## 4. Properties

*Ledger.* `ChainIntact`: `verify()` accepts the committed table, what any
process sees, and what any power loss leaves. `AckedIsRecorded`: a digest that
`append` returned stays in the table. `RaisedLeavesNoRow`: one that raised is in
no table, then or later. `TxnEndsWithLock`, `LockReturned`: neither a
transaction nor a lock outlives its call. `ImplementsAuditChain`: under the
mapping `log` = the records of `rows`, every step of the store is an indivisible
step of `AuditChain` or a stutter.

*Admission.* `LaneAccounts` has two parts: `PermitsConserved` (the semaphore's
value, the permits on their way and the leases held add up to the concurrency)
and `CountersAreTrue` (`active` and `queued` count what they are read for, so
`release` never raises, and both have stayed in bounds). `NoLostWakeup`: a free
permit and a pending waiter coexist only while somebody who was granted one
still has to pass it on.

*Gateway.* `LaneBoundsAssessments`, `ServedLeaseReturns`,
`AttendedSpendReachesController`, `QueuedIsDecided`.

*Assessment.* `FloorIsChecked`, `DegradedBuysFloorOnly`, `EffectsWaitForChecks`,
`PurchaseIsFinal`, `EarlierTurnsCount`. The last holds while the turns of one
session do not overlap: finding 2 is what happens when they do.

*Evaluation.* `BudgetHeld`: what is spent and what is reserved exceed the budget
by at most one row's discretionary checks and what the floor rate
underestimated. `PriceIsWorstStretch`: the controller's clamped sum is the worst
stretch of rows that ends now. `HoldsBudget`: the window implements `Budget`.
`DeskIsStaffed`: no case is worked before it arrives, past the shift or by a
reviewer who is not there, and breaches are measured from the arrival.
`RuleServesAsMany`: how many cases are reviewed does not depend on the rule,
which is what makes the comparison of rules one at identical capacity.
`DeskDrains`: the loop ends. `BaselineAtMatchedSpend` and `LossIsAccounted`: a
baseline is greedy within the allocator's spend, and averted and residual loss
are all there was to lose.

*Statistics.* `FitIsIsotonic`: pooling adjacent violators gives the max-min
formula of the isotonic regression. `CalibrationKeepsRanking`: a map never ranks
the rows that fitted it worse than their raw scores. `MetricsAgree`: the
rank-sum AUC is the pair count, and average precision, operating points and
threshold choices are what their definitions say. `LabelsMoveThreshold`: one
more clean row never tightens a threshold that released something, a harmful one
never loosens any. `PricedOutUpToRounding`: at the degraded price a tier is
worth at most a rounding error.

*Learning.* `LoadsLastRelease`: what an engine adopts is the last release for
its detectors, whatever is torn, refused or for others. `ServedIsCertified`: of
the rows that fitted none of its maps, an engine lets through below each
threshold, by the maps it has, what passes the test, and below a higher candidate
it would not. Engines load, fit and fail to fit in any order; the exception is an
engine that adopted an artifact and whose `calibrate` raised since (section 6).
`WeightsRestorePopulation`: the rows drawn at random weigh as many cases as
their route raised.

*Beside the gateway.* `ShownWasReleased`, `RailMatchesTrace`,
`PatientIsAnswered` (page); `NoOlderThanAsked` (policy); `ReturnedIsPinned`
(downloads); `ConsoleShowsOneRun`, `LabReachesChain` (files).

Every property is shown to bite by a faulty variant of a definition ("Faulty
variant" in the modules), listed under `mutants`.

## 5. Theorems

`LedgerStoreProofs` assumes only `ConstantsAssumption`: owners are processes and
hashes are digests. Nothing is assumed about finiteness, faults are any set per
process, and only `StoreImplementsChain` below uses `CollisionFree`, which is
what the code's choice of SHA-256 stands for.

- `TypeCorrect`: `Spec => []TypeOK`.
- `ChainAlwaysIntact`: `Spec => []ChainIntact`. The invariant `IInv` adds
  `Sections` and `Chains`. `ChainIntact` is not inductive: that an INSERT
  extends the chain depends on the hash its thread selected two statements
  earlier and on nobody having written to the connection since. `Sections` says
  that a thread between BEGIN and commit holds its process's lock, has its
  transaction open and selected the last hash. The arithmetic of the chain is
  one lemma, `AppendChained`; a lemma per action preserves `IInv`.
- `OnlyOneWriter`: `Spec => []OneWriter`, from `IInv`: a transaction is opened
  only when no connection has one, and a thread writes only inside its own.
- `TxnAlwaysEnds`: `Spec => []TxnEndsWithLock`. `Attended` says that in a
  process whose DELETE and commit do not raise, an open transaction has a thread
  between its BEGIN and its commit, which by `IInv` holds the lock.

The second half of the module follows each record, under the same assumption.

- `RaisedNeverAppears`: `Spec => []RaisedLeavesNoRow`, and `AckedAlwaysRecorded`:
  `Spec => []AckedIsRecorded`. Neither is inductive, because a commit replaces
  the whole table by what one connection sees. `RInv` adds `Views` (what the
  writing thread sees is the committed table and its own row) and `Placed` (a
  record is fresh, in flight in one call, raised, or in tables, and only one of
  these). `Views` needs `OneWriter`: otherwise another connection could commit
  between a thread's BEGIN and its commit.
- `StoreImplementsChain`: `Spec => ImplementsAuditChain`. A commit is one append
  of the abstract log (`CommitIsAppend`) or one reset, a loss of power one loss
  (`PowerLossIsOne`), and every other step leaves the log alone
  (`StoreStutters`). The mapping finds acknowledged records by their digest, so
  the invariant `OneDigest` is needed: in every table there is or can be, a
  record has the same digest, and with `CollisionFree` a digest one record.

`GatewayProofs` assumes `AdmissionAssumption` (finitely many requests, and
positive concurrencies and bursts) and, for the price, `PriceAssumption`: there is
a significant bit, 1 is a number with all its bits, and costs are positive.

Of `Admission`:

- `LaneAlwaysAccounts`: `Spec => []LaneAccounts`, for any number of requests. It
  is not inductive: that a release wakes exactly one waiter depends on the
  futures in the deque. `AInv` adds `Typed`, `Placed` (who queues for or holds a
  permit has a lane, only waiters and abandoners have futures, and an abandoner's
  is not pending) and `Deques` (each deque holds the futures of its lane, once).
  The sums are of cardinalities of sets of requests: `OneMoves`, `StageMoves` and
  `GrantMoves` say by how much each set changes when one request moves, and
  `BooksBalance` that a step which moves each number by as much as the set it
  counts keeps `LaneAccounts`. Then there is one lemma per action.

- `WakeUpsAreNeverLost`: `Spec => []NoLostWakeup`. `HandsOn` says that a free
  permit leaves a pending waiter asleep only while another waiter's grant is on
  its way. A waiter that wakes others wakes the first pending one of the deque,
  which exists by `LeastNat`.

Of `Gateway`:

- `GatewayUsesAdmission`: `GatewaySpec => Spec`. Each action of the gateway is
  an action of the lane or leaves the lane's variables alone, so both theorems
  above hold of it (`GatewayKeepsAccounts`).
- `AssessmentsStayInTheLane`: `GatewaySpec => []LaneBoundsAssessments`. The
  invariant `GInv` says that a worker that was submitted runs under the lease of
  its call, unless that call was cancelled (`UnderLease`): a body that has not
  been asked for has a lease and no worker, and whoever gives a lease back does
  so when the worker is done. Leases are bounded by `PermitsConserved`.

Of `DegradedPrice`:

- `PricedOutAlways`: `PriceSpec => []PricedOutUpToRounding`, for any number of bits
  and any numbers. `Power` and `UlpOf` are recursive functions, so that they are
  what their equations say is found first (`PowerIs`, `UlpIs`, by
  `StrongInduction`). `RoundIs` bounds what rounding moves a number by,
  `RoundIsMonotone` says it never crosses a float, and `NextAfterIsAbove` that
  `nextafter` is one. The float above the rounded cut line is then above the ratio
  of benefit to cost but for one rounding (`PriceCoversRatio`), and two more
  roundings, of the sum and of the product, lose less than one unit of the
  benefit's last place (`AdjustedCovers`).

`AssessmentProofs` assumes nothing about prices, calibration or thresholds but,
for its last three theorems, their types (`AllocationAssumption`,
`AssessmentAssumption`).

- `FloorAlwaysChecked`: a forced decision buys tier 1 or 2 at any price
  (`ForcedBuysACheck`), and the second pass does not revise the purchase.
- `PurchaseAlwaysFinal`: tier, spend and floor of a trace are those of the first
  decision.
- `EffectsAlwaysWait`: a permitted effect had no forced and no affordable check
  (`PermitMeansNoCheck`).
- All three follow from `IInv` (`Explained`): a turn that waits for the judge
  still holds the first decision on its arguments and on the risk it carried,
  and a decided turn is charged as that decision says, whatever the judge
  delivers or fails to. The other turns' part is left alone by a step
  (`OthersKeep`).
- `DegradedAlwaysFloorOnly`: the price of a degraded turn is above every tier's
  cut line (`CutLineIsAbove`), a price above it leaves nothing affordable
  (`CutLinePricesOut`, `NothingAffordable`), so only the floor buys.
- `AssessmentTypes`: `Spec => []TypeOK`. That blended scores are scores
  (`CombineIsVector`) and a fold of two risks a risk (`FoldFacts`) is arithmetic
  on integer division.
- `EarlierTurnsAlwaysCount`: if turns of a session do not overlap,
  `Spec => []EarlierTurnsCount`. It relates what two turns saw and is not
  inductive; `RiskInv` adds `Serial` (one turn of a session is in flight at a
  time), `Fetched` (so what it has read is what it will replace) and `Charges`:
  the session holds at least what decay leaves of each folded turn, by the
  number of turns that ended since (`Folded`). A fold is one more turn and one
  more decay (`FoldRisk`); a turn that begins finds `Folded` within `Since`
  (`BeginRisk`), and more turns leave less (`RemainsShrinks`). `Remains` is a
  recursive function; what it computes is found by `UpwardInduction`, induction
  on the natural numbers with a set in the place of an operator
  (in `Arithmetic`).

`AllocationProofs` holds the lemmas these rest on and assumes
`AllocationAssumption`; `Arithmetic` holds those that are about no component and
assumes nothing. `Benefit` is a fold over the axes and `CHOOSE` picks the
best of the tiers, so that a benefit is a natural number and that a best tier
exists have to be shown by induction. The library's induction theorems take an
operator; `SubsetInduction` states the same thing with a set in its place (a set
that has each subset whose smaller subsets it has, has all), and `GrowingSets`,
`FirstOfOrder`, `MaxOfFinite` and `MinOfFinite` follow from it. `SumOf` names the sum that a fold of the library computes: `SumExists`
says that there is one, and `SumsAgree`, `SumOfMore`, `SumOfAll`, `SumOfPart` and
`SumOfRest` that it does not depend on the order, grows by a term, adds up and is
split the way sums are. `RecursionExists` and `FoldExists` do for recursive
functions and for folds what `SumExists` does for sums. `GcdIs` says what Euclid's
algorithm computes, so that `FracIs` and `FracValue` can say that a fraction is in
lowest terms and that equal fractions are the same pair.

`EvaluationProofs` assumes `BudgetAssumption` (what a row may cost is at most
`SpendMax`, a floor check at most `FloorMax`), `DeskAssumption`,
`WindowAssumption` (rows have scores on every axis, routes have a time limit,
every row has a draw), `AllocationAssumption` and, for the refinement, `SpendsAssumption` (the spends
of `Budget` are the prices of the tiers, and a floor check costs at most
`FloorMax`).

- `GovernorTypes`: the counters and the price keep their types.
- `GovernorHoldsBudget`: `BudgetSpec => []BudgetHeld`, inductive on its own: a
  row with something to spare starts below the budget and overshoots by itself
  only; a row with nothing to spare adds at most what its check costs above the
  rate (`OneRow`).
- `WindowHoldsBudget`: `Spec => HoldsBudget`. Serving a row is a step of
  `Budget`: what `Assess` charges is a tier's price, and at the degraded price
  only the floor's check is left (`NothingAffordable` again). Every other step
  leaves the budget alone. `WindowKeepsBudget` carries `BudgetHeld` over.
- `DeskAlwaysStaffed`: `Spec => []DeskIsStaffed`, for every rule. The property
  counts the cases in hand, and the served cases do not name their reviewer, so
  it is not inductive: `DeskInv` says that an assignment of served cases to
  reviewers exists (`Shifts`) in which each reviewer takes one case after the
  other, the last of them ends by `freeAt`, and the docket's cases are distinct and of
  served rows. Two cases in hand at a time then have two reviewers, and the
  pigeon-hole principle gives the bound (`HandsForAll`). That `drain` picks a
  case at all needs the rules to be total orders on distinct cases
  (`FirstOfOrder`).
- `RulesServeAsMany`: `Spec => []RuleServesAsMany`. The property counts, when the
  desk has drained, the cases that a schedule would end in the window, a
  recursive function of the cases in order of their rows. `Queued` relates the
  desk to that schedule while it drains: every reviewer stands for one of the
  last cases of the schedule, as many as there are reviewers (`Slots`), and is
  free when that one ends, or has waited since for the next arrival. So the next
  review ends when the next case of the schedule does (`NextTurn`), whichever case
  it is; all cases take the same minutes. `EndsExist` finds the recursive function,
  `InOrderIs` the i-th case, `ArrivedBy` turns its arrival into a count of arrivals,
  and `FinishGrows` says that the schedule is monotone. TLC checked `QueueInv`
  before it was proved.
- `PriceIsAlwaysWorst`: `Spec => []PriceIsWorstStretch`. `PriceInv` holds what was
  committed and the price as sums over the traces. One more row ends every
  stretch with its own error (`OneMoreRow`), and the largest of numbers that all
  move by an error moves by it, clamped (`WorstMoves`).
- `LossIsAlwaysAccounted`: `Spec => []LossIsAccounted`. Row by row a run averts and
  leaves what there was to lose (`RowIsAccounted`), so the sums do; that the
  tuned baseline is one of its runs needs a best one to exist (`BestIsARun`).
- `BaselineIsMatched`: `Spec => []BaselineAtMatchedSpend`. `FairRun` states the
  property of any set of candidates, not only of all of them: the last of a set
  in the ranking (`RankedLastIs`) is taken or does not fit after the others, and
  changes nothing about those before it (`OneMoreCandidate`).

`LearningProofs` assumes, of `Learning`, `LearningAssumption` (there is a detector)
and of the recorded chains, `ChainAssumption`, that interactions are numbered and,
for the weights only, that a slot filled at random was filled from the queue, the
queue holds what was withheld, and `WeightUnit` makes weights whole.
`EnginesServeTheCertified` also uses `CorpusAssumption` (the corpus is numbered) and
the shape of the grid of candidates in `ConformalAssumption`. What maps, errors and tests compute is left open:
the proofs about `Learning` never look inside `Fit`, `Passes` or the gates.

- `EnginesLoadTheLastRelease`: `LearningSpec => LoadsLastRelease`, an action
  property. An engine reads the newest file that is its own or torn, and a write
  deletes whatever has its name, torn files that hid an older one included.
  `AsLast` says of each detector's own files that the newest, if whole, holds what
  was released last; `OnTime`, that a file is older than the refit at work unless
  that refit has opened it. A torn file then hides a release and never shows an
  older one (`BeginKeeps`, `EndKeeps`). That there is a newest file at all is
  `NewestIsLast`, from the well-foundedness of the natural numbers.
- `EnginesServeTheCertified`: `LearningSpec => []ServedIsCertified`. `InHand` says of
  every file and of the refit at work that maps and thresholds are of the two
  folds of the rows kept with them (`Kept`), and `EngineInv` that an engine serves
  what was kept (`Serving`), from an artifact or from the corpus; a `calibrate` that
  raises changes the maps of an engine with thresholds of the corpus to the same
  maps. The property counts rows as a set and through the maps an engine has, while
  `LearnThenTest` counts positions of a list of scores: `AscendingIs`, `PlacesOf`
  and `CountsAre` match the two, `ThresholdIs` takes the largest candidate that
  passes.
- `WeightsAlwaysRestore`: `LearningSpec => WeightsRestorePopulation`. The rows of a
  route that were drawn at random are as many as the slots its rate was computed
  from, and each weighs the inverse of that rate, so the sum is that of equal
  terms.

The theorems about `Samples` assume `ConformalAssumption` (the target rate and the
error budget are fractions between 0 and 1, and the grid has two candidates or
more) and `SamplesAssumption` (there is a score, scores are natural numbers,
weights are positive).

- `LabelsAlwaysMoveThreshold`: `SamplesSpec => LabelsMoveThreshold`. A row moves the
  threshold through the binomial tail, so the tail has to be known: `Pascal` and
  `TailStep` say how it changes with one more row released and one more escape,
  `RowMovesTail` that the one makes as few escapes less likely and the other more,
  `NewRow` what a row changes at a candidate above its score, and
  `RowMovesThreshold` takes the largest candidate that passes.
- `TailFallsWithRate`: the tail falls as the rate grows. The code finds, by
  bisection, the rate at which the tail is as small as the budget, and compares it
  with the target; the model tests the tail at the target. This is why the two
  decide alike.
- `MetricsAlwaysAgree`: `SamplesSpec => []MetricsAgree`. The mid-rank of a row
  counts the rows below it and half of those tied with it; summed over the
  positives, pairs of positives cancel against `p * (p + 1)` (`PairsWithSelf`) and
  the pairs with negatives remain (`AucsAgree`). Average precision sums over scores
  and the mean over rows: `SumByValue` regroups, over a common denominator
  (`PrecisionsAgree`). The lowest score flags everything, and a best threshold
  exists by `FirstOfOrder` (`BestIsNoWorse`). The fold of
  `false_positive_rate_at_recall` keeps the cheapest so far (`CheapestIs`), and no
  threshold that reaches a recall can leave out a negative with fewer than `k`
  positives above it (`CheapestCosts`).
- `FitIsAlwaysIsotonic`: `SamplesSpec => []FitIsIsotonic`. Plot the positives up to
  each score against the weight up to it: a block's mean is the slope of a line
  between two of these points. `Held`, the invariant of the loop over the scores,
  says that the means do not fall and that no point lies below the line of a
  block; `Taking` says what is left of it while the last score is still being pooled.
  A turn of the inner loop keeps `Taking` (`TakingPools`), its end restores `Held`
  (`TakingSettles`), and as many turns as there are blocks suffice (`PushHolds`).
  From there `PredictIs` reads the map at a score, which is a knot or lies on a flat
  ramp, and `IsotonicIs` the max-min formula: both are the mean of the score's block.
- `CalibrationAlwaysKeepsRanking`: `SamplesSpec => []CalibrationKeepsRanking`. The map
  climbs, so it can only tie scores that differed, and the scores it ties are a run
  that no point lies below (`LevelIs`): among those rows the positives come early
  (`LevelIsEarly`). Where they do, their ranks add up to no more than if all rows
  tied (`EarlyPositives`), level by level and so for the sample (`MergedRanks`).

`ConsoleProofs` assumes, for the page, `DemoAssumption`: patient tabs are tabs,
bounds are natural numbers and a ruling gives a verdict. The theorems about the
other three modules assume nothing.

- `NothingWithheldIsShown`: `DemoSpec => []ShownWasReleased`. A bubble is put on
  the page some assignments after the request was released, by a run that may
  be replaced in between: the invariant says so of every place an answer can be
  in meanwhile (a run's result, the rail's outcome, the messages), and that the
  ledger only grows.
- `RailTellsTheTruth`: `DemoSpec => []RailMatchesTrace`. Between the rail's
  reading of the session's risk and the decision's no one writes it: a session
  belongs to one tab, and the run of a patient tab is not replaced.
- `PacksAreFresh`: `PacksSpec => []NoOlderThanAsked`. The cache's text is never
  older than its time says, and a time never runs ahead of the file's.
- `CorpusIsPinned`: `CacheSpec => []ReturnedIsPinned`; a `.partial` that passed
  its digest is what is renamed.
- `LabStaysOnTheChain`: `WorkSpec => []LabReachesChain`.
- `ConsoleIsOfOneRun`: `WorkSpec => []ConsoleShowsOneRun`. Files carry no run
  number a reader of the state could trust, so `WorkInv` reads it off what is
  still to do: the list a command has left tells how far the pair of the report is
  written or removed (`CommandTodo`, `CommandPair`), and the list a console has left
  tells which files it already read (`ConsoleTodo`, `ConsolePair`). `Overlap` says
  that a command beside a loading console vouches for nothing, `Vouched` that what
  was cut short accounts for every pair of files that is not of one run, and
  `OnScreen` carries the loaded pair into each view. One lemma per action;
  `CommandGoesOn`, `LoadStep`, `LaterStep` and `ConsoleAside` hold the parts a step
  leaves alone.

Model-checked only: liveness (`LockReturned`, `QueuedIsDecided`, the gateway's
leads-to properties, `DeskDrains`, `PatientIsAnswered`). Every other property of
a passing run is also a theorem.

## 6. Findings

1. `gateway_leak`: a client that leaves after the response of a stream was
   created and before its first chunk was asked for takes the lease with it; the
   lane is one permit smaller until restart (`app.py:91`).
2. `assess_lost_update`: `observe` is a read, a call of `min` and a write with no
   lock. Two turns of one session in two worker threads can lose one turn's
   risk (`conversation.py:14`). It needs a thread switch inside one line.
3. `assess_unjudged`: `judge_selection.py:13-14` says that a judge that was paid
   for and not received is not a clean result. A reply that is cut short or is
   not the JSON asked for becomes zeros and no error
   (`ollama_judge.py:165`), and the turn is cleared.
4. `refit_foreign`: `models.py:254-255` says the recorded pack hash lets a refit
   refuse rows of other rules. The refit never looks at it (`refit.py:109`), and
   the artifact carries the version of the process that refits: after a rule
   edit, maps fitted on the old rules' scores are adopted by the new rules.
5. `refit_vacuous`: `test_learning_refit.py:57` says a released threshold has to
   let something through. Only a threshold of 0 is refused (`refit.py:236`): a
   route whose selection rows all score as high as the candidate is released
   with a bound of 0 of 0.

Modelled without a claim, because the code promises nothing either way or says
so itself:

- `Semaphore.locked()` stays true while a granted waiter has not run, so a
  request may be turned away from a lane with a permit free.
- A JSON call cancelled while its assessment runs gives its lease back at once
  while the thread runs on, so a server that is shutting down can briefly exceed
  a lane's bound.
- The spend of a stream whose client leaves is not fed to the controller.
- `ledger.append` may raise after the turn was folded into its session.
- An unreachable judge scores 1.0, which is blended with the other tiers to less
  than the block boundary: the turn is annotated, not blocked.
- `calibrate` assigns the maps before the loop that may raise (`service.py:295`,
  300 and 301) and the thresholds after it (309). On an engine that adopted an
  artifact, a `calibrate` that raises leaves the corpus's maps under the artifact's
  thresholds, `_threshold` goes on to serve them, and they may let through more
  than the test allows: `ServedIsCertified` without its exception fails in seven
  steps of the `learning` instance. Nothing in the repository adopts an artifact and
  then fits on the same engine, and the gateway, the consoles and the probes all
  drop an engine whose `calibrate` raised.
- A torn artifact stops every reader that meets it before a whole one of its
  detectors. A route the last refit refused is compared with no incumbent, as it
  is looked for in the newest artifact only. `relearn.json` is written before the
  artifact it speaks of.
- A pack saved twice within one tick of its mtime is not reloaded, and one read
  while it was half saved stays cached until the next tick.
- `clean` unlinks `audit.db` under an open lab, and a torn `interactions.jsonl`
  counts as a corpus; `scenarios.json` and the console's caches outlive the files
  they were read from; the hash-chain card shows the newest record, not the
  tab's.
- In a tab whose user does not wait, a replaced run of the page may leave a rail
  that narrates another tier than the trace.
- Two processes that download the same file share one `.partial`; the commands
  are run one at a time, and the model does the same.

## 7. Not modelled

- *Parsers of the corpora, the simulator's texts, the scores of rules and fitted
  models*: conversions of text with no state another component sees. Their
  results are inputs of the models.
- *Probes, load test, sensitivity sweep, tracking, runtime report, formatters*:
  sequential measurement and output over operations modelled elsewhere; no file
  of theirs is read back by the program.
- `AssessmentEngine.floor_spend_inr` runs `assess` offline with the ledger
  detached and returns one sum, `FloorRate` here. `SessionRiskStore.reset` is
  called by offline drivers and tests only.
- `spearman` and the literature band of `benchmark_metrics.py`, and the
  before-and-after figures `report.py` prints from labels: figures nothing
  decides by.
- *Data types and configuration*: their fields are in the modules that use them.

The rest of the repository is tests, documents, data and generated results.
