# A verification of the password attack detection system

TLA+ models of the parts of this repository whose correctness depends on the order
in which things happen, TLC runs that check them on small instances, and TLAPS proofs
of the properties that matter most for every instance. Paths are relative to the
root of the repository; `replay/…`, `ml/…` and the like are under
`src/password_attack_detector/`.

Contents: 1 the system, 2 the modules, 3 the runs, 4 fairness, 5 what is proved,
6 where code and documentation disagree, 7 what is not modelled, 8 the plan.

## 1. The system

The repository is an offline pipeline and a small online service. Offline, commands
turn raw or synthetic authentication events into datasets, features, rule detections
and trained models, and each command publishes its result as an immutable directory.
Online, a FastAPI process serves the frozen champion and a replay of reviewed
scenarios, a Streamlit console shows them, and a proxy is in front of both.

| Component | State it keeps | Operations | Interacts with |
|---|---|---|---|
| Live replay service (`replay/store.py`, `engine.py`, `service.py`, `enums.py`) | runs by identifier with their timelines; one asyncio task and one stop event per run | start, step, pace delay, deadline, stop with a grace period, eviction, shutdown | detector threads (`api/services.py`), the console, other HTTP clients |
| Console page (`dashboard/views/replay.py`, `dashboard/state.py`) | a session: attached run, last state seen, cursor, records | Start, Stop, Refresh, timed poll | replay service over HTTP |
| Experiment ledger (`ml/ledger.py`) | one file per record, a contract file, a staging file | initialize, append, read a history | every publisher, every reader of evidence |
| Evidence publication (`ml/experiments.py`, `selection.py`, `champion.py`, `test_evaluation.py`) | published directories, `.staging-` siblings, the ledger | publish a run, a selection, a freeze, an evaluation; reconcile each | ledger; each kind is derived from the one before |
| Prediction publication (`ml/prediction_publisher.py`) | published directories, a staging sibling | publish | champion, datasets |
| Process supervisor (`scripts/render_entrypoint.py`) | three children, a self-pipe, a stop flag | verify, spawn, await readiness, serve, shut down | kernel signals, API, console, proxy |
| Dataset, feature and detection publishers (`*/serialization.py`) | groups of files with a backup | publish, roll back | every later stage |
| API runtime (`api/services.py`, `app.py`) | the loaded champion, readiness | build the runtime, answer readiness | serving bundle, replay |
| Rules and scores (`detection/engine.py`, `rules/`, `scoring.py`) | none between anchors | evaluate nine rules on a snapshot, collect the results, combine them | features, alerts |
| Alerts (`detection/alerts.py`; `ml/alerts.py` on model decisions) | the open and the last alert of each key, tallies | open, absorb, escalate, cool down, limit | scores |
| Feature engine (`features/`) | sliding windows, baselines | read state, then update it, per event | datasets |
| ML workflow (`ml/cli.py` with `ml/selection.py`, `champion.py`, `predictions.py`, `test_evaluation.py`) | runs, selections, one lock per scope, predictions, evaluations, one reference profile | train, select, freeze-champion, predict, evaluate, drift | each command reads what the ones before published |
| Gates, thresholds, ranking (`ml/gates.py`, `ml/thresholds.py` …) | none | decide over metrics | ML workflow |
| Fusion, stacking, inference (`ml/fusion.py` …) | the frozen champion | decide over rule and model | API |
| Training and evaluation arithmetic (`ml/training.py` …) | arrays | fit, calibrate, measure | — |
| Serving bundle (`deployment/`) | a directory of verified evidence | materialise, verify | ML workflow, supervisor, API |
| Ingestion, synthesis (`data/`) | none shared | parse, pseudonymise, generate | — |
| Other pages, schemas, CLIs | none shared | present | everything |

What is hard in it, and what would make each component correct:

* **Replay service.** Everything runs on one event loop, so races happen only at
  `await`s, but several parties end a run: its task, its deadline, stop calls, the
  stop's own timeout, shutdown. Correct means: a stop's answer stays true, nothing
  steps after a stop, limits hold, no run keeps a slot with no task driving it,
  stops and shutdown always end, readers see an append-only timeline.
* **Console.** It works from a copy of the service's state, across requests that can
  fail after having taken effect and across restarts of the API. Correct means: what
  it shows did happen, once and in order, and it catches up.
* **Ledger.** Processes share a directory with no lock, and may be killed between any
  two system calls. Correct means: a write-once register, told honestly.
* **Evidence.** Two stores (directories and ledger) are written one after the other.
  Correct means: nothing half built is visible, whoever was told "published" was told
  the truth, no evidence without what it is derived from, recovery recovers.
* **Publishers of files.** Several files replace several others one by one. Correct
  means: a failure leaves what was there, and a manifest vouches for what it stands
  beside.
* **Feature engine.** A window is never recomputed: records are added, subtracted,
  compacted and released, and read at other moments than they are written. Correct
  means: a row says what a definition over the strictly earlier events says.
* **Rules and scores.** Nine rules share the same counts; their results come in any
  order and perhaps twice. Correct means: the score is a function of what fired,
  monotone in it, and rules that exclude one another never fire together.
* **Alerts.** Windows tied to the last assessment, the last alert and the first one
  of an hour interact at their boundaries. Correct means: nothing vanishes without a
  tally, nothing new is hidden, no flood.
* **ML workflow.** Commands are run in any order, again, and on other datasets, under
  one root that remembers everything. Correct means: a champion was measured on its
  own dataset, a scope never has two and all of a root beat one baseline, what is
  derived from a champion is its own.
* **Supervisor.** Signals arrive between any two instructions, and in its steady state
  it sleeps with no timeout. Correct means: no lost wake-up, every stop and every
  death ends the container, no child is left.

`PROJECT.json` lists every component with its status, and under `hazards` each place
in the code where one of these can go wrong.

## 2. The modules

| Module | Models | Extended or used by |
|---|---|---|
| `Replay` | the replay service, its detector threads and its request handlers | `MCReplay`, `ReplayConsole`, `Replay_proofs` |
| `ReplayContract` | what one run promises its readers (abstract) | `Replay` (refinement) |
| `ReplayConsole` | the console page and a cursor-following client, composed with `Replay` | `MCReplayConsole`, `Replay_proofs` |
| `Ledger` | appenders and readers of the ledger, by file-system call | `MCLedger`, `Ledger_proofs` |
| `LedgerContract` | a write-once register (abstract) | `Ledger` (refinement), and the reason an append is one step in `Evidence` |
| `Evidence` | publication and reconciliation of runs, selections, freezes, evaluations | `MCEvidence`, `Evidence_proofs` |
| `Supervisor` | `run()`, `Supervisor` and `Child` with signals, children and clock | run as it is, `Supervisor_proofs` |
| `Publisher` | the three publishers of groups of files, by file moved | `MCPublisher`, `Publisher_proofs` |
| `PublisherContract` | a directory that changes generation in one step (abstract) | `Publisher` (refinement) |
| `Features` | the feature engine's windows, sequence states, geographic state and release of entities | `MCFeatures`, `Features_proofs` |
| `Detection` | the nine rules, the rule engine and the scorer, over one anchor | `MCDetection`, `Alerts_proofs` |
| `Alerts` | the alert pass | `DecisionAlerts`, `Alerts_proofs` |
| `DecisionAlerts` | the system comparison's own alert pass, beside `Alerts` on one stream | `MCAlerts`, `Alerts_proofs` |
| `Study` | the commands of the ML workflow under one root | `MCStudy`, `Study_proofs` |
| `OperatingPoint` | thresholds, abstention, gates, PR-AUC and the choice of a hybrid, as operators | `Grading` |
| `Grading` | the workflow and the arithmetic of its grades together | `MCStudy`, `Study_proofs` |

Definitions headed *Fault* are plausible slips in the definition that follows or
precedes them; nothing uses them but the checks that a property would notice.

### Replay

One action is the stretch of code between two suspension points of asyncio. The
store's lock is never contended because no critical section awaits, so store calls
are part of the action that makes them. The suspension points are the values of
`task`: `ready` (a created task's first turn), `pausing` (the pace delay, raced
with the stop event), `scoring` (the detector in a worker thread), `cancelling`
(cancelled and not yet resumed); and `calls[c].pc = "waiting"`
for a stop waiting on its shielded task, and `app = "draining"` for shutdown's gather.

| Variable | Code |
|---|---|
| `runs` | `ReplayStore._runs`; the states `unminted` and `evicted` are "not in the dictionary" |
| `born` | `ReplayStore._order` |
| `task`, `index`, `overdue` | the coroutine `ReplayEngine._drive`, its loop variable and its deadline |
| `stops` | `ReplayEngine._stops` |
| `workers` | threads still inside `asyncio.to_thread` (`build_replay_detector`) |
| `calls` | requests inside `stop_run` and their last answers |
| `app` | the lifespan of `api/app.py` |

A record is the sequence number of its event; what the detector found in it, and how
it is displayed, is left out. The detector may return, raise or never come back.

### ReplayConsole

The page is a Streamlit script: `pc` says which response it is waiting for, and
the service moves between its requests. Each request may fail on its way there or
back, so a POST may have taken effect though the page was told nothing. `Restart`
replaces the API process: the store is memory only. `reader` is a second client that
follows `after_sequence` until `more_expected` is false. Of the service, the composition
leaves out three actions of `Replay`: `DeadlinePasses` (every scenario here ends by itself;
a late run fails, which to the views is one more way to end), `StopInterrupted` (it cuts off
a stop call's answer, which no view waits for) and `Shutdown` (after which no request is
answered; `Restart` is what the views see of it). None adds a change of a timeline or
of a terminal state that the actions kept do not make.

### Ledger

One action is one system call another process can observe. A record's file is
`Absent`, `Torn` (created, not yet holding all its bytes) or its body. `call[c].pc`
walks through `append`: contract file staged under its fixed name, filled, renamed;
then the exclusive creation of the record (`creating`), or the comparison
with what is there (`comparing`), the write, the `fsync`. `Faults` selects what the
environment may do: kill a process anywhere (`crash`), fail a write (`flush`), fail
an `fsync` after the bytes are visible (`sync`). A reader lists, then opens
file by file.

### Evidence

An artifact has a published directory, a staging sibling and the set of bodies the
ledger records under its name (a set, because a freeze's record is named by content
and its directory by scope). A directory is its files and the receipt written last.
Publishers check what they derive from (`Usable`, `Contradicted`), clear and
make the staging directory, write, verify, rename, append. `walk` is a
reconciliation: it lists every directory of one kind, `.staging-` siblings included
and first, and appends what is missing. The gates and comparisons that decide *what*
is selected or frozen are a choice of body.

### Supervisor

`pc` walks through `run()`: the three refusals, then `spawn` / `ready` / `probe` /
`wait` / `reap` for each child, then `serve` / `collect` / `decide`, then the four
stages of `shutdown()`. A signal is one action that sets what its handler sets and
puts a byte into `pipe`; CPython runs the Python handler before the main thread's
next statement, so no step of the program comes between the two. `Wait` and `Serve`
are select and drain together (a signal between them leaves the pipe as it was:
non-empty); the drain, the reap and the look at `terminating` are separate
steps, and that is where the hazard is. A child goes `forked` → `session`
(after `setsid`) → `starting` (after `execv`) → `serving` → `draining` → `zombie`, and
may fall to `zombie` from anywhere. A SIGTERM finds no group before `setsid`
and is lost to the inherited handlers before `execv`.

### Publisher

`out` is the directory, a generation or nothing per file; `pub[p]` is a call of
`publish`: the files it has still to back up, move, unlink or copy back (`todo`), its
backup, and what it found. `protocol` tells the dataset publisher, whose rollback
covers the promotion only, from the feature and detection publishers, whose handler
covers staging and backup as well. A move is a rename, staging and backup being made
beside the directory on its file system. A copy (`shutil.copy2`) is not: when it raises
half way it leaves a `Torn` file, in the backup (`LeftInBackup`), from where the
feature and detection handlers copy it over the intact original. Torn files are not told
apart. `CutOff` is a kill, a rollback that raises itself or an interrupt between two
steps; it may leave the file being copied back torn, and nothing in the code looks at a
backup again.

### Features

`phase` is the program point of `FeatureEngine.run` within a block of simultaneous
events: every row is emitted, then every event ingested, then entities released. A
buffer is its records and one aggregate per window, whose head moves on a read;
`queue` and `seen` are `_touch_queue` and `_last_seen`. The reference definitions
(`TrueWindow`, `TrueSequence`, `TrueWay`) read only the history `past`. One dimension,
one gap and the outcome of a record stand for all that is added and subtracted alike.
`geo` is `_geo`: a place stands for a country, a region and coordinates, so that a row
says where its distance begins and not how long it is. Sums of squares and categorical
baselines are not there.

### Detection

The behaviour of one anchor: a snapshot, the engine's verdicts, results on their way to
the scorer, the assessment. Each rule is an operator with the thresholds of its catalog
entry. Rates, strengths, weights and contributions are integers in thousandths, rounded
down, where the code has floats; `Coherent` says what the feature engine can report at
all: a window holds what a shorter one holds, only a failure sets the time of the last
one and lengthens a streak, only a success ends a burst, and a source's burst on an
account is kept apart from the account's own. Every snapshot a run looks at is assumed
coherent by name (`DetectionAssumption`). Any results may be handed to the scorer twice
(`repeated`, at most `MaxRepeated`), whatever they say. Its `stage`, `ScoringSpec` and a
few others bear names of their own because one module extends it and `Alerts` (section
5).

### Alerts

`open`, `closed` and `early` are the open alert of a key, the one last closed, and the
ones already on their way out; `window` is the start and the use of the key's limit;
`count` is `AlertingStats`. One action is one assessment consumed, whatever it does to
all of them. A score stands for the band and the severity cut from it, differences of
times are all that is compared, and an assessment without a scope value is refused or
merged as the policy says. `hidden` is history.

### DecisionAlerts

`ml/alerts.py` is a second implementation, which publishes no rule names for models.
`pass[s]` is its `_Pass` for a system `s`: `ranked` has a magnitude and a severity,
`scored` a magnitude, `bare` neither. A step of `Alerts` and one `_consume` of each pass
happen together, on an assessment and on the decision made of it. A decision has no
attack category, so the scope it is given stands for the rule pass's key; and what is
below the floor is not flagged. `Shown` is what a system can show of an alert.

### Study

One action per command of `ml/cli.py`; the state is what the commands publish under one
artifact root. A lineage is a built dataset; with the configuration it is trained under
it is the experiment of a run (`r.of`). A selection's scope is *its* configuration with
the dataset of the first candidate it lists (`Scope`), so one root may have several
champions, and every command names the one it is for. Assumed: one command at a time and
not interrupted (that is `Evidence`); configurations that differ in fitting, gates and
choice, but name one baseline family, one partition of validation, the same features and
dependency ranges; what a run measures is a function `grade` of the judging
configuration and the run, 0 where one of its own gates blocks. A hybrid's identity
(`Fusion`) is what its fingerprint covers: champion, settings, the evidence and not
where it was read. Identifiers in the ledger are digests, so any eligible category
selection may be the first in it. `--no-category`, the anomaly probe, explain and
compare are left out. `CatalogAssumption` is what the catalog says (the baseline is the
first binary candidate); `RunsAreOrdered` that finitely many runs can be listed and
ranked.

### OperatingPoint

No state: `ml/thresholds.py`, the gates of `ml/gates.py` that look at an operating point,
`ml/ranking.py` and the choice in `ml/fusion.py` as operators on samples. A sample is the
sequence of its distinct scores, ascending, with the rows that have each; a threshold is a
position in it. Rates are whole numbers of 1/2520 (`PartsAreExact` says every one over
five rows is exact), where the code has floats kept to nine digits; for larger samples
they are rounded down. A count adds the positions up and the search looks at one threshold
after the other, each a recursive function. `PoliciesAreValid` is what the configuration's
validators and the row schemas let through. `MCStudy` gives each
model a sample and each rule configuration its votes, and takes `Measurements` and `Wins`
from them; the theorems about `Study` hold for any. The gates on calibration and
serializer, and the probe's threshold, are not there.

## 3. The runs

| Run | Instance | What it shows |
|---|---|---|
| `replay` | 3 runs, 2 slots, 2 retained, 1 event, 1 caller | `Bounded`, `NoneUndriven`, `EvictsOldestFinished` |
| `replay_stop` | 2 runs, 1 slot, 2 callers, scenarios of 1 and 2 events, record limit 1 | `StopHonest`, `StoppedOnlyOnRequest`, `NoStepAfterStop`, the refinement `EachRunKeepsContract`, and `StopAnswered`, `ShutdownSettles`, `RunsEnd` |
| `replay_console` | 2 runs, 2 events, pages of 2 and of 1 | `ViewIsFaithful`, `LastPageIsLast`, `ViewCatchesUp` |
| `ledger` | 2 appenders, 1 reader, 2 identifiers, 2 bodies, kills and failed writes | `AppendHonest`, `ReadComplete`, the refinement `KeepsContract` |
| `evidence` | a run, one not fitted, the selection of the first; 2 bodies, 2 publishers killed before any step, reconciliation | `PublishedWhole`, `PublishHonest`, `EvidenceChain`, and `RecoveryIndexes` |
| `supervisor` | 3 children | `QuietMeansServing`, `NoneLeftBehind`, `StopEnds`, `FallEnds` |
| `publisher` | 3 tables and a manifest, 2 generations, 2 publishers in turn, both protocols, copies that break off | `ManifestLast`, `FailureRestores`, the refinement `KeepsContract` |
| `features` | 2 users, 1 source, windows of 1 and 2 ticks, 4 events in 5 ticks, up to 2 at once; successes at home or from nowhere, failures and challenges from abroad; no limit, and a limit of 1 | `RowsLookBack`, `EvictionOnlyForgets`, `HoldsTheRecent` |
| `detection` | 111 coherent snapshots on and around the thresholds, 3 policies, one result of any that comes twice | `ScoreIsSound`, `RulesKeepApart` |
| `alerts` | 4 assessments in 6 ticks, scores 0–4, 50 policies; the passes of 3 kinds of systems beside | `Accounted`, `NothingNewHidden`, `NoFlood`, `ComparedAlike` |
| `study` | 3 datasets (2 of one contract), 2 configurations, 2 models, 1 head; 3 selections, 2 predictions, 2 reports; for the operating point all 395 samples of up to 5 rows, 72 policies | `PointsAreBest`, `ChampionEarnedItsScope`, `OneBaseline`, `EvidenceFollowsTheLock` |
| `study_head` | as `study`, 4 selections | refutes `LocksLoad` (section 6) |

The type invariants of `Replay`, `Ledger`, `Evidence`, `Supervisor`, `Publisher` and `Alerts` are
proved (section 5), so no run spends its time on them.

Why these bounds are enough for what they are asked:

* Eviction in order of age needs two finished runs and one to admit: three runs and a
  store of two. Slots are contended by two active runs and a third.
* A stop races with at most another stop, the run's task and shutdown: two
  callers and one run at a time; the second run is there to be admitted into the slot
  that a stop frees. A pause between steps and the record limit each need a second
  event, none needs a third. The real numbers are 30 events at most and a record
  limit above that.
* The console's page is larger than any scenario (100 against 30), which the module
  assumes by name (`ConsoleAssumption`); the other client's page of one record
  makes it come back for more.
* A race for an identifier is between a winner and a loser, a torn contract between
  one initializer and one that takes its staging file over; the second identifier
  keeps histories from being trivial.
* In `evidence` the chain is one link: a publication looks only at what it is
  derived from, and reconciliation's order is exercised by the two runs. Freezes
  and evaluations, which differ in what they refuse, are left to the theorems
  of `Evidence_proofs` for the size of the instance.
* A rollback differs between first publication and overwrite, and between the
  manifest and the other files: two generations, and a table on either side of a
  failure or of a copy that broke off; the proofs take any number.
* In `features` two windows move their heads apart, five ticks let an entity expire and
  return, a compaction that drops records under a moved head is within reach,
  and simultaneous events need two. Only differences of times matter, so the first event
  is at tick 1 (`FirstAtOnce`). A place differs from none, from the same and from another
  one; a located success, one from nowhere and an event elsewhere tell them apart.
* In `alerts` the fourth assessment is the first that can find an alert kept `early`,
  one `closed` and a limit used up at once; the intervals come in every order.
* `detection` has each threshold met and missed by one, and some far exceeded, for the
  rules that can fire together, and an account that comes back after nothing, a success, a
  block or a failure. Rules that read other features combine freely. A second repeat adds
  to the count what the first did; the theorems take any number. Policies leave one or two
  rules out, which keeps the orders of arrival few; one leaves out only a rule the
  exclusion does not name.
* In `study` the second dataset shares the contract of the first and the third does
  not. Somebody trains 1 under the first configuration and 3 under the second, selects
  under either and scores any; the second configuration's gates refuse a model the first
  one's pass, so that two scopes of one dataset can have different champions. Two
  predictions are a TEST split and the scores of a hybrid. `MaxReports` bounds evaluations
  and the capture of the profile together, which do not touch each other: two evaluations
  can disagree. Once three selections are there no more are made: both tasks before and
  after a retraining, or under both configurations.
* `PointsAreBest` is about data and not about a behaviour: five rows give up to five
  distinct scores, which grids of two and three thin out, ties in every measure, and
  ceilings a single benign row does and does not exceed. It says that a thinned search
  never finds nothing where there is something, that the one pass finds the best of what
  it looks at, that gates no stricter than the search accept its point, and that with
  equal limits a model they refuse had no point within them.
* Three children is what the deployment has; the proofs take any number.

Deadlock is not checked (`CHECK_DEADLOCK FALSE`) where the modelled programs end: the
replay application is down, the container has exited, the feature, alert and detection
passes have consumed their input, a study has used up its bounds. The ledger,
evidence and publisher runs check it.

`SYMMETRY` is used only where the properties are safety properties.

## 4. Fairness

* `Replay!LoopFairness`: asyncio runs ready coroutines and expired timers. Nothing is
  assumed of clients or of the detector; `StopAnswered` and `ShutdownSettles` hold
  with a detector that never answers. Only `RunsEnd` has a premise that detections
  return (`DetectorFairness`), because a thread cannot be cancelled.
* `ReplayConsole!ConsoleFairness`: Streamlit's `run_every` brings the fragment round,
  a script runs to its end. Nobody has to press anything, and no request need
  succeed; `ViewCatchesUp` says "if none fails" itself.
* A stop call may be cut off by the server (`StopInterrupted`): uvicorn is started
  with `--timeout-graceful-shutdown 20`.
* `Evidence!LiveSpec`: a reconciliation that has begun goes on, and the operator
  runs `ml experiments --reconcile` again. It is strong fairness because a walk is
  enabled only between walks. Only runs' reconciliation has a command; the others
  are library functions and get no fairness. Nothing is assumed of publishers.
* `Supervisor!Fairness`: the kernel schedules the supervisor, its clock advances,
  and a forked child reaches its `execv`. No child is assumed to serve, to heed a
  signal or to end.

One timing assumption is made explicitly: in `Supervisor!Expires` the 25 second
grace period does not end while a child is still between `fork` and `execv`.

## 5. What is proved

All theorems are for any values of the constants that satisfy the named assumptions
(`LimitsAssumption`, `ConsoleAssumption`, `ValuesAssumption`, `SupervisorAssumption`,
`ChainAssumption`, `PublisherAssumption`, `FeaturesAssumption`, `AlertsAssumption`,
`DetectionAssumption`, `CatalogAssumption`, `RunsAreOrdered`, `PoliciesAreValid`), which
are what the code's own validation enforces or what the model's values need. So there
may be any number of events, entities, windows, assessments, bands or snapshots, where a
run has a few.

Sums, means and folds are recursive functions over sequences here. What they compute is
shown without an induction scheme, which would take an operator: were it wrong at some
index, it would be wrong at a least one (`LeastNatural`), and it is right
there because it is right just before.

**`Replay_proofs`.** `TypeCorrect`; `Invariant`; `NoRunUndriven`, `StopsAreHonest`,
`LimitsHold` (`Bounded`), `StopsAreAskedFor` (`StoppedOnlyOnRequest`), and the action
properties `EvictionsMakeRoom` (`EvictsOldestFinished`) and `StopEndsTheSteps`
(`NoStepAfterStop`); `ContractKept`. The inductive invariant adds to the properties
that no run is ever seen `created` (creation and start are one stretch of code),
`Positions` (a going run's task is at the event its timeline says, and
the scenario is not exhausted), and `CallsKnown` (a stop call is about a run that was
created once, so its identifier is never minted again). `StopHonest` alone is not
inductive: without `NoCreated`, `CallsKnown` and the type of a call, a step could
start from a state in which the answered run is about to be created afresh.
Every step of a task is first described by lemmas as leaving, suspending or quitting,
so that each invariant is proved per shape instead of per branch. `ContractKept` is
the refinement of `ReplayContract` by every run. `StoppedOnlyOnRequest` looks at runs that
have ended, but what makes it true is what was owed to them before (`Owed`): while a run
goes on and the service does, its event is set only with the flag that a request leaves, so
a task that sees the event settles its run on a request's behalf; and no task takes a
step once shutdown has begun (`TasksQuiet`).

The same module has the console: `ConsoleInvariant`, `ViewsAreFaithful` (`ViewIsFaithful`)
and `LastPagesAreLast` (`LastPageIsLast`), for any page sizes and any number of other
clients. Every timeline counts from 1 (`InOrder`), so a page is a stretch of numbers, and
whoever appends a page to a beginning of a timeline, at its end, has a longer beginning.
What the page remembers of a run is allowed to be old: `SessionInv` says that it is never
ahead of the store, never of another run, and that a final state it has seen stays.

**`Ledger_proofs`.** `TypeCorrect` for any faults; `AppendsAreHonest`, `OneWriter`,
`HistoriesAreComplete`, `ImplementsRegister` under the premise that no `fsync` fails
after the bytes are visible (`Kept`), because the code then unlinks a file another
process may have compared with. The inductive invariant adds `Holds` (the writer's
file is torn until it has written and its body afterwards) and `ReadsStay` (what a
pass has read is still there).

**`Evidence_proofs`.** `TypeCorrect`, `ChainUnbroken` (`EvidenceChain`),
`NothingHalfPublished` (`PublishedWhole`), `PublishersAreHonest` (`PublishHonest`), for
any artifacts, derivation and publishers. `Lasting` is the lemma all of them use: a
published directory never changes, the ledger only grows, so what was usable stays
usable. `Chain` extends `EvidenceChain` to what is only staged, to what a publisher has
begun and to what a reconciliation holds, because each of these may be published or
indexed later without the derivation being looked at again; it needs no premise. The
other two rest on a staging directory being its publisher's own (`Apart`,
`StagedByOne`), hence on `Exclusive`; `Honest` adds what a publisher past the rename
already knows.

**`Supervisor_proofs`.** `TypeCorrect`, `Invariant`, `SleepsOnlyWhileServing`
(`QuietMeansServing`), `NobodyLeftBehind` (`NoneLeftBehind`), for any number of
children. Three strengthenings: `InTurn` (children are started in order, each after
the one before has served), `NothingMissed` (an uncollected death or an unseen stop
has its byte in the pipe unless the program is between its drain and its look), and
`Accounted` (at each point of `shutdown()`, which children are ended or killed).

**`Publisher_proofs`.** `TypeCorrect` needs no premise; `ManifestVouches`
(`ManifestLast`), `FailuresRestore` (`FailureRestores`) and `ContractKept` (the refinement of
`PublisherContract`) assume publishers that take turns (`Exclusive`). The invariant
says at each program point which files are the new generation, which are as they were
found, and that the backup and the files left together give back what was found, but for
one file of a feature or detection set whose copy into the backup broke off; with
the manifest last in every loop, a directory nobody overwrote never holds a
manifest beside an incomplete set.

**`Features_proofs`.** `RecentAreHeld` (`HoldsTheRecent`), `RowsAreTrue`
(`RowsLookBack`), `OnlyForgets` (`EvictionOnlyForgets`), for any events, places, windows and
limit, and any number of blocks of any size; under them the inductive invariants
`EntitiesHeld`, `BuffersTell` and `RowsFollow`.

* `Held` is about who is held. The queue has the touches of all but the first events, three
  to an event (`Queued`), and an entity is seen with its last touch, which is still queued.
  An entity that is not seen is too old for every window or was crowded out: as many
  others of its kind as the limit were touched after it (`Ranked`). A block
  releases entities one by one, so `Ranked` names the event up to which the release has
  got.
* `Telling` is about the buffers. A buffer lists its entity's events after some point of the
  history, and an increasing map takes each record to its event (`Lists`). Each window holds
  the aggregates of the records after its head, and what is before the head is too old for
  it (`Sums`). Sliding a head, adding a record and taking the head back by compaction each
  keep that: the aggregates of a set of events with one more, or without the oldest, are
  computed once (`Added`, `Removed`), for counts, failures, gaps, spans and dimensions. Without
  a limit the events no buffer has any more are too old for every window (`Forgets`).
* `Tracking`, `Placed` and `Rows` say of sequence states, places and rows what they are in
  terms of the history. The last part compares those with the reference definitions, which
  are folds over the history: equal without a limit, and from fewer events no more.

**`Alerts_proofs`** has `Alerts`, `DecisionAlerts` and `Detection`.

`Alerts`: `Invariant`, `TypeCorrect` (no result is ever refused by its own accounting),
`OnlyOldNewsIsHidden` (`NothingNewHidden`), `OrderedAlerts`, `NoFloodOfAlerts` (`NoFlood`),
`NothingUnaccounted` (`Accounted`), for any findings, policies, bands and streams.
`NothingNewHidden` is not inductive: an open alert changes after something was hidden
under its key. The strengthening `HiddenTold` says that what tells a hidden assessment
is an alert already closed, which only counts what it suppresses from then on; it rests
on `KeysRight` (an alert knows its key and is never newer than the pass).
`NoFlood` needs the order of all alerts of a key, those emitted early included (`InOrder`:
each apart from the next), what the limit's window has counted (`Windowed`: no more
than the alerts that began in it, each a grouping window after another) and that what the
limit refused came when it was used up, for ever (`LimitUsed`). For `Accounted` the
tallies are numbers of units of the emitted alerts (`Counted`), each step moving one unit;
that the sum the property asks for is the number of the units is the counting argument of
the section *Totals*.

`DecisionAlerts`: `PhaseFourSemantics` (`ComparedAlike`) and `ComparisonWatches`
(what is shown of `Alerts` carries over). The two
passes judge news differently: one from severity and score, the other from whichever it
has. They agree because an alert is always as severe as its highest score (`Levels`, the
strengthening) and severity never falls with the score (`SeverityMonotone`). Without a
magnitude nothing is ever news, so a `bare` system gets the same alerts only under a
policy without the bypass, and the property says so.

`Detection`: `ScoringInvariant`, `RulesAreApart` (`RulesKeepApart`) and `ScoresAreSound`
(`ScoreIsSound`), for any coherent snapshots, reducers, sets of enabled rules and repeated
results. Each rule
says not fired, unknown, or fired with a strength between the floor and one
(`EvaluatedSays`), because what a weighted mean averages stays within its bounds. That the
distributed rule excludes the three others follows from the thresholds and `Coherent`
(`RulesApart`): who sees many sources on one account sees few attempts of this source and
few accounts. The invariant says that what the scorer has kept are the strengths of the
results that came, whatever came twice, that every fired rule is kept or still to come
(`Gathered`), and that a rule that could not say is counted as often as it has come
(`Heard`). Then a score is a function of what is kept: zero exactly for nothing, at
most the whole, lower for fewer (`FewerScoreLess`: smaller parts leave more,
`RemainingFacts`), and under `max` that of the best of each group (`BestScore`); and the ranking
has a first (`PrimaryIsOne`).

**`Study_proofs`.** `ChampionsShareTheBaseline` (`OneBaseline`), `ChampionsEarnTheirScope`
(`ChampionEarnedItsScope`) and `EvidenceOfTheChampion` (`EvidenceFollowsTheLock`), for any
configurations, datasets, candidates and grades, in any order of commands. The argument:
train fits the baseline first, so an experiment that has any run has its baseline
(`BaselineFirst`); a selection is eligible only while there is exactly one baseline, and
runs are never removed, so all eligible binary selections there will ever be, under
whichever configuration, were measured against one baseline (`OneReference`), each in the
scope of that dataset (`Stands`). The evidence rests on it in one place: an evaluation
never asks whose scores the hybrid was chosen on, and what can be said of them is that
their champion beat the same baseline.

`PointsJustified` (`PointsAreBest`) is about the arithmetic, for any samples, policies and
grids; it needs no invariant of the workflow. A recursive function over positions exists
(`RecursionExists`), so `Count` and `BestPoint` are what their equations say (`CountIs`,
`SearchIs`). Counts, and with them the rates, fall as the threshold rises (`CountsFall`,
`PointsFall`); an evenly spaced choice stays within the positions and keeps both ends
(`SpacedIsWithin`); so if any threshold is feasible the lowest or the highest is, and the
grid hides nothing. After each threshold the search has the best of the feasible ones so
far and the tie the policy asks for (`BestSoFar`, `SearchStep`), and the gates compare
what it ends with. The argument uses only that rates keep the order of counts, not that
they are exact, so any rounding that keeps the order would do.

Only model-checked: liveness under fairness (`StopAnswered`, `ShutdownSettles`,
`RunsEnd`, `ViewCatchesUp`, `RecoveryIndexes`, `StopEnds`, `FallEnds`), which the
prover does not reach, nor `ENABLED`. Every safety invariant and action property that a
passing run checks is proved.

## 6. Where code and documentation disagree

`study_head` is a run that must find a violation, and a finding in `PROJECT.json`:
`LocksLoad`. Freeze takes the eligible category selection that comes first in the
ledger and compares it with nothing, so after a retraining on a dataset of another
feature contract the lock may bind a head `FrozenChampion.load` refuses; a lock is
never rewritten, so that root has no usable champion any more.

The others are definitions of the modules that no run keeps. Each is refuted by
TLC when it takes the place of the properties of the configuration named here
(`PollingEnds` and `LeavesItAsItWas` under PROPERTY, the rest as INVARIANT; `TiesCostNothing` looks at no
state, and TLC says it is equal to FALSE).

| Definition | Configuration | The sentence | What happens |
|---|---|---|---|
| `DetectionsBounded` | `MCReplayStop` | `replay/store.py:67-69`, "the number that bounds CPU" | a stop that times out frees the slot while its detection still runs in a thread |
| `PollingEnds` | `MCReplayConsole` | `dashboard/views/replay.py:15`, "Polling is bounded and it ends" | after a restart the session still says active, every poll fails, and it polls for ever |
| `NeverHalfAppended` | `MCLedger` | `ml/ledger.py:12-14`, a record "cannot be half-appended" | a kill between creation and write leaves a torn file every later history refuses |
| `LedgerBacked` | `MCEvidence` | `docs/experiment-ledger.md:384-386`, the ledger never asserts a run that does not exist | reconciliation indexes receipts it finds in staging siblings |
| `StopsInOrder` | `MCSupervisor` | `docs/render-deployment.md:393-395`, the proxy stops before the console goes away | the signals are sent in that order and nothing waits in between |
| `ManifestMeansComplete` | `MCPublisher` | `features/serialization.py:16`, the manifest's "presence always signals a coherent dataset" | a kill during an overwrite leaves the old manifest beside new tables |
| `BruteForceRulesExclude` | `MCDetection` | `detection/rules/brute_force.py:10-12`, the two rules exclude each other on any anchor | both fire on a success after failures that also fill the concentrated rule's windows |
| `TiesCostNothing` | `MCStudy` | `ml/config.py:573-574`, of tied thresholds the lower one "detects at least as much, and the tie means it costs no more" (also `docs/model-contract.md`, Objectives) | with the default objective a tie is one of detection: the lower threshold may flag more benign rows, and the ranking of champions then counts them against the model |
| `LeavesItAsItWas` | `MCPublisher` | `detection/serialization.py:795-801`, "a failure leaves the directory as it was", a failed overwrite restoring everything "byte for byte" | a copy into the backup that raises half way leaves a torn file there, and the handler copies it over the intact original (lines 863-864, 877-882; also `features/serialization.py`) |
| `UnknownCountedOnce` | `MCDetection` | `detection/scoring.py:185-188`, a repeated rule is collapsed, so that concatenated batches "get a stable answer" | `_collect` counts every `insufficient_data` result, a repeated one twice (lines 285-287) |
| `HybridOfItsChampion` | `MCStudy` | `ml/test_evaluation.py:656-657`, a selection made against a different champion is refused | `_fusion_selection` (`ml/cli.py:2236-2309`) asks a publication for its split and rows only, and stamps the selection with the champion at hand, so that the scores may be another's |
| `BaselinePerScope` | `MCStudy` | `docs/champion-selection.md:399-400`, a different experiment "is a different scope and gets its own champion"; `ml/selection.py:456-458` speaks of two baselines in one scope | the comparator is looked for among all runs of the root: once a second experiment has its baseline, no selection under that root finds one |
| `FusionFixedFirst` | `MCStudy` | `docs/test-evaluation.md:5-10`, the hybrid was fixed before TEST is opened | each evaluate command chooses it anew; two evaluations of one champion and test set disagree, and no bundle is made of that champion any more |

Consequences worth knowing that contradict no sentence, seen while modelling:

* Several champions under one root are those of one experiment, chosen by different gates:
  `OneBaseline` is kept by the baseline having to be the only one
  (`docs/champion-selection.md:93`).
* With the defaults of `AlertingConfig` the alert limit never suppresses anything:
  `NoFlood` says it cannot when `limit * grouping_window >= alert_limit_window`. Where
  it does bite it may hide material risk, which the cooldown never does.
* The limit on tracked entities bounds the windows and the sequence states, not where
  users last succeeded: `_geo` keeps every user, which is why what a row says of the
  previous success is right under any limit (`RowsLookBack`).
* With the escalation bypass, which is the default, a compared system without magnitudes
  gets other alerts than the rule pass makes of the same flags, although "the temporal
  semantics are Phase 4's, exactly" (`ml/alerts.py:22-30`); lines 576-580 say so
  themselves.
* A publication is evaluated against any dataset of the same contract in
  which the scored rows are TEST; a dataset rebuilt with other splits can have
  rows there that the champion was trained on.

## 7. What is not modelled

* Data: floats, estimators, calibration and its gate, confidence intervals, schemas,
  layout, log wording.
* A power failure that loses a directory entry that was not synced.
* Concurrent publishers of one artifact or directory: `Exclusive` is TRUE in every
  run, since with FALSE `PublishedWhole`, `ManifestLast` and `FailureRestores` do not hold.
  `ChainUnbroken` is proved for any number of publishers.
* An `fsync` that fails after the bytes are visible: in `Ledger` (`"sync" \in Faults`),
  in no run, for the reason given in section 5.
* A contract file left torn by a kill in the middle of two racing initializers is a
  behaviour of `Ledger`; no property forbids it, records being unaffected.
* Of the ML workflow, commands that overlap (the staging directory of predictions two
  champions can share, the reference profile checked and then written), and
  configurations that differ in the baseline family, the partition of validation, the
  features or the dependency ranges.
* Of the feature engine, per-user baselines, calendar features, distances and velocities,
  splitting and the leakage audit.
* Of the supervisor, what the three refusals look at, and grandchildren beyond the
  fact that their deaths wake it.
* The components without a module in `PROJECT.json`, for the reasons given there.

## 8. The plan

Done, in this order: `Replay` with its contract, console and proofs; `Ledger` with its
contract and proofs; `Evidence` with proofs; `Supervisor` with proofs; `Publisher` with
its contract and proofs; `Features`, `Alerts`, `DecisionAlerts`, `Detection` and `Study`,
each with proofs; `OperatingPoint` with `Grading` and proofs.

Next:

1. `Features`: the per-user baselines, against the same history.
2. `Serving`: building the runtime, readiness and the verification of a bundle at
   start-up, composed with `Study` and `Supervisor`.
3. Predictions and the reference profile by file-system step, with two champions at
   work, in the manner of `Evidence`.
4. `OperatingPoint`: the abstention point and the choice of a hybrid, by the argument
   that `PointsJustified` rests on.
