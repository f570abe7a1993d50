# Patron Walkaway: models, checks and proofs

The product (`src/trainer_hightier`) predicts, while casino patrons play, who is
about to walk away, and tells the hosts. A *scorer* daemon polls a ClickHouse bet
warehouse, scores each new bet, and writes alerts; a *validator* daemon judges
each alert and each prediction once the patron's later bets are known; deploy
processes keep the online feature store fresh; and an offline pipeline, with
caches, builds the labels and the alert threshold the daemons work with. This
directory holds TLA+ models of these parts, the TLC runs that check them on small
instances, and TLAPS proofs of their main properties for every instance.

Contents: [1 inventory](#1-inventory), [2 modules](#2-modules-and-how-they-correspond-to-the-code),
[3 runs](#3-runs), [4 fairness](#4-fairness), [5 proofs](#5-proofs),
[6 disagreements found](#6-disagreements-between-code-and-documents),
[7 not modelled](#7-what-is-not-modelled-and-why), [8 what is left](#8-what-is-left),
[9 running it](#9-running-it).

## 1. Inventory

Paths are under `src/trainer_hightier/` unless they begin with `src/`.

### Components that keep state between steps

| component | state | operations | what makes it correct |
|---|---|---|---|
| **scorer daemon** `serving/scorer.py`, `state_db.py`, `prediction_log.py` | `state.db`: ETL watermark (`meta`), `alerts`; `prediction_log.db`: one row per scored or skipped bet; nothing in memory between cycles but configuration | `score_once` every 30 s, at once after a full batch: allowlist probe, fetch above the watermark, Feast lookup with entity-missing policy, score, cooldown suppression, log, commit | a patron is not alerted twice within 15 min; nobody is muted by an alert that was never delivered; no ingest is scored twice; the watermark passes nothing unscored |
| **player-game ready queue** `serving/player_game_ready_queue.py` (called by `score_once`) | `player_game_pending`, `player_game_completed` in `state.db`, written on the scorer's connection and committed by it | upsert pending, list due, refetch, defer or complete | a game is scored only after its holdback and with every visible bet; it goes forward only; none is forgotten |
| **player-game shadow scorer** `serving/player_game_shadow_scorer.py` | `pg_shadow_scores` in the same transaction | list completed games without a score, fetch each again, attach features, insert | a score is of a completed game as it was completed, on its representative bet |
| **player alert policy** `evaluation/player_alert_policy.py`, `alert_band_objective.py` | in the scorer the `alerts` table; offline nothing | one representative per patron outside the cooldown, batch by batch; the same replayed over a split; bisection of the threshold for a wanted number of alerts | the replay on which the threshold was chosen says what the scorer will do |
| **validator daemon, alert phase** `serving/validator.py` | `validation_results`, `processed_alerts`, a rowid watermark in `validator_runtime_meta`; in the process: rows cache, payouts recovered by bet id, rotation offset | each minute: read marks and rows, fetch bets, judge, retry rows without bets, save all rows, mark finished alerts | verdicts rest on what the warehouse held; a finished alert has a verdict and keeps it; every alert is finished |
| **validator daemon, prediction phase** (same file, `prediction_log.py`) | `prediction_validation_results`, `processed_predictions` in `prediction_log.db`; in the process: payouts recovered by bet id | the same judgement over `prediction_log` rows, oldest first up to a limit, within what is left of a time budget; retention | every prediction is finished; no row blocks the others; what expires does not come back |
| **deploy supervisor** `deploy/main.py` | Feast refresh lock file, child threads | start-up refresh (plain, forced, skipped), background refresh, readiness gate of the daemons | one refresh at a time; a stop of scoring ends |
| **Feast online refresh and readiness** `serving/feast_online_refresh.py`, `feast_readiness.py`, `snapshot_freshness.py`, `utils/slow_month_turn.py` | registry and online store, readiness JSON | compute layers, apply (with reset), materialise, smoke, publish; freshness of the daily and the monthly layer | readiness describes what is online and never goes back |
| **training caches** `utils/bet_l0_preprocess.py`, `entity_set_v1.py`, `labels_cache_v1.py`, `source_manifest_v2.py`, in the order of `trainer.py` | cleaned bets, entity set, labels, each with its manifest, all at fixed paths | hash the exports, use again or rebuild each, write manifests | a reused artefact equals a rebuilt one; what a killed run leaves is not used |
| **walkaway labels** `walkaway_compute_labels.py`, `utils/walkaway_labels.py` | label files, whole or by month | label each bet of an export | a label that is settled is true, and the validator's verdict means the same |

### Components without a protocol

API server (read-only HTTP views), Feast online adapter (online-store client;
its entity-missing policy and schema reset are part of other models), feature
builders and supply (pure data frames), flight recorder (diagnostic files nobody
reads back), ClickHouse and allowlist adapters (I/O), snapshot updater and
manifest (superseded: `main()` does not start its supervisor any more), the rest
of the training and evaluation pipeline and of L0 preprocessing (numerical batch,
SQL over parquet), package builder and audits (command-line tools), baseline
models and feature experiments (research scripts). `PROJECT.json` lists each
with its files.

### How they interact

```
 exports --> cleaned bets --> entity set --> labels --> training --> threshold
                                                                       |
 warehouse (ClickHouse, external) --bets--> scorer <------ bundle -----+
        |                                    |  ready queue, shadow scorer
        |                                    |  (same transaction)
        |                                    +--> prediction_log.db <--+
        |                                    v                         |
        |                                 state.db: watermark, alerts, |
        |                                    |      pending, completed,|
        |                                    |      shadow scores      |
        +--bets--> validator <---alerts------+                         |
                     | alert phase --> validation_results, processed_alerts
                     | prediction phase -------------------------------+
 deploy processes --> Feast refresh --> online store, readiness --> scorer
```

### Which behaviours are hard

* **Two databases, two commits.** The prediction log commits before `state.db`
  (`scorer.py:1602`); results before marks (`validator.py:2488`). A process
  death falls between them.
* **Swallowed exceptions.** The queue cycle, the shadow scorer, the log write, the
  validator's reads, its warehouse retries and its whole second phase are logged
  and skipped; what was written before them stays in an open transaction.
* **Strict cursors over an eventually consistent source.** Bets arrive late, are
  re-ingested under a new ETL stamp, move to another player id; availability is
  judged on the payout time and the cursor on the stamp.
* **Clocks.** Poll, holdback, horizon, look-ahead, extended wait, finality,
  retention and two look-back windows meet at their boundaries, the host's date
  and the gaming day differ, and time runs while a cycle does.
* **State kept over a failed cycle.** The validator's caches and rowid watermark
  outlive it, and each cycle saves all rows again.
* **Bounded work per cycle.** One batch limit, one retry limit with a rotation, one
  limit of predictions, one time budget.
* **Files replaced in place.** Exports, artefacts, manifests and the readiness
  document lie at fixed paths that several processes or runs write.
* **The same rule twice.** Cooldown and label are computed online on one set of
  rows and offline on another.

`PROJECT.json` lists the hazards one by one, each at its line, with the
properties that watch it or the reason why none does.

## 2. Modules and how they correspond to the code

| module | models | refines |
|---|---|---|
| `Scorer` | one scorer process against warehouse, `state.db`, `prediction_log.db` | `AlertLedger` |
| `AlertLedger` | the promise to the hosts: delivered alerts, a cooldown apart, never taken back | |
| `ReadyQueue` | the queue inside the scorer's open transaction | `GameLifecycle` |
| `GameLifecycle` | unseen, pending, completed; nothing behind the cursor is forgotten | |
| `ShadowScores` | queue and shadow scorer composed (extends `ReadyQueue`) | `ReadyQueue` |
| `AlertPolicy` | suppression in the scorer, its offline replay, the threshold search | |
| `WalkawayRules` | the judgement of one bet, shared by the next modules | |
| `Validator` | the alert phase of one validator process | `VerdictBook` |
| `VerdictBook` | an alert is closed on a MATCH or MISS and that verdict stays | |
| `PredictionPhase` | the prediction phase of one validator process | `PredictionBook` |
| `PredictionBook` | the same with verdicts and marks that expire | |
| `WalkawayLabels` | labels of an export, whole and by month | |
| `FeastRefresh` | deploy processes, the lock, the refresh and its documents | `FeastPublication` |
| `FeastPublication` | what is announced is online, and never older than before | |
| `TrainingCaches` | cached steps of training runs | |
| `...Proofs` | theorems and proofs: `Scorer`, `ShadowScores` (with the queue), `AlertPolicy`, `Validator`, `PredictionPhase`, `WalkawayLabels`, `FeastRefresh`, `TrainingCaches` | |
| `MC...` | values of the constants for TLC | |

`map` in `PROJECT.json` gives the source lines of every definition.

### Scorer

The bet rows, with payout time and ETL stamp, are the external warehouse:
`Ingest` and `Reingest` (the queries read with `FINAL`, so a replaced row has
only its newest stamp). The process is a program counter: `down`, `idle`,
`fetch`, `attach`, `decide`, `commit`. One pass of `score_once` is

* `Probe`, only with `high_adt_only`: the largest cursor of the global top-K;
* `Fetch`, or `FetchNothing`, which moves the watermark to the probed value;
* `Attach(skipped, logged)`: rows without Feast entity are audited and dropped;
  `AttachFails` when their fraction is too high (the exception leaves `main`);
  `AttachNothing` when all were dropped;
* `Decide(C, R, logged)`: `C` are the player-games at or above the threshold
  (scores are any), `R` one representative per patron outside the cooldown;
  all scored rows go to the prediction log, whose failure is swallowed;
* `Commit`: alerts and watermark in one transaction.

`Crash` may come between any two of them and loses the in-memory cycle and the
open transaction. An alert's `ts` is the scoring time of its cycle. `scoreCount`,
`sent` and `muted` are history variables; nothing reads them.

Abstractions: time and stamps are integers; alert and log rows keep what others
rely on; a score is which rows pass the threshold. A bet whose ETL stamp is NULL
takes another cursor in the code and is left out.

### ReadyQueue

The scorer's cycle is cut down to `Fetch` (new bets, or nothing happens at all),
`Commit` and `Abort`; the queue cycle between them has one action per step of
its loops: `BeginQueue` reads the clock, `SkipCompleted`/`Enqueue` take the
touched games, `ListDue` reads the due rows, `RefetchEmpty`/`Defer`/`Complete`
take those, `EndQueue` leaves, `QueueFails` is the swallowed exception.
`pending` and `completed` are the tables as the connection sees them, `saved`
as committed; `Abort` makes them equal again. `Commit` takes the watermark to
any row of the batch, because rows without entities do not move it. `seen` in a
row is history (the bets of the batch that inserted it).

`ZoneSkew` is how far the text of `now` reads ahead of the stored UTC text in
the SQL comparison `due_ts <= ?`: 0 when `now` is in UTC, as every test passes
it; 8 hours in the production default. Left out: the metrics row of a cycle, and
the row limit of the refetch (2000 bets of one patron).

### ShadowScores

The pass begins after the queue has ended or raised, in the same transaction: it
lists the completed games without a score, fetches each once more, looks for the
bet the completed row names (`RepresentativeRow`: when it has left the look-back,
the last row of the fetch is scored under the recorded id), drops games without
Feast entity unless too many are missing, and inserts. An exception is swallowed
and leaves what was inserted; `Commit` and `Abort` of the queue take the scores
with them. Left out: the gate report and the comparison with the alerts, which
only read, and a missing bundle.

### AlertPolicy

A candidate is a player-game with a score, an owner and the payout time of its
representative. `ScoreBatch` is the policy step of a scorer cycle, at the time of
scoring; `Simulated` is the offline pass over all candidates in payout order; each
is the one set of candidates that agrees with every decision of its loop. `Search`
gives the points of the bisection over the alert counts, from `SearchStart` on,
`Picked` its result, with `Better` the comparison by which the best point is kept;
`Rounds` is 48 in the code. Scores are multiples of `Scale`, so that there are
thresholds between two scores; the code's margin of 1e-9 is two grid units. Scoring
lag is at most `MaxLag < Cooldown`, which is an assumption on the environment: with
a lag of a cooldown or more, replay and scorer are unrelated. Left out: precision
and recall, a player-game split over two batches, `suppression_enabled` off.

### WalkawayRules, Validator

`Verdict` is `validate_alert_row` with its order of tests, in `WalkawayRules`. A
cycle of the alert phase is `Begin` (marks, incremental row load, due alerts;
early return when none is due), `Fetch` (window between the look-back floor and the oldest
alert's pre-context), `Judge` (refill of marked alerts without a row, second
judgement of PENDING rows, then the due alerts), `Retry` (a rotated slice of the
rows without bets, per-player windows and bet-id recovery), `Save` (all rows,
one commit), `Mark` (marks, another commit). `Raise` ends a cycle through an
exception and keeps the process' caches; `Crash` loses them. Swallowed reads are
`ReadMarks` and `Loads`; swallowed warehouse queries are the parameters of
`Retry`. `StoredRow` and `Final` are `_apply_pending_validation_result`. `asof`,
in a row, is history: when the bets it rests on were fetched.

A bet of `Placeholder` is `Hidden`: all queries, by player and by bet id, ask for a
payout, a positive wager and a player that is neither NULL nor the placeholder
(`validator.py:555-559`, `:625-632`). `Drift` moves a bet to another player, makes it
hidden or brings it back. An alert whose bet is hidden, on a player without other
bets, stays without bets and competes for the retries (`NextOffset` rotates them).

A unit of time is a quarter of an hour, which gives the configured policy in
whole numbers: horizon 1 (15 min), gap 2, look-ahead 3, extended wait 1, finality
4, pre-context 1; the freshness buffer of 2 min is below a unit and is 0. The
real look-back (180 min = 12 units) and retry window (240 min) appear as 5 and 8,
the smallest values of the same order, so that the windows cut something off
within the modelled time. `WindowAssumption` holds in the configuration; the
code itself raises a shorter look-back (`validator.py:2208`).

### PredictionPhase

`Begin` prunes by retention, takes the oldest unmarked predictions up to the
limit, and their saved rows (a read that may fail), in one step: nothing else
touches the tables between them. `left` is the bet cache as the alert phase leaves it: any
fetch of any players made in this cycle, since that phase has its own queries.
The phase extends it for every player of its batch, judges, retries rows without bets until
the budget ends, recovers by bet id, saves and marks in two commits. Every exception
only ends the phase, as the end of the budget does, which counts as a failure;
`Crash` also loses the recovered payouts. Bets may be `Hidden` as in `Validator`; here
the oldest rows always come first, so as many of them as there are places hold the
others up (`HeldUp`; section 6, item 12). With
the look-ahead equal to gap plus horizon, as `config.py:241` and `:1301` make it,
a verdict is never PENDING here, because a due prediction's gap lies inside its
look-ahead (theorem `NoPendingVerdict`); so no stored PENDING row is judged again. Left out: a bet logged
twice, the backfill of `bet_ts` with its dead rows, `force_finalize`, the session
cache.

### WalkawayLabels

Bets are settled in payout order; an export ends at its last payout. A label is
`compute_labels` on the export (the next bet of the player is a gap away, and the
gap begins within the horizon), `Shard` the same on the bets of a month and the
extension behind it. `SettledLabelIsTrue` compares labels with all bets there will
ever be; `VerdictMeetsLabel` with the validator's last word under the shared
rules. Left out: the `censored` column, rows without keys, `window_end`.

### FeastRefresh

A process is a program counter: it starts in one of three modes, takes the lock
file or gives up, prepares (a plan with or without bootstrap from the seed),
computes its layers, applies the registry after a reset of the store when it
bootstraps, materialises, smoke-tests, publishes the readiness document, releases,
checks, and then polls. Layers are `mid` (daily) and `slow` (monthly); an anchor
is the newest gaming day a layer's features include. The exports and artefacts of
both layers are one step, `Compute`, which keeps their anchors in the job (`got`);
`Merged` puts those into the document in place of the old ones. A process may fail
or die in any step; a scoring cycle that the readiness gate stops ends the process
too and counts as its death. `HostLag` is how far the host's date is behind the
Hong Kong date. Left out: exports without rows, the copy of readiness in
`state.db` (audit only), threads other than the refresh supervisor's, the
command-line refresh, which takes no lock.

### TrainingCaches

A run is a program counter over the steps of `prepare_training_frame`. Exports are
versions: `Replace` brings new ones, also while a run reads the directory they come
to; `OtherSnapshot`, between runs, is `--partition-snapshot-dir` with another
directory, or a backup put back, so that exports which earlier manifests describe
come back. A version stands for content, paths, sizes and modification times. Each
build of the base has a number that stands for its files' names, sizes and
modification times in the fingerprints. Base files are staged bucket by bucket in a
temporary directory, which goes with the run, and moved one by one; partial copies
are readable; a manifest is written after its artefact. `Stop` may come between any
two steps; a null gate that fails after the moves is one of them. `settled` is
history: the last run that ended well, while no run has read other exports.
`orphaned` is history: the base that the sidecar describes has been removed and
nothing was written over the sidecar (`bet_l0_preprocess.py:846-850`).
Left out: session, rank, universe and data-quality caches, reuse of label shards,
invalidation by month, escalation of the bucket count, and exports put back *while* a
run reads them (what comes then is new).

## 3. Runs

All runs cut the state space only by named bounds (`MaxTime`, `MaxVersions`,
`MaxFailures`, `MaxFaults`, `MaxStops`, ...). They say `CHECK_DEADLOCK FALSE`
because a bounded clock and warehouse do stop.

| run | instance | checks |
|---|---|---|
| `scorer_safety` | 2 bets of one patron in two games, each ingested up to twice, a crash, log failures, look-back 2, cooldown 2 (2.8 M states) | `CooldownSpacing`, `MutedOnlyAfterDelivery`, `ScoredOncePerIngest`, `WatermarkMonotone`, `ImplementsLedger` |
| `scorer_fair` | 3 bets, 2 patrons of whom one is on the allowlist, batch limit 1, a crash, stamps in payout order | `NothingPassedOver`, `ScoredRowsAreLogged`, `EventuallyScored` |
| `queue_zone` (violation) | 2 bets of one game, `now` in Hong Kong time | `HoldbackHonoured` is false |
| `shadow_safety` | queue and shadow scorer: 2 bets of one game, late and re-ingested, refetches and passes that raise, an aborted cycle, look-back 3 (1.2 M states) | `HoldbackHonoured`, `NoVisibleBetMissed`, `NotLateIsRight`, `ImplementsLifecycle` of the queue; `ScoresBacked`, `RepresentativeScored` |
| `policy_safety` | 4 candidates, one of a second player, scores and times that tie, lag 1, cooldown 2, 5 bisections (101 k states) | `ReplayBracketsServing`, `ReplayAgreesAtOneLag`, `AlertsFallWithThreshold`, `SearchIsClosest` |
| `validator_safety` | 3 bets of one patron of which 2 may be alerted, on time or late, one failure, time 6 (1.2 M states) | `MatchSawNoReturn`, `MissHasReturn`, `ImplementsBook` |
| `validator_drift` | 2 bets, 2 patrons, bets that change their patron or are taken back up to time 2, `FINALIZE_ON_HORIZON` off, one retry per cycle, one failure, time 5, fair (182 k states) | `ProcessedHasVerdict`, `EventuallyProcessed` |
| `prediction_safety` | 2 predictions, the first of one player and its bet moved or taken back up to time 2, the second of either player, one row per cycle, retention 1, one failure, fair (1.2 M states) | `MatchSawNoReturn`, `ImplementsBook`, `BacklogClears` |
| `labels_safety` | 4 bets, 2 players, month of 5 units, time 7 (1.0 M states) | `SettledLabelIsTrue`, `ShardsAgreeInside`, `VerdictMeetsLabel` |
| `feast_safety` | 2 processes in all three start modes around the turn of a two-day month, 2 faults, fair (578 k states) | `OneRefresher`, `ReadinessBacked`, `ImplementsPublication`, `EventuallyUnblocked` |
| `caches_safety` | one policy, with and without `--ignore-caches`, 2 buckets, 3 exports that come and come back, 4 builds, 2 runs cut off (1.5 M states) | `FreshOutputs`, `NoUsableDebris`, `NothingRebuilt` |
| `caches_switch` (violation) | two policies, one export, nothing cut off | `FreshOutputs` is false |

`TypeOK` is checked in `scorer_safety`, `shadow_safety`, `validator_safety` and
`feast_safety`, and proved for those and three more modules.

Why these bounds are enough to be interesting.

* *Scorer*: two bets of one patron in two games are what the cooldown must tell
  apart both inside one batch and across batches; a second ingest and one crash
  give every retry of one cycle on other rows; with time 3, cooldown 2 and
  look-back 2 a bet ages out and a cooldown expires. Three bets with limit 1 make
  the cut, and a foreign patron's bet in front, happen.
* *Queue and shadow*: a grid of 2 and a delay of 1 make a bet's visibility differ
  from its availability; a main and a side bet in one or two batches give
  deferral, re-enqueue and re-ingest after completion; look-back 3 within time 5
  lets the representative age out between completion and score.
* *Policy*: three candidates of one player with a cooldown of 2 give chains
  (one alert mutes the second, whose absence frees the third), in one batch and in
  several.
* *Validator*: verdict times are 3 (due), 4 (end of wait, finality), so time 5 or 6
  holds two cycles for one alert and overlapping cycles for two; a third bet
  separates "contradicts the alert" from "fills the gap". In `validator_drift` two
  alerts share one retry: the bet of the first can be taken back for ever while that of
  the second has moved to a patron whose bets nobody fetches for it; without rotation,
  or without the exception for hidden bets, `EventuallyProcessed` fails. One failure
  falls between results and marks, too.
* *Predictions*: gap, horizon and wait 1 give look-ahead 2 and finality 3; with one
  row per cycle the second prediction waits for the first, or the first, whose bet is
  taken back, holds up the second (without `HeldUp`, `BacklogClears` fails); a retention
  of one unit lets rows and marks expire while the phase works on the other.
* *Labels*: horizon 1, gap 2, look-ahead 3 are the configured ones in quarters of
  an hour; time 7 with months of 5 has bets on both sides of a month's end, nearer
  to it than the look-ahead and farther.
* *Feast*: the clock starts on the last days of a month, so that a day turns, a
  month turns, the gap day between them passes, and a cap of one day is exceeded.
* *Caches*: a base can be mixed from two versions in every way two buckets allow,
  and a run on A, one on B cut off and one on A again fit in four builds, as do two
  cut-off runs in a row before a good one.

Each property of a passing run has a *mutant* in `PROJECT.json`: a plausible bug
in the code's own definition (a cooldown read from the log, fetch order by bet
id, a sidecar written before the files, a retention that keeps rows longer than
marks, ...) under which the same run fails. The mutated definitions stand next to
the originals in the modules.

## 4. Fairness

`FairSpec` of `Scorer` and `Validator` is weak fairness of `Tick` and of `Cycle`,
the disjunction of the process' ordinary steps; of `PredictionPhase` of `Tick` and
`Phase`; of `FeastRefresh` of `Tick` and of each process' `Advance`; and of nothing
else. `main` in `scorer.py` and `run_validator_loop` are `while True` loops that
sleep a fixed time and call one cycle; the validator's loop and its second phase
catch every exception, and a scorer that died is started again by its supervisor
(`Start` is a step of `Cycle`). The refresh supervisor of a deploy process polls
in the same way. No fairness is put on the warehouse, on patrons, on failing
reads or on faults, and faults are finite in number: a database that fails for
ever finishes nothing.

In `EventuallyScored` the entity-missing fraction is one, so that the hard
failure of `AttachFails` cannot repeat for ever; that it can with the configured
0.10 is listed as a hazard. `EventuallyProcessed`, `EventuallyScored` and
`BacklogClears` speak of alerts, bets and predictions whose deadlines lie inside
the bounded clock, the first and the last of those whose own bets a query can return,
`BacklogClears` besides of those that no others hold up for ever. `EventuallyUnblocked` excepts a lock file whose holder is gone,
which the code never takes over.

## 5. Proofs

All theorems are proved for every value of the constants under the named
`ASSUME`s of the modules (types of the parameters, finiteness of `Bets`, a
positive cooldown, windows that cover one alert's span) and no others but the side
conditions named here; TLC evaluates the assumptions in every run.

**`ScorerProofs`**: `TypeCorrect`, `CooldownKept`, `MutingJustified`,
`ScoredOnce`, `WatermarkOnlyAdvances`, `LedgerImplemented`. `CooldownSpacing`
is not inductive: a decided cycle waits in memory between `Decide` and `Commit`
while time passes. The invariant `IInv` adds that stamps are never in the future
(`TimeInv`), that nothing is in memory between cycles (`IdleInv`), that fetched
rows are newer than the watermark and that scoring spends an ingest (`BatchInv`,
`CountInv`), that the alerts table holds the last alert sent for each bet
(`SentInv`), and that a decided cycle still remembers the cooldown it was judged
by (`DecisionInv`). The ledger's `Deliver` is then exactly `Commit`.
`EveryCycleAdvances`: a cycle that ends without dying has moved the watermark
strictly, so no loop of the daemon fetches the same rows for ever.

When the prediction log takes its writes (`~LogMayFail`), `ScoredLogged` and
`DecisionsLogged`: the log commits first, so a scored row is in it before the
watermark passes the row, and no delivered or muted alert is missing from it. The
converse is false (section 6, item 5). `NonePassedOver` also needs
`OrderedWarehouse`: stamps in payout order, with lags that differ by at most a
unit, and no second ingest; without it the code does pass rows over, since it
fetches by payout time and cuts by stamp. The invariant `PassInv` says that stamps are
distinct and trail the payouts (`ArrivalInv`), that the probed maximum is of a bet
old enough to be fetched (`ProbeInv`), that no stamp to come is below the
watermark (`MarkInv`), that a batch leaves no hole up to its last row
(`FetchInv`), and that the log has what the cycle has set aside or scored
(`LogInv`).

**`ShadowScoresProofs`**, the queue: `TypeCorrect`; `HoldbackKept` when `ZoneSkew = 0`;
`NothingVisibleMissed`; `NotLateRight`; `IdentitiesKept` and
`LifecycleImplemented` when no upsert raises. Because `Abort` makes the open
tables the committed ones, the invariant states the facts about rows (`DueInv`,
`HeldBack`, `SawAll`) once for a pair of tables and asserts them of both pairs;
`LoopInv` and `BatchInv` say what the half-done loops have covered. For the late
metric `CountInv` adds that a pending row's count is that of the bets its first
batch brought.

The queue and the shadow scorer: `QueueRefined`, that queue and shadow scorer together
are a run of the queue, so that every theorem above holds of the pair;
`ScoresAreBacked`; `RepresentativesScored`. `ShadowInv` adds to the queue's
invariant that a pass only knows listed games (`Known`), that open and committed
scores are of open and committed completions (`Backed`), on their own
representative (`Own`), and what a half-done pass has fetched (`PassInv`).

**`AlertPolicyProofs`**: the invariant (`ServedInv`) is that what was sent so far is
one pass over the times of scoring, however the candidates were cut into batches
and whichever alerts are remembered in `state.db`; `PassUnique` makes it *the*
pass, `BatchesMakeOnePass`. A pass has two facts: alerts of a player are a cooldown
apart (`PassSpacing`), and every candidate has an alert of its player less than a
cooldown before it (`PassCovers`); of the scorer they are `CooldownExact`, and by
them every batch is a choice that `AllowedRaises` of module `Scorer` permits
(`PolicyChooses`). They also count: two alerts of one pass never meet at the same
alert of another, so a pass with a wider cooldown, or over fewer candidates, has
no more alerts: `Bracketed` (lags below the cooldown), `AlertsFall`. At one lag
both passes have the same order and distances: `ReplayAgrees`. For `SearchCloses`,
each round (`BisectStep`) keeps that the lower end of the interval gives more alerts
than wanted and the upper end does not, and that the best point is as close as
both; at the end the interval is narrower than the distance between two scores. It
assumes `EnoughRounds`, that halving the range of the scores `Rounds` times leaves one
unit: the run's 5 bisections do it for its 8 units, the code's 48 for scores in
[0, 1] that differ by 2^-46 or more.

**`ValidatorProofs`**: `TypeCorrect`; `BookImplemented` when no read is
swallowed; `VerdictsSaved` with `FINALIZE_ON_HORIZON`; `MissesJustified` when
bets keep their patron; `MatchesJustified` with all three. The invariant has
three layers: `TypeInv`, the types with what each program counter implies for the
in-cycle variables; `Kept`, that the row of a finished alert is the same in
table, cache and cycle, so that saving everything again changes nothing; and
`Evidence`, that every row, wherever it is held, rests on bets of the warehouse
as of its `asof`, and that the fetched lists are what the warehouse held in the
window. `MissesJustified` and `VerdictsSaved` cover swallowed reads, which the
runs do not have; `TypeCorrect`, `BookImplemented` and `VerdictsSaved` cover bets that
move or are taken back.

**`PredictionPhaseProofs`**: `NoPendingVerdict`, when the look-ahead is at least gap
and horizon together (`WideLookahead`, as configured): the last bet inside the
horizon begins a gap, or a late bet contradicts it. And `TypeCorrect`, `MatchesSawNoReturn`,
`BookImplemented`, with no side condition: any lags, drift, limits, retention and
faults. The invariant is types, that stamps are past (`Past`), that what a saved
or held row claims was in the warehouse when its bets were fetched (`Evidence`),
that the cache holds what was fetched (`Fetches`), and that marks are only of
saved rows through the two commits (`CycleInv`).

**`WalkawayLabelsProofs`**: `LabelsSettle`, `MonthsAgree`, `VerdictsMeetLabels`.
The next bet of a player is the least of a set of times and the last of an export
the greatest; that finite sets have one is proved from well-foundedness of the
naturals (the element with the fewest above it). The invariant says that bets are
settled in payout order (`Ordered`) and that labels and shards are those of the
bets up to the export's end (`Computed`).

**`FeastRefreshProofs`**: `TypeCorrect`, `RefreshersExclude`, `DocumentBacked`,
`DocumentNeverOlder`, `PublicationImplemented`. The invariant ties the artefacts
of the refresh under way to store and document: the holder of the lock is the only
one with a job that writes, and what it is about to announce is online.

**`TrainingCachesProofs`**: `TypeCorrect`; and, when all runs are of one policy
(`OnePolicy`), whatever exports come, go and come back and whether or not runs ignore
the caches: `OutputsFresh`, `NoDebrisUsable`, `RepeatRebuildsNothing`. Fresh outputs are
not inductive, because a sidecar is compared only with the exports and not with the
files beside it. The invariant says that within a run exports only grow, and what that
says of the sidecar (`Order`); that a base under construction was read since the run
began and lies beside an orphaned sidecar or none (`BuildInv`); that a sidecar which is
not orphaned, and was written on the exports that were hashed, lies beside a whole base
made of them (`BaseInv`); that a manifest which records the very files that are there
names the sidecar's source (`RecordInv`), and the entity set or the labels are then theirs
(`EntityInv`, `LabelInv`). `SettledInv` says what the last good run has left. The condition
on policies is needed: `caches_switch` is its counterexample. The exception `orphaned` is
needed: section 6, item 11.

**Only model-checked**: the liveness properties (`EventuallyScored`,
`EventuallyProcessed`, `BacklogClears`, `EventuallyUnblocked`: the prover does not
do liveness under fairness or `ENABLED`); `MissHasReturn` and
`ProcessedHasVerdict` where the theorems' side conditions do not hold (drift,
finality off); and the two violations. Every other invariant, action property and
refinement of the runs is the subject of a theorem.

## 6. Disagreements between code and documents

Two are violation runs, quoted with both lines in `PROJECT.json`.

1. `queue_zone`: `due_ts` is stored in UTC text and compared with `now` in
   `+08:00` text (`player_game_ready_queue.py:275`, `:441`), so in production a
   game is completed in the cycle that enqueues it; the holdback has no effect.
   The tests pass `now` in UTC.
2. `caches_switch`: the entity sets of all policies share one path, and the
   labels another, but each policy has its own manifest (`trainer.py:861`); after
   quantiles A, B, A the third run uses B's rows.

The others were met while modelling; the models have the behaviour, and the
properties are stated around it.

3. Due games are processed only in a cycle that fetched new bets
   (`scorer.py:1244`); the Player-Game Grain plan (lines 44, 54) bounds the time
   to the score.
4. The queue's exception is swallowed (`scorer.py:1277`) and the cursor passes the
   bet of a failed upsert; its game is then in neither table. `ImplementsLifecycle`
   is checked and proved for upserts that do not raise.
5. A failed prediction-log commit is swallowed (`scorer.py:1625`) and the cursor
   moves on; and after a crash between the two commits the log has a raised alert
   that no host received (`scorer.py:1602`).
6. After an outage longer than the look-back, the floor (`validator.py:2224`) cuts
   off the bet that contradicts the alert and a later bet makes the list
   non-empty: MATCH, although the comment at `:1495` excludes a MATCH without data.
7. The refresh lock file is never taken over (`deploy/main.py:766`): after a
   crash of its holder the next start is refused (`:955`).
8. On the gap day between the second day of a month and its slow refresh, the
   Slow Feature Train-Serve Parity plan (line 102) allows last month's anchor;
   `snapshot_freshness.py:219` judges it stale and scoring stops until the refresh.
9. The Cache Redesign SSOT (line 185) wants staging, validation and atomic
   publication; the cleaned bets are removed and replaced in place
   (`bet_l0_preprocess.py:846`), and the entity set and the labels too.
10. `extended_end` is the export's last payout plus the look-ahead
    (`utils/walkaway_labels.py:203`), so the `censored` column marks nothing; the
    Training Acceleration SSOT (lines 49, 206) excludes censored rows from every
    split. Labels near the export's end may be wrong; `SettledLabelIsTrue` is about
    the others. Month-end labels differ between sharded and whole builds in the
    same way (`ShardsAgreeInside`).
11. The rebuild of the cleaned bets removes the directory but not its `.cache.json`
   (`bet_l0_preprocess.py:846-850`), readiness asks for any parquet file (`:1142`), and
   `--partition-snapshot-dir` (`trainer.py:3046-3053`) points runs at different exports
   over the same artefact paths. A run on A ends well; new exports B come and a run on
   them is killed between two moves of buckets (`:598-630`), or fails the null gate after
   them (`:817`); a run on A then matches A's sidecar, uses the half or whole base of B,
   and builds entity set and labels from it. A rebuild with `--ignore-caches` that is
   cut off does the same with A alone. The same SSOT excludes it (line 62, D-013;
   line 15). TLC finds both traces when `\/ orphaned` is taken out of `FreshOutputs`,
   and the half-made base when it is taken out of `NoUsableDebris`; with it, that is
   the only way in which the caches of one policy go wrong.
12. The prediction phase takes the oldest open predictions first, up to
   `PREDICTION_VALIDATION_MAX_ROWS_PER_CYCLE`, and retries the first of those without
   bets, without rotation (`validator.py:1776-1790`, `:1838`). A prediction whose bet
   no query returns any more and whose patron has no other bets gets no verdict ever,
   also past its finality, and keeps its place; as many of them as there are places
   hold all younger predictions up for ever. `.cursor/plans/INCIDENT.md` (lines 97, 104)
   reports such alerts from production; the alert phase rotates its retries and
   has no batch limit, so there they delay but do not block others
   (`EventuallyProcessed`).
13. With `VALIDATOR_FINALIZE_ON_HORIZON` off, a swallowed read of `validation_results`
   in a fresh process (`validator.py:1246`) makes the validator judge a finished alert
   again, and the MISS it was closed on is saved over as PENDING.

## 7. What is not modelled, and why

* *Scorer*: rows without ETL stamp; a second scorer process on one `state.db`
  (the deployment starts one); feature values and scores; a failed read of
  configuration files.
* *Validator*: retention and cache pruning of the alert phase (days, next to a
  clock of minutes); `--force-finalize`; alerts without player id; the legacy CSV
  fallback; metrics; a second validator; a truncated database; player chunking;
  a commit that raises and leaves its rows in the open transaction. With
  swallowed reads a closed alert is judged again and its verdict may change (item 13 of
  section 6), so `ImplementsBook` is claimed without them.
* What section 2 says is left out of the other modules.
* The components of the second list of section 1. They make up most of the
  source: the training and experiment scripts are straight-line numerical code
  over data frames and SQL (feature definitions, LightGBM, back-tests, reports),
  whose results are numbers that no small instance represents and whose control
  is one pass from top to bottom; the rest keeps no state a protocol could break.
  A model of them would restate them.

## 8. What is left

* *Compositions*: scorer and validator over one `alerts` table; two scorers or
  two validators over one file, which nothing in the code prevents.
* *Caches*: label shards reused by month, the session, rank and universe caches,
  in the manner of `TrainingCaches`.

## 9. Running it

```
tlc -workers 2 -config MCScorer_safety.cfg MCScorer      # a run
tlapm ScorerProofs.tla                                   # the proofs of a module
```

The longest run takes about two to three minutes with two workers, the longest
proof about one minute.
