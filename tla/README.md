# crunch-node: TLA+ specifications, model checking and proofs

`crunch_node` runs a prediction competition: workers that share one PostgreSQL
database ingest market data, call the participants' models, score their
predictions, rank the models and turn the ranking into checkpoints that are paid
on chain. This directory specifies the parts of it where order, failure and
restart matter.

## The system

    feeds -> predict-worker -> predictions -> score-worker -> snapshots
          -> Merkle cycle, leaderboard, checkpoint -> report-worker -> chain

| component | state | operations | hard behaviour | what makes it correct |
|---|---|---|---|---|
| feed ingestion (`services/feed_data.py`, `feed_window.py`, `feed_reader.py`) | `feed_records`, watermark rows, an in-memory window | backfill at start, poll, write to sinks, prune; read a prediction's window | gaps, a session that nothing rolls back, restart from the watermark | nothing behind the watermark is missing that an answer could have brought |
| feed providers (`feeds/providers`) | a polling task with its own watermark; MongoDB: a watch thread, a queue, a poll's batch | fetch a range, poll, watch inserts, retry, stop | equal times, a full batch, reconnection without a token, stopping while a thread works | each document handed on once; what was told to stop ends |
| predict-worker (`services/realtime_predict.py`, `predict.py`, `predict_sink.py`) | a pre-reserved schedule per configuration, inputs, predictions | on each feed event call the models that are due | one configuration failing after another was predicted, a shared session in pending rollback | each scheduled run gets one batch of predictions |
| tournament rounds (`services/tournament_predict.py`, `scaffold/node/api/tournament.py`) | rounds as rows, a runner and a session shared by requests | infer, score, write snapshots | requests overlap where they await; the score-worker finds the same rows due | each row scored against its own ground truth, counted once |
| score-worker (`services/score.py`, `prediction_scorer.py`) | statuses, scores, snapshots; the cycle in memory | one cycle a minute | many commits per cycle with a crash or exception between any two | each prediction counted once, nothing silently lost |
| ensembles (`services/prediction_ensemble.py`, `ensemble.py`) | virtual predictions, scores and snapshots | filter, weigh, save, in every cycle again | saved after the members' own rows, refused without a model's row | a virtual prediction lies between its members', its score is of its value |
| Merkle records (`merkle/`) | cycle rows, tree nodes, the checkpoint's root | commit cycle, commit checkpoint, prove, verify | one commit per node, failures swallowed by the callers | one chain, complete leaves, roots over exactly the period; a changed row does not verify |
| leaderboard (`services/leaderboard.py`) | the stored board | rebuild from all snapshots | windows that empty between two rebuilds | covers what is paid |
| checkpoints (`services/checkpoint.py`) | checkpoint rows, time of the last one in memory | create when due | inclusive period ends, restart, swallowed failures | each snapshot rewarded exactly once |
| rewards (`crunch_config.py`, `extensions/emission_strategies.py`) | - | rank, distribute fractions | rounding, fewer models than tiers | fractions sum to the whole and keep the order |
| checkpoint lifecycle (`workers/report_worker.py`) | status, `tx_hash` | confirm, advance | concurrent requests over stale reads | status only moves forward |
| report reads (`workers/report_worker.py`) | - | boards, metrics, rewards, prizes | lists joined by position, limits that cut the newest rows | the views of one state agree |
| backfill jobs (`services/backfill.py`, `db/backfill_jobs.py`, `services/parquet_sink.py`) | job rows, cursor, day files | start, page, finish | check-then-create, restart, torn files | one job at a time, no record lost |
| challenge backtest (`scaffold/challenge/starter_challenge/backtest.py`) | the cruncher's cache of day files | pull, replay, score | a stale, partial or torn cache; window, interval and horizon over gaps | no look-ahead; each prediction scored against the record its horizon names |
| trading pack (`packs/trading/node/extensions`) | positions, portfolio, rows | orders, marks, recovery | restart between marks | carry charged once |

## Modules

Each component has a specification. What is proved about it is in a `..._proofs` module,
where specifications that are checked together may share one: `Checkpoints_proofs` has
`CheckpointLifecycle` and `CheckpointRace`, `Feeds_proofs` has `PolledFeed`, `MongoFeed` and
`Backfill`, `Rewards_proofs` has `Emission`, `Ranking` and `Ensembles`, `Published_proofs` has
`MerkleTree` and `Backtest`. An `MC...` module gives the constants their values for TLC.
Components that share no state are checked in one run: a variable `side`, fixed by the initial state,
says whose behaviour it is, and the others rest. Variants of an operator
(`RewardByRank` beside `RewardAt`, say) state a mistake that would be easy to make
there; no specification uses them.

| module | component | composes or refines | checked in |
|---|---|---|---|
| `ScoreCycle` | score-worker, Merkle records, leaderboard, checkpoint creation | implements `Ledger` | `MCScoreCycle` |
| `Ledger` | what the pipeline promises a prediction | - | by refinement |
| `CheckpointRace` | the checkpoint-worker beside the score-worker | checkpoint creation of `ScoreCycle` cut into its database calls | `MCCheckpoints` |
| `CheckpointLifecycle` | the endpoints of the report-worker over checkpoint rows | - | `MCCheckpoints` |
| `MerkleTree` | trees, proofs and the verifier | the contents of the Merkle rows of `ScoreCycle` | `MCPublished` |
| `Averages` | sums and averages, as exact fractions | the arithmetic of the next four | `MCRewards` |
| `Ranking` | aggregation, leaderboard windows, ranking of a checkpoint | the arithmetic `ScoreCycle` abstracts | `MCRewards` |
| `EmissionTiers`, `Emission` | fractions a checkpoint pays | the arithmetic after `Ranking` | `MCRewards` |
| `Reports` | the report-worker's views | extends `Ranking`, pays by `EmissionTiers` | `MCRewards` |
| `Ensembles` | virtual models | a step of the cycle of `ScoreCycle` | `MCRewards` |
| `PredictWorker` | realtime predict and the two sinks of a feed | its predictions are `PredictionDue` in `ScoreCycle` | `MCPredictWorker` |
| `Tournament` | rounds of the report-worker beside the score-worker | - | `MCTournament` |
| `PolledFeed` | Binance and Pyth: start-up, listener, sink, watermarks, retention, the score-worker's reader | provider to truth; `PredictWorker` has the sinks in detail | `MCFeeds` |
| `MongoFeed` | MongoDB's poll and change stream | - | `MCFeeds` |
| `Backfill` | backfill jobs and their files | - | `MCFeeds` |
| `Backtest` | the challenge's pull and replay | reads what `Backfill` writes | `MCPublished` |
| `Trading` | trading engine, sink and saved state | the hook at the end of a tick of `PredictWorker` | `MCTrading` |

### `ScoreCycle`

The score-worker, one action per durable step.

*State.* `status`, `truth`, `scores`, `snapshots`, `cycles`, `leaves`, `board` and
`checkpoints` are the tables. A snapshot is `[model, at, preds]`: its row's
`created_at`, and the predictions whose scores it aggregates, which the row itself
only counts. A cycle row holds its time, the time of its predecessor (the chained
root) and the snapshots under its root. A checkpoint holds its period, the
snapshots its emission is computed from, and the cycles under its Merkle root
(`{}` is a NULL `merkle_root`). `pc`, `now`, `todo`, `scored`, `unsaved`, `written`,
`current` and `lastCheckpoint` are the process's memory, and `session` says whether
the SQLAlchemy session waits for a rollback. `dropped` and `faults` are history.

*Actions.*

| action | code |
|---|---|
| `PredictionDue`, `TruthArrives`, `Tick` | the other workers and the clock |
| `StartCycle`, `StartCycleRollsBack` | `_score_predictions`' query, and the query of a session left in pending rollback, which raises and makes `run` roll back |
| `SkipUnresolved`, `SaveScore`, `SaveStatus`, `ScoringRaises` | the loop of `_score_predictions`: `_resolve_actuals` gives nothing; `score_repository.save`; `prediction_repository.save`; the scoring function or `model_validate` raises |
| `FinishScoring`, `SaveSnapshot` | `_write_snapshots`, one save per model |
| `CommitCycleRow`, `SaveLeaf`, `CommitCycleFails` | `commit_cycle`: the row, then the nodes; `score_and_snapshot` swallows a failure |
| `RebuildLeaderboard` | `LeaderboardService.rebuild` |
| `MaybeCheckpoint` | `maybe_checkpoint` up to the interval test |
| `CreateCheckpoint`, `CreateCheckpointFails` | `create_checkpoint` up to its save, and the swallowed exception |
| `CommitRoot`, `CommitRootFails` | `commit_checkpoint`, `update_merkle_root` and the swallowed exception |
| `Abort`, `Crash` | an exception that only `run` catches; the process dies and starts again |

Time is logical. `clock` is what `datetime.now` would read next; a cycle takes
`now` from it and `create_checkpoint` reads it again, after at least one commit, so
the second reading is later. Timestamps identify rows as the code's ids do:
collisions within one second are not modelled here (the loop waits
`score_interval_seconds`).

### `Ledger`

Without processes, tables or faults: a prediction is scored at most once, then
counted by at most one snapshot, then paid for by at most one checkpoint, and
nothing of that is taken back. `ScoreCycle` implements it: a prediction's final
score is its `SCORED` status, its counts are the snapshots that hold it and its
payments the checkpoints that hold those.

### `CheckpointRace`

`create_checkpoint` in two processes, cut into its three database calls:
`ReadLatest` (the latest checkpoint's end becomes the start of the period),
`FindSnapshots`, `SaveCheckpoint`, and `Fail` between them. The score-worker's
cycle around it is `StartCycle`, `SaveSnapshot` and `EndCycle`; only its process
writes snapshots, and a snapshot carries the time its cycle started. `first`, `by`
and `late` are history.

### `Ranking`, `Emission` and `Reports`

`Ranking` has the four calls of a cycle that order models: `WriteSnapshots`
(mean per cycle and model), `Rebuild` (plain averages over the windows, the latest row's
fields, and the sort by key and direction), and `CreateCheckpoint` or
`NotDue` (average over the period, weighted by `prediction_count`, `get(ranking_key, 0)`,
sort). Averages are fractions of integers (`Averages`); `SumOver` adds over a finite set
by a recursive function on its subsets, so that what it computes can be proved. The
configuration is chosen in `Init`.

`Emission` is the pure part: `TierEmission` (in `EmissionTiers`: tiers, an even split
among the rest, rounding to nine decimals, the remainder to the first) and
`WeightedEmission` (three normalised metrics, floor, second normalisation), with
`Blends` for the metrics and floors to try. The
state only holds the inputs and the result.

`Reports` adds no state. Each read endpoint is an operator on the state of `Ranking`:
leaderboard, global, scoped, windowed and summary metrics, predictions, diversity,
ensembles, and the rewards of a checkpoint in their three forms, rounded as each of them
rounds. A view with a limit reads the oldest rows, in any order within a cycle (`Pages`).

### `Ensembles`

*State.* `predictions` and `metric` are what the members' part of a cycle left behind;
`virtual`, `scores` and `ensembleSnapshots` the rows of ensembles; `registered` the ensembles
with a row among the models. `cycle`, `step`, `config`, `batch` and `left` are the loop's
memory, `cut` is history. Weights are not normalised to a sum of 1, as the code has them:
that changes no average.

*Actions.* `ScoreMembers` (the members' cycle); `Compute` (filter, weights and
predictions of the next ensemble); `SavePrediction`, `SaveScore`, `SaveSnapshot` (a
commit each); `Refused` (the foreign key); `Fails`; `EndCycle`.

### `MerkleTree`

*State.* `snapshots`, `cycles`, `nodes` and `checkpoints` are the tables, `unsaved` the
node rows the running commit has still to save; `committed` is history. SHA-256 is taken
to be injective: a hash is the tuple of what was hashed.

The levels of a tree are a function (`Levels`) whose widths (`Widths`) halve up to the
first of 1 (`Height`): an odd level's last node is its own right neighbour, which is what
padding the level with it amounts to. The rows of a tree are a set, saved level by level
(`Earlier`). A proof climbs from the leaf through the rows that are there (`Above`, `Path`).

*Actions.* `CommitCycle` (the snapshots and the cycle's row), `CommitCheckpoint` (its
row), `SaveNode` (one row at a time; the last of a checkpoint's stores its root),
`CommitFails`, `SaveOutsideCycle` (a round's snapshot under the id of the same second),
`Tick`. `Path` and `VerifyProof` are `generate_proof` and its verification, `Checks` the checks
of `scripts/verify_merkle.py` on a content, `StripTz` what the reports make of a snapshot, and
`Passes` the script, which checks what it is shown. Times have a zone, because what is hashed has.

### `CheckpointLifecycle`

*State.* `row` is the checkpoint table: `status`, `tx` and whether it has a Merkle
root. `handler` is a thread of the report-worker: idle, `changed` (it has read and
changed a copy) or `refetched` (`save` has read the row again). `requests` bounds
the requests. `confirmed`, `stored` and `overlapped` are history.

*Actions.* `CreateCheckpoint` and `UpdateMerkleRoot` are the score-worker's,
`confirm_checkpoint`
and `update_checkpoint_status` are the endpoints up to the changed copy (guards and
transition table included), `Refetch` and `Commit` are the two database calls of
`checkpoint_repository.save` (SQLAlchemy writes the columns in which the copy and
the row it just read differ: `Merged`), and `Drop` a request that fails before its
commit.

### `Backfill`

*State.* `client` is a thread serving `POST /backfill`: `idle`, or `free` when it
saw no active job. `rows` is `backfill_jobs` (status, cursor, records written, range),
`task` the background task of a job (`none`, `queued`, its step, or `gone`),
`files` the day files. `faults` counts faults and `torn` is history: the days a
write of which was cut short.

*Actions.* `CheckStarted`, `CheckRunning` and `CreateJob` are the endpoint;
`StartTask`, `FetchPage`, `AppendPage`, `Progress` and `Complete` are `BackfillService.run`,
one step per call that changes something outside the task; `FetchFails`,
`DatabaseFails`, `WriteFails`, `SetUpFails` and `ServerCrashes` are its failures.
`AppendPage` merges every day of a page; `WriteFails` stops at one of them with that
file unreadable, which the next merge replaces.

### `PolledFeed`

*State.* `published` is what the provider has, `stored` and `watermark` the tables. `pc`,
`session`, `hand`, `seen` and `errors` are the feed service: where it is, its one session,
the records in hand, the listener's own watermark and its errors in a row. `inLoop` says
whether the reader's caller runs an event loop, `scored` the predictions that have their
truth. `looked`, `passed` and `faults` are history. A record is its subject and time, and
time 0 stands for none. `hand` is a set that is taken in the order of the subjects
(`IsFirst`); while starting up it holds what is still to be asked for, for all
subjects up to the one `now` that start-up reads. A record is overtaken when it is published
before a time its subject was already asked up to: what counts is when it was published,
not the stamp of its candle.

*Actions.* `Publish`; `Start`, `Backfill`, `BackfillMark`, `SubjectFails` (start-up, subject
by subject); `Poll`, `PollRaises`; `AppendRecord`, `Advance`, `SinkFails` (the sink);
`prune_before`, `PruneFails` (retention); `fetch_window` (the reader of the score-worker,
with its recovery); `Crash`. `list_indexed_feeds` is the report's index.

### `MongoFeed`

*State.* `collection` holds the documents' `inserted_at`. `mongoPc` and `mongoErrors` are
the listening task; `batch` the polling loop's watermark, remembered ids, batch size and the
documents in hand, a set that is taken in the order of time and then of insertion (`InHand`);
the queue is a set that is taken in the order of insertion (`Oldest`). `stopEvent`, `threads`, `events`, `queue` the change stream: one entry of
`threads` per watch thread, the inserts its stream has for it, and the queue between it and
the task. `delivered`, `late`, `lost` and `mongoFaults` are history.

*Actions.* `Insert`; `Find`, `SkipSeen`, `HandleDoc`, `EndPoll`, `FindFails`,
`PollSinkFails` (polling, with the growing batch); `OpenWatch`, `Push`, `ThreadExits`,
`ThreadRaises` (the thread); `StartThread`, `Consume`, `Empty`, `ThreadIsDone`,
`StreamSinkFails` (the task); `Stop`, `Close` (the handle).

### `Backtest`

*State.* `server` is what the coordinator's files hold, `cache` the cruncher's day files,
`call` the pull or run under way, `result` what the last run returned.

*Actions.* `Backfilled` (the coordinator's files grow); `Pull`, `Run`, `Download`,
`DownloadFails`, `EndPull`, `EndRun`. The replay is a function of the cached files
(`Replay`): full windows (of one record at least), an interval between predictions, the actual at the horizon, the
default score, windowed metrics.

### `Tournament`

*State.* `rows`, `scores`, `counted` and `latest` are the tables. `requests`, `scoring`,
`session`, `known` and `runner` are the report-worker: inference requests, the scoring
request, the one session and runner they share. `worker` is the score-worker's cycle.
`shared`, `lost`, `taken`, `broken`, `mixed`, `crossed` and `left` are history and bounds. An id
names request, sample and model. What a scoring has still to do is a set of predictions
paired with their truths: of one model in the order of their positions (`IsNext`), between
models in any order. Of a model's snapshots only the latest may be replaced by one of the same
second: to replace an older one, a process would have to save a snapshot of an earlier second
later than the other process a newer one.

*Actions.* `StartInference`, `EndInit`, `InitFails`, `CallModels`, `SavePrediction`,
`EndInference`, `InferenceFails` (requests leave the loop only where the runner is awaited,
so `LoopIsFree` guards what runs between two awaits); `StartScoring`, `ScoreNext`,
`BuildSnapshot`, `ScoringFails`; `WorkerFinds`, `WorkerScores`, `WorkerSnapshots`,
`WorkerFails` (the other process); `Restart`.

### `Trading`

*State.* `accounts` is the engine's memory and `rows` the table: per model the
positions (side, size, times of opening and of the last mark, carry), fees and
sizes of closed trades. `phase`, `todo` and `dirty` are the sink between a record and
the end of its hook, `session` the database session, `seen` the last record's time
per asset and `zero` the assets whose last price was zero, which only those of `Worthless` can
have: of prices nothing else is kept. A position is `free` when its entry price is zero:
what closes it raises after the fee was charged. `wasted` is history, the sizes of those orders. `charged` in a position is how many ticks of carry it has been charged,
so that `charged` and the time held can be compared; money is counted in units of
size (the fee of a unit is one).

*Actions.* `Tick`; `OnRecord` (the sink marks the asset's positions);
`NothingPredicted`, `StartHook`, `Skip`, `NoSignal`, `ApplySignal` (the hook, one
prediction at a time, in the modes delta, order and target; an order that is refused or raises
is skipped and leaves `dirty` as it is); `StartPersist`,
`SaveState`, `SaveStateFails`, `FinishHook` (one commit per model);
`OtherCommitFails` (another commit of the worker's one session fails) and
`Restart` (`load_state`).

### `PredictWorker`

The combined worker for one subject, one action per database call or await.

*State.* `stored`, `watermark`, `models`, `inputs` and `predictions` are the tables;
`published` is what the provider has. `pc` is where the process is, `session` its one
SQLAlchemy session, `window` the feed window, `seen` the listener's own watermark.
`record`, `now`, `todo` and `batch` belong to the tick in hand; `known` and `dirty`
are the model registry, `nextRun` the schedule. `runs` (calls and the models known
then), `torn` (ticks cut short) and `starts` are history. A record is its time.

*Actions.*

| action | code |
|---|---|
| `Publish` | the provider |
| `Start`, `Backfill`, `BackfillMark` | `main` with `load_from_db`; `_backfill`'s page and watermark |
| `Deliver` | a poll of `listen` |
| `AppendRecord`, `SetWatermark`, `SinkFails` | `RepositorySink.on_record` in the composite sink |
| `BeginTick` | `PredictSink.on_record` up to the first await |
| `FeedUpdate`, `NoConfigs` | the models' answers to `feed_update`, and the query of the configurations, which may raise |
| `SaveInput`, `CallModels` | the loop of `_predict_all_configs` for the next configuration due |
| `TickRaises`, `EndConfigs` | an exception of the runner or the hook; the end of the loop |
| `FlushModel`, `FlushFails`, `FlushDone` | `flush_non_critical` |
| `SavePrediction`, `SaveFails` | `save_all`, one commit per row; also a failing save of the input |
| `Prune`, `PruneFails` | the retention task, whenever the process awaits |
| `Crash` | the process dies and loses its memory |

## Runs

| run | sides | asks | bounds |
|---|---|---|---|
| `score_cycle` | - | do counting, payment, Merkle records and periods stay consistent? does the worker implement `Ledger`? is what can be scored scored in the end? | four predictions of two models, one that raises; interval of 2 ticks, clock to 5; one fault |
| `checkpoints` | row | what may stale copies do to a row? | one checkpoint, two hashes, three threads, five requests; symmetric threads and hashes |
| | race | what may two creators of checkpoints do to a snapshot? | two processes, one model, periods that begin at any time; clock to 8 |
| `rewards` | views | do predictions weigh equally, does the better model lead, do the views agree? | three models, one an ensemble, results `<<-1>>`, `<<3>>`, `<<2, 3>>`; both keys and directions; two cycles, a week of one; a page of five rows |
| | shares | do sums and order survive rounding? | 0 to 12 models under the tiers; 1 to 3 under the blend, with contributions -1, 0, 2, correlations 0, 0.4, 1 and floors of 1 and 43 percent; six equal ones at the floor of 43 percent |
| | ensembles | what do virtual predictions say? | two members with three outputs, a threshold weighted by variance and a best of one; two cycles, one fault, an ensemble without its row |
| `feeds` | jobs | do files, cursors and completed jobs agree, do tasks end? | two threads, three jobs, ranges 0-3 and 2-8 over records at 0, 1, 2, 4, 6; pages of 2, days of 4; two faults |
| | poll | does a watermark tell the truth, what arrives in the end? | two subjects, three providers, a fetch of 2, span and retention of 1, candles of 2; clock to 4; two faults for candles, one for the others; a listener that ends after two errors |
| | stream | is each document handed on once, does a stopped handle end? | both modes, three documents of times 0 (none) to 3, batches of 1 to 3, a queue of one; two errors |
| `trading` | - | caps, fees, saved state, targets | two models, two assets of which one may have a price of zero, caps 2 and 3, signals -3, 0, 1 in the modes delta and target (order differs from delta in accepting a size of 0, which does nothing); clock to 2; one fault |
| `predict_worker` | - | do references, schedule, saved batches and inputs survive failures? | two symmetric models, intervals 1 and 3, window and page of 2, records kept 3 ticks; clock to 7; one fault |
| `tournament` | - | does each row meet a truth of its round and position, count once, and is there one runner? | two rounds one of which finds the other's, two samples, two models; (requests, scorings, cycles of the score-worker, faults) are (1,1,1,1), (1,2,1,0), (1,2,0,1), (2,2,0,0) or (2,1,0,1) |
| `published` | proofs | do the checks of a snapshot hold exactly when they should, what does the script make of it, does a root bind its period? | cycles of one and of five models; three seconds, one fault, one snapshot saved by another process |
| | replay | does a replay look ahead? | six records over two days, windows of 2, three calls, one fault |
| `feed_recovery` | poll | violation: a prediction waits for candles the provider has | as in `feeds`, no fault, the caller in an event loop |
| `score_lost_to_error` | - | violation: scores outside every snapshot | two predictions, the second raises; no fault |
| `checkpoint_ignores_key` | views | violation: a checkpoint that ranks by first row | as in `rewards`, the default key |
| `carry_charged_again` | - | violation: carry charged twice | as in `trading`, target mode only |

*Why these are enough.* Two models let a cycle write two snapshots, one of which can be
lost; four predictions give checkpoints that share end points, with an interval of 2 that a
checkpoint may or may not have reached. One fault is tried at every place; two where one
can follow another's repair. `MaxClock` bounds idle ticking only: a commit may still push
the clock past it. Three stale copies are one more than overwriting needs, five requests are
one for each transition and one to repeat. Twelve models are two more than the tiers tell
apart. The two ranges of a backfill share a day and end in the two ways a loop can: at the
last record and at an empty page. Two subjects are enough for one to fail while the other
is answered, a fetch of 2 for a full page in a clock of 4. Three documents with batches
from 1 to 3 fill a batch with one time, outgrow it, and leave a document for the next time;
a queue of one makes the thread wait. A tree of five leaves has an odd level at the leaves
and one above, a tree of one has its leaf for a root. Two overlapping requests and a
wildcard in a round's name are what it takes to mix two rounds; that a scoring finds both together
is excepted, that it finds one while the other is under way, or one after the other, is
checked. Six equal models at the floor are a blend in which the first, who bears the rounding of all, does
fall behind the others. An asset that may have a price of zero is opened at it, closed and
turned over. A signal of -3 exceeds both
caps, alone and after another asset's. Seven ticks let the predict-worker fill its window,
push a record out of it, drop one from the table, call a configuration twice and start
again; a fault may hit every call, and the session it leaves fails the rest of the process
without another fault.

*Fairness.* Every fairness condition is weak and on what the scheduling drives:

- `ScoreCycle`: `run` loops until shutdown, so `Worker` is fair, and time passes, so `Tick` is.
- `Backfill`: the event loop goes on with some task that can run (`Running`); it is not said
  with which.
- `PolledFeed`: the container starts the service again and its loops go on (`Feeding`),
  and so does the score-worker (`Scoring`).
- `MongoFeed`: the event loop runs the task (`Polling`, `Consuming`), the executor the
  thread (`Watching`), and a handle that was told to stop goes through with it (`Close`).

No prediction, ground truth, record, request, stop or fault is forced. The bounds make
faults finite, which liveness needs: a worker that crashes in every cycle scores nothing.

Deadlock is not checked: every component rests when nothing is due or asked for, and the
bounds end every instance.

## Proofs

All proofs are for every value of the constants that satisfies the module's
assumption: the shape of the constants, nothing about their size. Each invariant lemma
has one step per action.

- `ScoreCycle_proofs`. `TypeCorrect`. `SnapshotsPaidOnce` and `NoSnapshotSkipped`: each
  snapshot is rewarded by one checkpoint. `PaidOnce` is not inductive: it needs that
  stored times lie in the past, that no snapshot carries the time at which a
  checkpoint ended although both ends of a period's query are inclusive, and that
  periods do not overlap. That is `PayInv`. The argument hangs on
  `create_checkpoint` reading the clock after the snapshots' commits: with the
  cycle's own `now` as the end (`CreateCheckpointAtCycleTime`) snapshots at
  the end are paid twice. `PredictionsCountedOnce`, `EvidenceDurable`,
  `OnlyInterruptionsDrop`: from `CountInv`, which says at each point of a cycle what
  its in-memory lists say about the rows. `RecordsAlwaysAgree`: the chain and the
  complete leaves need `CycleInv` (between a cycle's last snapshot and its row, what is stored
  under its time is what it wrote, and every row and period is older), the spacing needs
  `SpacingInv` (no checkpoint pays for anything later than the time the process
  remembers, and the cycle that creates the next one has a snapshot to show for the
  interval in between; a restart forgets that time and takes it from the row again).
  `PipelineImplementsLedger`: in a state with these invariants a prediction's number of
  snapshots and of payments is 0 or 1, so that a step changes a row of the ledger by
  setting a flag or not at all (`FlagsOnly`). That no step scores and counts at once, and that
  nothing is taken back, is shown action by action (`LedgerStep`).
- `Checkpoints_proofs`, the race. `NoCreatorPaysTwice` from `RaceInv` (the periods of one
  creator do not overlap, as its start is an end that is at least its own last
  one), and `OnlyLateAreSkipped` from `NoGap` and `CoverInv`: below
  the greatest end there is no time outside every period, so a snapshot
  behind it unrewarded was not there when a creator looked.
- `Checkpoints_proofs`, the rows. `PredecessorsFirst` and `RootStays` from
  `LifecycleInv`, for any interleaving: a copy's status follows one the row has
  had, and a commit writes the status and the hash only (`Merged`). `StatusAdvances` and
  `ConfirmedStaysAlone` from `AloneInv`: while no two requests on a checkpoint overlap, the
  one in progress has the row as it was.
- `Feeds_proofs`, `Backfill`. `OneJobPerClient` from `ClientInv` (a thread that passed the
  check accounts for at most one active job, counted by an injection), `FilesGrowOnly`,
  and `CompletedLeavesNothing` from `IInv`: what lies between a job's start and its
  task's cursor is in the files or on a torn day, and the page in hand has all
  records up to the next cursor. `CursorTells` needs besides that the counts, the row's and
  the task's, are the number of records behind the respective cursor (`WrittenInv`);
  pages do not overlap, as a cursor moves past the last record of its page.
- `Trading_proofs`. `TypeCorrect`, `CapsHold`, `FeesAccounted`, `SavedHolds` from `IInv`:
  an account is sound by itself (`AccountsSound`), which needs that an order's
  executed size fits both rooms, and that one which fails leaves its fee and nothing else, and the table is sound or behind on dirty models
  only (`SaveInv`). A portfolio's size is the cardinality of a set of units, so that the
  prover can bound it without recursion. `TargetsApproached` is the action
  property.
- `PredictWorker_proofs`. One invariant per theorem beside `TypeCorrect`, which needs
  that what start-up loads fits the window (`LoadedFits`: the k-th record loaded has k
  records up to it). `ReferencesExist` from `RefInv`: a known model is registered or
  waits to be, and a batch is saved either with none waiting or with a session that
  can no longer save. `CallsAreSaved` from `RunInv`: what a call asked for is in the
  table, in its tick's hands, or of a torn tick. `IntervalsKept` from `SchedInv`.
  `InputsReadable` from `InputInv`, which says why two sinks that do not know of each
  other agree: while the session works, window and record in hand are stored, and without
  it no input is saved. With a sink that recovers by itself (`SinkRecovers`) the
  theorem would be false.
- `Tournament_proofs`, for any rounds, models, requests and wildcards. `RunnersAgree` from
  `RunnerInv`: service and kernel have the same runner once it is initialized, and unless
  first requests overlap or a start fails only one of them awaits its start.
  `ScoredAreCountedOnce` from `CountInv`, symmetric in the two processes that score: what
  one holds is not counted yet or is shared with the other; a row that is `SCORED` and in
  nobody's hands has been counted, or its holder failed. `ScoredAgainstOwnTruth` from
  `RequestInv` (a request saves each sample once, and only after it called its models) and
  `TruthInv`: requests may overlap, but a scoring runs when none is saving, so what it finds
  of a request that answered every sample is all of a model's predictions or, once another
  scored them, none, and position among those found is position in the round. Where some are
  missing, because they failed, the score-worker found them (`taken`) or a scoring left some
  (`broken`), the others move forward and never back (`PositionOfSibling`). Only what one scoring
  finds of two requests (`mixed`) is outside: there positions mean nothing, as listed below.
- `Feeds_proofs`, `PolledFeed`, for any subjects, page size, candle length, span and retention.
  `NoUnexplainedHole` from `FeedInv`: `stored \cup passed` only grows (what retention
  removes is passed), so it is enough that whatever the provider had when a subject was last
  asked for is covered, or in hand (`Known`, `ListenInv`), and that a watermark is
  never ahead of what is still to come (`LookedPast`, `MarkInv`). Once the session has failed
  nothing is stored, but no watermark moves either. The answer to a full page is the
  hard case: what lies between the watermark and its last record is on it (`PageFull`).
  `FeedsShownWell` from `MarkInv`; both are `WatermarksAlwaysTell`. With candles longer than
  two times the proof failed at first, because a price that comes after a poll may belong to a
  candle that began before it and is never stored: it is overtaken by its time of publication.

- `Feeds_proofs`, `MongoFeed`, for any collection, order of times, batches and failures:
  `MongoSpecExactlyDelivered`. For the poll (`PollInv`), what is past the watermark has not
  gone to the sink, what is behind it has unless it came late, and of its own time exactly what
  is remembered (`Sides`); a batch in hand has no gap (`NoGap`). What is remembered or in hand
  is among the first of its time, as many as the greatest batch takes (`FirstOfTheirTime`), so
  that with the assumption `MaxBatch < MaxSeenIds`, which the code's 10 000 and 50 000 satisfy,
  the set never fills and `$gt` is never used: the proof is also why the way out of a full
  batch is not taken. For the stream a document is in one place (`Placed`): delivered, in the
  queue, at the thread, or lost.
- `Rewards_proofs`, `Emission`. `EmissionSpecSumIsWhole`: the rewards sum to the whole
  under both strategies, whatever the metrics, weights and floor, as the first model takes
  what rounding leaves. `EmissionSpecKeepsOrder`: a better model is paid no less, whatever the number of
  models, the metrics and the floor, but for the first, which may fall behind by half a unit
  for each model. For floor and second normalisation keep the order of any two shares
  (`FlooredKeeps`, `BlendShares`), rounding does too, and the difference the first one takes is at
  most half a unit for each share that was rounded (`BlendUpToRounding`). `EmissionSpecFirstInOrder`:
  the first does not fall behind either while it is far enough ahead (`LeadCoversRounding`). Under the
  tiers that is so for up to 100 000 000 models (`MostModels`); with five times as many the
  rounding may exceed the 25 percent the first is ahead. Under the blend the inverse ranks put
  the first at least half their spread above the rest, whatever the ranks and metrics
  (`RanksFall`, `FlooredSpreads`); the floor may take half of the rank's weight from that,
  and n roundings the rest (`BlendKeepsApart`): up to 25 models with the code's weights of
  0.5, 0.3, 0.2 and floor of 1 percent. The bound is sufficient, not exact; that there is one
  is listed below, with the blend's floor.
- `Rewards_proofs`, sums. The library's induction theorems take an operator and cannot be
  instantiated, but a set of numbers with 0 and all successors is all of them (`Induct`), and
  what holds of the empty set, and of a set when of its rest, holds of all subsets
  (`OverSubsets`). So the recursive functions are shown to exist (`Recursion`, `SumsExist`)
  and to add up. What carries the rest is `SumsKeepSign`: if every `f1[x]` is at least `y` times
  `f2[x]`, so is the sum, and strictly if one is; an average is the case of ones.
- `Rewards_proofs`, `Ranking`, for any models, scores, windows, keys, directions and cycles,
  from `RankingInv`. `RankingSpecPredictionsWeighEqually`: weighting the snapshots' averages by
  their prediction counts gives the average over the predictions (`WeightedAverageIs`),
  whatever other values a fraction could be written with (`BetterIsOfValues`).
  `RankingSpecUniformlyBetterLeads` needs that the board is a ranking of the snapshots that are
  there until the next cycle begins (`BoardRanks`, `BoardStays`) and that an average of what is
  better is better (`AverageIsBetter`). Dividing a window's sum by all of a model's snapshots
  (`WindowAverageOverAll`) breaks that lemma, and the theorem.
- `Rewards_proofs`, `Ensembles`, for any members, values, ensembles, cycles and faults:
  `EnsemblesSpecFollowMembers` from `EnsembleInv`. Both weightings are positive (`WeightIs`: a
  sum of squares is never negative, and a variance of zero is weighed as 1), so that the weights of
  the members who answered do not sum to 0 and the average lies between two of their
  values (`AverageLiesBetween`); later cycles take no member's value back (`MiddleStays`). A
  score that is not of its row's value is of the batch in hand, saved and not yet scored, or
  a fault cut that batch short (`ScoresFollow`); a batch is counted after all of it is
  saved (`Saves`), so that a snapshot counts rows that exist (`CountsHold`).
- `Published_proofs`, `MerkleTree`, for any number of models, cycles, failed commits and
  rewritten snapshots. `MerkleSpecRootsBindCycles` and `MerkleSpecChangeIsSeen` from
  `MerkleInv`, the latter also from `ZonesKept`: what is committed has its zone and what is
  shown has not, so the script's hash is never a leaf's. The tree: widths halve and reach 1 (`WidthsShrink`, `HeightIs`), so that a row
  below the root has one parent and a saved sibling (`HasParent`, `SiblingIs`), and folding the
  path of a leaf gives the hash of the row it ends at (`FoldedIs`, `ClimbEnds`,
  `PathLeads`). The contents of two levels differ in depth (`LevelsDiffer`), so no other row has the
  root's hash and a proof that ends below the root is not taken for one. The tables: what
  a tree has saved is a beginning of it in the order of saving (`SavedInOrder`), what is
  unsaved is the rest of the newest, so that the row which is saved last is the root's
  (`RootLast`), which is why a checkpoint's root is stored only over a whole tree. Each cycle's
  and each checkpoint's rows are those of a tree over its leaves (`CyclesKept`,
  `CheckpointsKept`); no later commit reaches them, as their names and times are past
  (`Named`, `Times`). Injective hashes are the one assumption about SHA-256.
- `Published_proofs`, `Backtest`, for any records, prices, outputs, periods, pages and failed or torn
  downloads. `BacktestSpecReplayIsSound` from `BacktestInv`. The files: one that can be read
  holds records of the coordinator, which never takes one back; what a run that pulls was promised
  is of a day still to be fetched, or in that day's file (`Promised`), since it began with no
  file and nothing is written twice. The replay: records in order rise (`InOrderIs`); the
  loop's variable stays where it was or moves to the position it is at, so that two positions
  predicted at are an interval apart (`LastPredictedIs`, `PredictedIs`); a slice that ends at a
  position holds nothing after it and misses nothing in between (`WindowIs`); records at the
  horizon lie behind the position, so that the first of them is the first of all (`ActualIs`);
  windows of metrics that end together nest (`MetricsAre`).

`OneJobPerClient`, `EvidenceDurable`, the `TypeCorrect`s and the `AlwaysTyped`s are theorems
of definitions no run lists: they hold for every value of the constants already.

Only model-checked:

- `ReportsAgree`. The views round what is already rounded, which agrees with rounding once
  for the sizes of a checkpoint only, and they are written with operators that take operators
  (pages, sorted rows), which the provers cannot expand.
- Liveness (`EventuallyScored`, `TasksEnd`, `Arrives`), which is out of the prover's reach
  as is `ENABLED`.

## Abstractions

Scores and profits are left out where no property is about them, and prices but for whether
they are zero in `Trading`; in `PredictWorker` the configurations differ in `scope_key`, on
which the ids of predictions rest; in `Ranking`,
`Ensembles` and `Backtest` they are small integers and exact fractions, in `Emission` units
of 10^-9. Ids are the rows themselves, but in `MerkleTree` and `Tournament`, where two saves
within one second meet in one row. Hashes are injective. A database call is atomic, and
either commits or leaves the session in pending rollback. `CheckpointRace`, `Ranking`,
`Emission`, `Ensembles` and `MerkleTree` repeat parts of `ScoreCycle` at another grain
instead of composing with it, and `PolledFeed` repeats the repository's sink of
`PredictWorker`: the products would have no property that the parts do not have.

## What disagrees with the documentation

With a run:

- `score_lost_to_error`: predictions scored before one that raises, in the same cycle, are
  `SCORED` and in no snapshot.
- `checkpoint_ignores_key`: the default ranking key names a leaderboard window that no
  summary has; models are paid in the order of their first rows.
- `carry_charged_again`: after a restart the next mark charges a position's carry
  since its opening again.
- `feed_recovery`: the reader's recovery from the provider gives up wherever an event loop
  runs, and every worker runs one.

Without one, the score cycle and what follows it:

- `docs/data-pipeline.md` shows `PENDING --> FAILED: scoring error`; the code leaves
  the prediction `PENDING` and the exception interrupts the cycle, then the next.
- `docs/merkle.md` says the root commits to all scores of the period; a swallowed
  Merkle failure leaves rewarded snapshots outside it.
- Checkpoints are attempted only by cycles that produced snapshots: when predictions
  stop, the last snapshots wait.
- `docs/data-pipeline.md:105` has a checkpoint read "all snapshots since the last checkpoint",
  and the comment at `services/checkpoint.py:61` the first one start at the "beginning of
  time"; the code (line 64) starts it one interval back. A snapshot older than that, because
  attempts failed or a cycle took longer, is passed over for good: the exception in
  `NothingSkipped` and `OnlyLateSkipped`.
- The blend's floor is divided by the second normalisation, so a share may end
  below it (`extensions/emission_strategies.py:107`).
  The rounding of all goes to the first model even when it is at the floor: with the default
  weights and 98 models, the first two without contribution and with correlation 1, the
  others with contribution 1 and correlation 0, the first gets 9 947 488 and the second, with
  the same metrics, 9 947 493. `ShareOrderKept` bounds by how much: half a unit for each model.
- Two overlapping requests may take a checkpoint's status back or overwrite a
  confirmed hash (`workers/report_worker.py:1310`), and the status endpoint leads to
  `SUBMITTED` without a hash.
- Two creators that run at once pay a snapshot twice (`services/checkpoint.py:62`), or
  skip one committed between their readings.

Merkle proofs:

- `docs/merkle.md:68`: "Anyone can verify that a specific snapshot's data was included", by
  recomputing its hash from its data. `/reports/snapshots` prints times without their zone
  (`workers/report_worker.py:984`), and where the verifier says "Normalize timestamps to match
  what the coordinator hashed" (`scaffold/node/scripts/verify_merkle.py:97`) it does nothing: the
  hash it computes is never the leaf's, and every snapshot is reported as tampered with. The
  second part of `ChangeIsSeen` says so; the first says what the checks are worth to someone who adds
  the zone.
- The verifier sees the oldest thousand snapshots only.
- `merkle_root` in a proof is always null and its path ends at the cycle's tree, where
  `docs/merkle.md` goes on to the root on chain; nothing writes the `content_hash` of a
  snapshot's row (`docs/merkle.md:47`), the hash is stored on the node only.
- A tree whose nodes were not all saved still answers with a path, and a proof may name a
  checkpoint whose root was never stored.

Ensembles and reports:

- `README.md:367` describes ensembles as a matter of configuration alone; without a row for it
  among the models the first save violates the foreign key and aborts the rest of the
  cycle, in every cycle.
- Virtual predictions are computed and counted anew in every cycle and keep the
  `performed_at` of the first; their truth is the input itself; `top_n` takes the greatest metric
  whatever the ranking direction; ensembles are ranked, and paid, in checkpoints.
- A model's "latest" diversity is its oldest snapshot's; the diversity overview and the
  ensemble history read the oldest 500 rows.
- `latest/prizes` is shadowed by `{checkpoint_id}/prizes` and always answers 404.
- The global view averages over predictions, the board over snapshots, under one name;
  the prizes' sum may exceed the total by the roundings.

Backfill and backtest:

- `README.md:519` calls backfill jobs "resumable on restart"; nothing starts a task for a
  row found at start-up, nor fails one whose provider could not be set up, so the row
  stays active and `get_running` answers every later request with 409
  (`workers/report_worker.py:1748`).
- A backtest pulls only when nothing is cached: what an interrupted pull left is taken for
  the period, and a torn file stays. The first full window is passed over. The actual is the
  first record at or after the horizon, however late; production takes the last before it,
  within a bound on its age. A model that raises is scored as if it had answered 0.

Feeds:

- A poll asks for the latest record only and the start-up backfill for one page: records
  in between stay missing behind the watermark. The polling task ends for good after ten
  consecutive errors, and the worker waits on.
- A record is stored with the values it had when first polled: an open candle stays as
  it was, for later polls of the same time are skipped.
- A granularity of one second becomes Binance's one minute: with the bound on the age of a
  truth most predictions of a minute find none. A stale last record blocks scoring and
  recovery alike.
- Ticks, depth and funding ignore the period they are asked for.
- A feed window is loaded with the oldest records, not the latest
  (`FeedRecordRepository` orders ascending under a limit).
- MongoDB's change stream resumes without a token, so inserts during a reconnect and what was
  queued are not delivered; the error count is reset while the new stream is still being
  opened, so the limit of consecutive errors (`mongodb.py:541`) is not reached by it; `stop()`
  on a listener that has failed raises its error again and leaves the connection open.
- MongoDB's poll stops advancing when as many documents share one time as the greatest
  batch takes (10 000): the way out (`mongodb.py:818`) waits for 50 000 remembered ids, which
  that batch never gives.

Predict-worker, tournament and trading:

- The predict-worker never rolls its session back: after one failed commit every later
  database call of the process raises, while the models are still called. So the save of
  a model's row is not the "non-critical" step of `services/predict_components.py:50`:
  when it fails, so does the batch. A failed prune has the same effect.
- The next run of a configuration is set before anything is saved, so a
  configuration that fails costs those before it their interval
  (`services/realtime_predict.py:339`).
- A restart forgets the schedule and the latest record is delivered again: a
  configuration may be called before its interval is over (`docs/data-pipeline.md:139`).
- `services/tournament_predict.py:200` pairs a model's predictions 1:1 with the ground truth;
  the pairing is by position among those still pending, so after a failed prediction, a
  partial scoring, or when a scoring finds two requests at once, a row meets another's truth.
- In target mode the order that turns a position over is cut at the maximal size of
  one position, so a turn stops short of its target until the next signal.
- Carry between two marks is charged at the size the position has afterwards, and
  dropped when it closes; a record older than the opening makes a negative span.
- The fee is charged before an entry price of zero is refused (`simulator.py:63`, `:159`): the
  order fails in each signal that would close the position, and each time its fee stays
  without a trade. It is not saved with the failure (`sink.py:99`), so a restart forgets it unless a
  later order of the model was saved.

## Not modelled

- Metrics: statistics over floating-point lists, and timers. No other part reads them.
- Authentication, plug-in routers, configuration, the command line and migrations: they
  act at start-up or compare a key, and keep no state of the pipeline.
- Of the report-worker's reads: schemas, timing and backfill progress. Of the providers:
  parsing of payloads, discovery of subjects, MongoDB's fetch of a range. Of the backtest: the
  registry's metrics and the display. Of the trading pack: profits, and
  prices other than zero.
- Checkpoints that wait because no later cycle has snapshots are a listed hazard without
  a property: the code has no other trigger to state one about.

## Plan

What is left, in the order of what it would say:

1. `Reports`: the views of rewards, which join two lists by position, separately from those
   that page and sort.
