# Verification of the power-market data platform

TLA+ models of the platform's stateful parts, TLC runs that check them on small
instances, and TLAPS proofs of their safety properties for instances of
any size: the commit protocol and the abstract warehouse it implements, the facts,
the backfill, the adapter and the benchmark. Paths below are relative to the repository root (`src/power_market_data/...` is the Python package).

## 1. Inventory

### Parts, state, operations

| Part | State | Operations that change it |
| --- | --- | --- |
| Write planner, `warehouse/model.py` | none | pure: `batch_rows`, `plan_write` |
| Commit protocol, `warehouse/bigquery.py`, `warehouse/sql.py` | BigQuery: `warehouse_control` (sequence, active run), `ingestion_runs`, `*_contents`, `*_state_transitions`; the jobs behind the stable begin and commit IDs | `begin`, `reconcile`, `persist`, `fail` |
| Ingestion coordinator, `ingestion.py`, `cli.py` | its own control point | `ingest`, `warehouse resume` |
| Bootstrap, `bigquery.py`, `warehouse/schema.py` | dataset, tables, the seeded control row | `bootstrap` (idempotent set-up) |
| dbt project, `dbt/models`, `dbt/tests` | the two incremental fact tables | `dbt build`, run by `orchestration/operations.py` |
| Backfill, `orchestration/` | the workflow process's position and results | `expand`, `execute_unit`, the task graph, `verify`, the report |
| CAISO adapter, `sources/caiso.py` | the records of the answer read so far | `fetch_lmp`, `fetch_load` and their normalizers |
| Domain records, `domain.py`, `identity.py`, `time.py` | none | pure: record validation, keys, content hashes, canonical times and decimals |
| Battery model and backtest, `optimization/`, `backtesting/` | the inputs, the day at work, the metrics so far | `run`, `read_prices`, `backtest_daily`, `solve_battery_dispatch`, `validate_dispatch` |

### Interactions

A CLI command or a workflow task calls `ingest()`, which binds a caller-chosen
run ID to a request (`begin`), fetches, reads one snapshot, plans the rows to
add, and submits a commit script under a job ID derived from the run ID. The
commit script asserts that the run is STARTED, that the sequence is the one the
plan was made from and that no other commit awaits finalization, then writes
the rows and takes the gate (`active_run_id`). The end time of that job becomes
the run's knowledge time: `reconcile` reads it and a finalization script stamps
the rows, marks the run SUCCEEDED and releases the gate. dbt reads only rows of
SUCCEEDED runs and merges them into the facts by a commit-sequence watermark.
The backfill runs units one after the other, then dbt, then checks the facts
against the units' manifests.

The adapter turns gridstatus rows in Pacific wall-clock time into UTC
observations, checks them against the request, and hands them to `ingest()`;
`batch_rows` checks the batch again before it is planned. The input mart projects
the LMP facts. The benchmark reads it (or a file), checks that every day of the
range is complete, has each day solved, and accepts a solution only after its own
recomputation.

The processes share nothing but the BigQuery tables and job IDs; there are no
locks, leases or heartbeats. What is hard is therefore:

* invocations of different runs, and of the same run, interleaved between any
  two service calls, with plans made from snapshots that have become stale;
* callers that die, and calls that fail although they took effect;
* jobs that outlive their callers, are aborted, or are forgotten by the service;
* knowledge times published late, by another process than the one that wrote;
* an incremental watermark over rows that become readable after they are written;
* a dbt process killed while its MERGE runs on;
* a workflow's classification of errors into retry, stop and resume;
* days of 23 and 25 hours, of which the adapter, the warehouse, dbt and the
  benchmark each have a notion of their own;
* numbers that are hashed as text and stored as NUMERIC;
* a solver that is not trusted, checked with tolerances that add up.

The correctness properties of each part are the ones listed per run below; the
list of hazards, each at its line, is in `PROJECT.json`.

## 2. Modules

```
RevisionTables          tables, plan_write, the MERGEs, the stamping
  |-- AtomicWarehouse   what the raw warehouse promises (abstract)
  |     `-- Analytics   dbt: views, incremental facts, tests
  `-- Warehouse         the commit protocol; implements AtomicWarehouse
        `-- Backfill    the orchestration on top of it

PacificTime             wall clock and UTC, days of every length
Decimals                decimal_text, numeric
  `-- CaisoSource       the adapter, batch_rows, the input mart (both of the above)
Battery                 BatteryConfig, validate_dispatch
  `-- Backtest          the benchmark, on CaisoSource and Battery

AtomicWarehouseProofs   the invariant of the abstract warehouse
  |-- AnalyticsProofs   the facts, on top of it
  `-- RefinementProofs  the protocol implements it; instantiates the module above
WarehouseProofs         the invariant of the protocol
  `-- RefinementProofs
        `-- BackfillProofs  the orchestration
SourceProofs            wall times, the adapter, the mart
  `-- BacktestProofs    the benchmark's accounting
        `-- InputsProofs    its inputs
```

`MCWarehouse`, `MCAnalytics`, `MCBackfill` and `MCBacktest` give the instances
their request layouts, rows and symmetry sets.

**RevisionTables.** The content and the transition tables as sets of rows with
opaque keys and values. A value stands for a content hash (SHA-256 is taken as
injective). `PlanWrite` is `plan_write`; `MergeContents` and `MergeTransitions`
are the insert-only MERGEs of the commit script, with their ON conditions;
`StampContents` and `StampTransitions` are the UPDATEs of finalization. The LMP
and load tables are one set of rows: their keys are disjoint and the code treats
them alike.

**Warehouse.** One variable per table or job table and one for the clients. A
client is one invocation and whatever request of its is in flight; its `pc` is
the next service call:

| Label | Action | Code |
| --- | --- | --- |
| idle | `StartIngest`, `StartResume` | `begin()` submits, `warehouse resume` |
| begin | `AwaitBegin` | `begin()` waits and reads the manifest back |
| read | `ReadManifest` | `reconcile()` reads the manifest |
| lookup | `LookupJob` | `reconcile()` gets the commit job |
| fetch | `Fetch` | `ingest()` calls the source |
| snapshot | `TakeSnapshot` | `persist()` reads a snapshot and plans |
| submit | `SubmitCommit` | `persist()` submits, then reconciles |
| wait | `AwaitCommit` | `reconcile()` waits for the job |
| fail | `RecordFailure` | `fail()` and its guarded script |
| finalize | `Finalize` | the finalization script |

`stage` records which of the calls of `reconcile()` this is: `ingest()` makes one
before fetching, `persist()` one before planning and one after submitting.
Server actions run the jobs: `RunBegin`, `RunCommit` (all three assertions, or
the abort), `EndCommit` (the job's end, later than its transaction), `ExpireJob`.
`Abandon` is a dead caller, a timeout or a lost answer at any point. The set
`Faults` selects what the service may do to a job: `abort` its transaction;
`late_error`, report an error for a durable transaction; `expire` its metadata.

External assumption: every script first updates the single control row inside
its transaction, so BigQuery's snapshot isolation makes any two of them conflict
and each takes effect atomically or aborts. The scripts are therefore single
steps. Their statement order inside a transaction is not observable.

**AtomicWarehouse.** Each batch is planned from the current tables and written
in one step (`Accept`), then published (`Publish`) before the next is accepted.
`Warehouse!ImplementsAtomicWarehouse` is the refinement; `AcceptedRuns` maps the
manifests, the tables, the sequence and the clock map to themselves.

**Analytics.** Extends AtomicWarehouse, which the refinement run justifies. The
staging and history views are operators (`EligibleTransitions`,
`RevisionHistory`), a merge model is two jobs (`SelectCandidates`,
`MergeCandidates`), a first build and `--full-refresh` one (`CreateFacts`).
`KillBuild` is the 900 s timeout or a dead process; its MERGE may land later
(`LateMerge`). `build_dbt` looks at no earlier job. That an operator inspects the
jobs of a killed build before starting another is what its error message and
`docs/contracts/orchestration.md` demand: it is a definition of its own, external to the
code (`Inspected`), which `StartBuild` requires. `FactsNeverRegress` rests on it,
as the mutant `Uninspected` shows: the code alone does not rule out that the merge
of a killed build lands on top of a later one.

**Backfill.** Extends Warehouse: flow `c` is a workflow process that calls
`ingest()` as client `c`. `Expand` is `expand()`, `ReadPrior` / `CallIngest` /
`IngestStep` / `ReadState` are `execute_unit()`, `Again` is the one automatic
retry of a `RetryableIngestionError`, `Interrupt` an error of a service call,
`Crash` the death of the process. A dbt build is the promise Analytics checks: a
passed one leaves a fact for every key of a SUCCEEDED run. The task runner
(Flyte's local execution) is external and modelled from how the graph uses it.

**PacificTime.** Instants are ticks of a UTC shifted by the standard offset. The
zone data are a constant: whether daylight time is in force when each day begins;
the clock is changed at `SwitchHour`. `Local`, `Offset` and `ToUtc` are the
library's conversions with Python's `fold` (external); `AcceptsWallTime` is
`as_utc`, `Midnight` is `Request.bounds` and `_day_bounds`.

**Decimals.** A Python `Decimal` is a sign, a coefficient and an exponent; a text is
its whole part, its number of places and the digits after the point, as numbers.
`Fixed` is `format(value, "f")`, `Stripped` the removal of trailing zeros.

**CaisoSource.** `StartFetch`, then one `ReadRow` per row of the answer, then
`EndRows` (the comparison with the request) and `PersistRows` (`batch_rows` and
`numeric`). What gridstatus answers is revealed row by row, so any sequence of the
rows in `FrameRow`, repeated or not, is an answer. `ValidRow` is what `_times`,
`_number`, the normalizer and the record's `__post_init__` demand; the first row that
fails ends the fetch. The four price components are one number. A persisted LMP batch
appears in the mart at once: what happens in between is the subject of Warehouse
and Analytics. Rows of the mart have no price; the benchmark's money is left out.
`MartIsValid` and `SummaryIsValid` are the row, grain and count conditions of the
marts' dbt tests.

**Battery, Backtest.** `ReadInputs` is `run()` up to the inputs, `CheckInputs` the
validation of all days before the first solve, then `StartDay`, one `DispatchHour`
per interval and `EndDay` for each day, and `Report`. The solver may return any
numbers of `Power` and `Level`; they are revealed as `validate_dispatch` reads them.
Powers, energies and the tolerance are integers, efficiencies are fractions, and both
sides of the balance are multiplied by the denominators. The sums of the metrics are
accumulators. A day has an interval for each of its accepted rows (`Horizon`), not for
each hour of its calendar: that these are as many is what `Continuous` checks and
what `ActivityAddsUp` depends on. Every refusal discards the whole benchmark, as the exception does.

## 3. Runs

| Run | Instance | Shows |
| --- | --- | --- |
| race | 2 runs, 2 clients, 2 requests with a key each, 2 values, abort and late_error | the gate, row ownership, total commit order, one chain per key, knowledge order, plan freshness, the inductive invariant; the protocol implements AtomicWarehouse |
| history | 3 runs, 1 client, 2 keys, 2 values, abort | transitions reconstruct every accepted batch, each joins to one content row, the manifest's counts are the rows added |
| expiry | 1 run, 2 clients, 2 requests, all faults | a run ID stays bound, a terminal outcome stays and history is append-only, although job IDs can be used twice |
| live | 2 runs, 1 client, abort | the gate is released, submitted runs resolve |
| facts | 3 runs, 2 keys, 2 values, 1 product | the facts are always a cut of history, known, complete and never regress; quiet builds pass |
| catchup | 2 runs, 2 products | the facts catch up |
| backfill | 1 process, 4 runs, abort; two days of both products with dbt, the load of the same days without, and one rejected plan | complete reports, fail-fast, rows counted once, verification agrees with dbt |
| overlap | 2 processes, one two-day plan | reports stay complete and units start in order when workflows overlap |
| completion | 1 process, one two-day plan, abort and late_error | a resubmitted backfill is reported, or one of its units is FAILED, pinned by an aborted begin job or misreported by its commit job |
| backtest | days of 2, 3, 1 and 2 hours, 2 hubs, 18 source rows, 7 file rows, 132 decimals, ranges of at most 2 days | conversions of times and numbers are exact, adapter and warehouse agree, inputs tile the days, activity adds up, energy is conserved |
| relabel | 1 run, 2 clients | expected violation, finding 1 |
| pin | 1 run, 1 client | expected violation, finding 2 |

Bounds. Nothing counts invocations: a client that is done starts again, so
retries and resumes are unlimited in every run. The clock is bounded by the number
of commit jobs in Warehouse (each end adds at most 1; `expire` is used with one
run, and commits at most once) and by `MaxClock` in Analytics. Two runs and two
clients give every pairwise race (different runs, same run); a stale plan needs
two runs, the sequence A, B, A three runs over one key, partial batches a second
key. Three runs with two clients are out of reach in five minutes, so `history`
takes its three runs with one client: what it adds over `race` is data, not
interleaving, and the refinement ties the two together. `overlap` has no
faults for the same reason; `backfill` has them with one process. The slice that
`verify()` queries takes two days and both products to go wrong, so `backfill` has a plan
of both; with `SliceFirstDay`, the first unit's day alone, `VerificationAgrees` fails.

In `backtest` a day has two hours, the day the clock is set back three, the day it
is set forward one; day lengths matter relative to each other and to `SwitchHour`
only, and the conditions speak about one row and one day at a time. The source
rows are all hours of the two unusual days, load slots, an hour of another day and
one of another hub, and rows that are wrong in one way each (label, market,
location, number, alignment, a skipped wall time, a negative load, a number NUMERIC
cannot hold). The file has each hour of a day twice under different keys, one
under the key of another row, a wrong date, an unaligned hour, another hub. The
decimals have up to four digits and exponents from -3 to 2, with NUMERIC(3,1) for
NUMERIC(38,9), so that both limits are crossed from both sides. The tolerance is one
unit and the power limits are one unit, so tolerated and real flows both occur and
several tolerances can exceed a limit; the longest horizon is four hours on two days.
`WallTimesRoundTrip` and `EncodingIsCanonical` are evaluated when a fetch begins and
compare the conversions with a reference definition on all inputs of the instance.

`SYMMETRY` permutes runs, clients and values only where no property is temporal
with fairness.

### Findings

1. `relabel`: `ingest()` records FAILED when its fetch fails, on the strength of
   a job lookup made before the fetch. Another invocation of the run may have
   submitted the commit in between, so the run is relabelled FAILED with its commit
   job in flight, which `docs/contracts/warehouse.md:63-64` rules out.
   `OnlyCommittedRunsOwnRows` shows that the data stay consistent: the commit
   script then finds the run not STARTED.
2. `pin`: a begin job that was aborted keeps its stable ID, and every retry with
   the same run ID reattaches to it, although
   `docs/contracts/orchestration.md:69` calls the same-ID retry safe there. The
   code avoids this very effect for `fail()` (`bigquery.py:256-257`).

### Remarks from modelling

* The gate assertion of the commit script is implied by the sequence assertion: a
  plan whose sequence is current was made with a free gate (`FreshPlan`), and a
  gate is only taken together with a new sequence.
* If the service reports an error for a durable commit (`late_error`), `fail()`
  is a guarded no-op and the gate stays taken until somebody edits the tables.
  Safety holds (race). `live` leaves that fault out, because a gate that is never
  released is its effect; `completion` includes it and names the unit (`Misreported`).
* A backfill is not always completed by resubmitting it. `BackfillCompletes` names the
  only three ways in which it is not: a unit is FAILED for good, its begin job was
  aborted and pins its run ID (`Pinned`, finding 2), or its commit was misreported.
  Without any one of the three the property is violated.
* `NewRowsCountedOnce` holds while workflows of one backfill ID do not overlap.
  Two that overlap may both see no prior manifest and both report the rows as new;
  the documentation advises against it and nothing in the code prevents it.
* `batch_rows` tests the end of an interval and the adapter its alignment; because
  days begin on whole hours, `FetchedBatchesFit` makes the end test redundant. The
  only batch of a successful fetch that is refused has a number beyond NUMERIC.
* The uniqueness test of the benchmark's inputs is on logical keys, which a file can
  choose; that an hour occurs once follows from the row count and the consecutive
  starts alone (`InputsTileTheDays`).
* A reconciliation test can fail because ingestion published during the build.
  `QuietBuildsPass` shows that this is the only reason it can.

## 4. Fairness

* `ServerFairness`: BigQuery runs a submitted job to an end. Weak fairness.
* `ClientFairness`: a live process takes its next step: the code is sequential
  and every call has a timeout. Weak fairness.
* `InterruptionsCease`: from some point on calls are not interrupted. Without it
  every attempt may be killed and nothing can be promised.
* `OperatorFairness`: a run with a commit job and no terminal status is resumed
  again and again, as the error messages ("resume run ...") request. Strong
  fairness: the only client may be busy with something else infinitely often.
* `RetryFairness` (run pin): the same request is repeated under the same run ID,
  which is what the orchestration's retry and resubmission do.
* `Analytics!FairSpec`: builds are started repeatedly (the workflow ends in one),
  run their jobs, and at some point are no longer killed.
* `FairBackfillSpec`: server and live processes as above, the operator resubmits
  the plan with the same ID, and trouble ceases.

## 5. Proofs

Every theorem holds for all sets of runs, clients, requests, keys and values, every
calendar, frame, file and battery, under the assumptions on constants below. TLC
evaluates each assumption, and checks each stated property, on the runs of section 3.

| Assumption | Says | Justified by |
| --- | --- | --- |
| `NullAssumption` | NULL is not a number | SQL |
| `ConstantsAssumption` | NULL is not a run; a request has finitely many keys | a batch is a Python list |
| `AnalyticsAssumption` | a key belongs to one product; `MaxClock` is a number | the LMP and load keys are disjoint |
| `BackfillAssumption` | requests are a product, a day and a hub; a request determines its run ID and conversely; hubs are ordered | `run_id_for` hashes the request, SHA-256 is taken as injective |
| `PlansAreRequests` | a valid plan expands to at least one request of the instance | `Plan` refuses empty ranges |
| `PlansAscend` | a valid plan's units are in the order of their days | the loop of `expand()` |
| `TimeAssumption` | a day is a whole number of hours, the clock is at most one hour ahead and is changed between two hours of a day | the zone data of `America/Los_Angeles` |
| `DecimalAssumption` | scales are within the precision | `numeric` |
| `SourceAssumption` | slots divide the hour; the row limit admits the longest day | the constants of `model.py` and `caiso.py` |
| `BacktestAssumption` | the file is finite; the initial level is the terminal one | `backtest_daily` refuses anything else |
| `BatteryAssumption` | what `BatteryConfig` validates, efficiencies as fractions | `BatteryConfig.__post_init__` |

### The commit protocol (`WarehouseProofs`)

| Theorem | Statement |
| --- | --- |
| `TypeCorrect` | `Spec => []TypeOK` |
| `ProtocolCorrect` | `Spec => []ProtocolInvariant` |
| `GateCorrect` | `Spec => []GateMarksUnfinalizedRun` |
| `OwnershipCorrect` | `Spec => []OnlyCommittedRunsOwnRows` |
| `PlansCorrect` | `Spec => []PlansAreFreshOrRefused` |
| `ChainCorrect` | `Spec => []HistoryIsAChain` |
| `AppendOnly` | `Spec => HistoryIsAppendOnly` |

The inductive invariant is `Inv == TypeOK /\ ProtocolInvariant`; run race checks
it. `HistoryIsAChain` alone is not inductive: a commit writes whatever its plan
says, so the plans in flight must be described. `PlansAreFreshOrRefused` says that
a plan that can still pass the sequence assertion is what `plan_write` would
compute now; it survives another run's commit because that raises the sequence, and
finalization because with the sequence current the gate is free, so there is nothing to
finalize. `PlansAreWellFormed` gives what a refused plan still needs (one row per
key, owned by its run). `OnlyCommittedRunsOwnRows` makes the MERGEs of a STARTED
run insert all their rows. `HistoryHasLatest` gives each key a row of highest
ordinal, without which the next ordinal would be arbitrary; `ClientsAreBound`
ties a client at work to a run and a request.

`StepKinds` reduces every step to a commit, a finalization or one that leaves the
tables alone; `CommitFacts`, `CommitRows`, `FinalizeFacts`, `FinalizeRows` and
`FlightStep` say what each does, and each conjunct of the invariant has one
lemma (`GateStep`, `OwnershipStep`, `WellFormedStep`, `FreshStep`, `LatestStep`,
`ChainStep`).

### The abstract warehouse and the refinement (`AtomicWarehouseProofs`, `RefinementProofs`)

| Theorem | Statement |
| --- | --- |
| `RawCorrect` | `RawSpec => []RawInv` |
| `Linearizable` | `Spec => ImplementsAtomicWarehouse` |
| `SequencesCorrect` | `Spec => []CommitSequencesAreTotal` |
| `KnowledgeCorrect` | `Spec => []KnowledgeFollowsCommitOrder` |
| `HistoryCorrect` | `Spec => []HistoryReconstructsBatches` |
| `ContentsCorrect` | `Spec => []TransitionsHaveOneContent` |
| `BindingCorrect` | `Spec => BindingIsPermanent` |
| `CountsCorrect` | `Spec => []CountsDescribeRows` |

Most properties of the history are proved where they are simple, about the abstract
warehouse, and carried over. `RawInv` consists of the gate and the total order of
sequences (`GateIsSound`, `SequencesAreTotal`), of `ContentsMatch` (a transition has
exactly one content row with its hash), `KnowledgeIsOrdered` (rows of a published run
carry its knowledge time, and times follow the sequence), `StatesAreOrdered` and
`StatesHaveLatest` (ordinals of a key grow with the sequence, and there is a highest
one), and `BatchesAreReconstructed`: as of any accepted run's sequence the latest state of
each of its keys is the accepted value. That one is inductive because a key whose
value did not change is not written, and then its latest state is the value already.

A step of the protocol maps to one of the abstract warehouse: a commit transaction to
`Accept`, a finalization to `Publish`, the end of a commit job to `Tick`, anything
else to a stutter. `Accept` plans from the current tables although the protocol's
plan is older; `PlansAreFreshOrRefused` closes that gap. `Publish` demands that the
time it stamps does not precede a published one. The protocol stamps the end time a
client has read earlier, possibly before another run was published, so
`TimesAreOrdered` is needed on top of `Inv`: a run is SUCCEEDED exactly if it has a
knowledge time, every published time is at most the end time of the job of the
COMMITTED run, and a client at `finalize` holds the end time of its run's job.
With the refinement, `RawInv` holds of the mapped state (`AtomicInvHolds`), and four of
the theorems unfold it.

`BindingIsPermanent` follows from `Inv` step by step. `CountsDescribeRows` is
about the manifest, which the abstraction does not have: the count in a parameter is
the length of a list of distinct rows, and the MERGEs insert all of them because a
STARTED run owns none.

### Facts (`AnalyticsProofs`)

| Theorem | Statement |
| --- | --- |
| `AnalyticsTypeCorrect` | `Spec => []TypeOK` |
| `FactsCutCorrect` | `Spec => []FactsAreACut` |
| `FactsKnownCorrect` | `Spec => []FactsAreKnown` |
| `HistoryCompleteCorrect` | `Spec => []HistoryIsComplete` |
| `QuietBuildsCorrect` | `Spec => []QuietBuildsPass` |
| `FactsForwardCorrect` | `Spec => FactsNeverRegress` |

The inductive invariant is `RawInv /\ TypeOK /\ MartsAreCuts /\ BuildIsSound`. That
the facts of a product are the history's latest states up to some commit survives a
merge only if its candidates were read at a cut no older than the facts'.
`BuildIsSound` says of a merge in flight (`Pending`) that applying it now would give a
cut, one that includes every run published when the build began, and that each
candidate is newer than the fact it replaces. It says so of `late`, the merge of a
killed build, too, and that no build is running then, which is where the inspection
before the next build enters.
`Frontier` is the number of runs a reader sees; the invariant counts commits up to
it, because a run that is committed and not published hides its rows and, through
the gate, is the last one. A published cut never changes (`CutsKept`), so the
invariant survives ingestion.

### Backfill (`BackfillProofs`)

| Theorem | Statement |
| --- | --- |
| `BackfillUsesProtocol` | `BackfillSpec => Spec` |
| `BackfillTypeCorrect` | `BackfillSpec => []BackfillTypeOK` |
| `ReportsCorrect` | `BackfillSpec => []ReportsAreComplete` |
| `OrderCorrect` | `BackfillSpec => []UnitsStartInOrder` |
| `VerificationCorrect` | `BackfillSpec => []VerificationAgrees` |
| `CountedOnceCorrect` | with one client, `BackfillSpec => []NewRowsCountedOnce` |

By the first theorem every theorem about `Spec` holds of the orchestration as well.
The inductive invariant is `Inv /\ BackfillTypeOK /\ ProgressIsRecorded /\
CallsAreUnits /\ WorkIsReached`: a workflow has a result for each unit before its
current one that agrees with the unit's SUCCEEDED manifest; an invocation is the
`ingest()` call of its workflow's current unit; no begin job and no manifest exist for a
unit that no plan has reached. The last one is stated of jobs as well as of
manifests, as a begin job may run after its caller died.

`NewRowsCountedOnce` is false for overlapping workflows (see the remarks), so its
theorem has the hypothesis that there is one client, `\A c, d \in Client : c = d`.
Its invariant adds `CountsAreNew`: only SUCCEEDED runs have been counted, and nothing
that a workflow in progress is going to report as new has been counted yet.

`VerificationAgrees` relates the query of `verify()`, a slice of the facts, to what the
manifests say was accepted. Its invariant `VerifyInv` adds that a call made for a run
fetches the keys of that run's unit only (`CallsKeepToUnit`), that plans and batches have
no others and a manifest's accepted count is the size of its batch (`PlansKeepToUnit`,
`RunsKeepToUnit`), and that while a workflow waits for `verify()` the facts hold what its
units accepted (`FactsHold`). The last one needs that a SUCCEEDED run is published whole
(`SucceededArePublished`): by `HistoryReconstructsBatches` and `CommitSequencesAreTotal`
the transitions as of its sequence have all its keys, and the only run whose rows could
still hide them, a COMMITTED one, has the last sequence. `PlansAscend` makes the days of
the slice those between the first and the last unit of a product (`SelectedDays`).

### Adapter and benchmark (`SourceProofs`, `BacktestProofs`, `InputsProofs`)

| Theorem | Statement |
| --- | --- |
| `RoundTripsCorrect` | on every day of every calendar, `as_utc` accepts exactly the wall times the clock showed, and conversions lose nothing |
| `WallTimesCorrect` | `Spec => []WallTimesRoundTrip` |
| `EncodingsAreExact` | `decimal_text` is exact and normal, and `numeric` accepts what NUMERIC stores unchanged |
| `EncodingsAreCanonical` | two decimals have the same text exactly if they are equal |
| `EncodingCorrect` | `Spec => []EncodingIsCanonical` |
| `FetchedFitCorrect` | `Spec => []FetchedBatchesFit` |
| `InputsCorrect` | `Spec => []InputsTileTheDays` |
| `BenchTypes` | `Spec => []TypeOK` |
| `ActivityCorrect` | `Spec => []ActivityAddsUp` |
| `EnergyCorrect` | `Spec => []EnergyIsConserved` |

`SourceInv` describes a fetch in progress (`FetchIsSound`: the records read so far
are aligned intervals of a known location, their keys differ, and before they are
persisted each has been compared with the request) and the mart (`MartIsSound`). That the batch respects
`MAX_BATCH_ROWS` is a count of instants: aligned starts of a day are at most the
number of slots in it (`StartsAreFew`, `DayHasRoom`). `InputsTileTheDays` says more:
consecutive starts, as many as the day has hours, between its midnights, are *all*
its hours; an injection from the numbers of hours onto the starts of the same
cardinality is a bijection. `InputsInv` adds to both invariants that the rows selected
for a benchmark belong to its range and hub.

The encodings are compared by `Magnitude`, the value of a text in units of the last
place. Padding and stripping keep it (`FixedFacts`, `StrippedFacts`), and a normal text is
determined by its sign and magnitude (`TextsAreUnique`): were one of two texts longer, its
last digit would be a zero (`PlacesAreLeast`). Powers of ten are the recursive function
`PowerOfTen`; that it exists and multiplies as it should is proved from the least-number
principle for sets (`LeastExists`, `AllNumbers`), which takes no operator as a parameter.

The inductive invariant of the accounting is `BenchInv`. `ActivityAddsUp` says
nothing of the hours before the report is there, so `HoursCounted` carries them: the
hours counted are those from the first midnight to the hour at work. A day adds
one for each of its accepted rows. `DaysComplete` carries from the check of the inputs,
through all days, that these are `HoursOf(day)` many, and `HoursAreExact` shows that the division in the
code's day length loses nothing on 23- and 25-hour days. `NothingCounted` gives
both sums their start. That activity adds up rests on `ValidPower` and `Active`
using the same tolerance: the two directions cannot both be above it.
`BalanceStarts`, `BalanceMoves` and `BalanceEnds` say what an accepted first
level, hour and last level do to the drift; losses are fractions, so the balance
is kept in units of `1 / Scale` and stays linear (`FlowsAdd`).

### What the proofs changed in the models

Two definitions had alternatives that overlapped (`CASE` arms of `OutcomesOf` and
`RaisedAt`); TLC takes the first, the logic any. They are disjoint now. The row limit
is assumed to be a number and the input file finite, which TLC had taken for granted.
The slice of `verify()` is stated by the least and the greatest day of a product instead of
a filtered sequence, and powers of ten by a recursive function instead of `^`; both
compute the same.

### Only model-checked

* Liveness, which is out of the prover's reach: `GateIsReleased`,
  `SubmittedRunsResolve`, `FactsCatchUp`, `BackfillCompletes`.
* The two expected violations.

## 6. Not modelled

* Dataset and table creation and the schema comparison: idempotent set-up; its
  result is `Init`.
* Byte budgets, timeouts as durations, argument parsing, output: they only decide
  whether a call raises, which `Abandon`, `Interrupt`, `FetchFails` and `SolverFails`
  cover.
* The optimiser itself (CVXPY and HiGHS): external and untrusted, so that no
  property depends on optimality. Money (gross value, throughput cost, objective) and
  price statistics: sums of floating-point products, whose recomputation only
  decides whether the result is refused. Rounding of floating-point arithmetic: the
  tolerances are modelled, errors below them are not.
* Lineage columns of the input mart, and the other columns of the summary and
  health marts: stateless projections and aggregates.
* The figure and the cost-cap regression: output and configuration, without state.

## 7. Plan

Done: all modules of section 2 and the theorems of section 5.

Next: two hubs in a Backfill instance, so that the hub order of `expand()` matters.
