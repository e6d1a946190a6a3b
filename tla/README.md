# Formal models of the football analytics pipeline

The repository is an ETL pipeline: CSV files of a vendor are landed (Bronze),
checked and turned into a star schema with a historised player dimension
(Silver), and aggregated (Gold), under an Airflow DAG and with an audit trail in
SQLite. Most of its logic is about *not doing things twice* and *saying truly
what was done*, across runs, retries, batches and kills. That logic is what is
modelled here, in TLA+, together with the rules and joins that decide which rows
reach the end of the pipeline: checked with TLC on small instances, and, but for
liveness, proved with TLAPS for every instance: the audit DAO, Bronze, Silver,
Gold, the merge of player frames, what the runner makes of it, where the rows of
Silver come from and what the tables of Gold add up to.

`PROJECT.json` is the index: components, runs, the source lines behind every
definition (`map`), the mutants that show each property can fail, the hazards
each property is for, and the theorems.

## 1. The system

### Parts, state and operations

| Part (source) | State | Operations | Hard behaviour |
|---|---|---|---|
| Audit DAO (`metadata/audit.py`, `db.py`) | `file_audit`: a row per (batch, path); `file_audit_events`: append-only log | register, mark_ingesting, record_ingestion_complete, record_quarantine, mark_transforming, record_silver_complete, record_gold_complete, mark_failed, record_schema_drift, reconcile_batch; queries for duplicates and most recent ingestions | two grains (file, source) on one table; callers in five layers; `mark_failed` from anywhere; timestamps of one second; a reconciliation that reads on one connection and writes on others |
| Layer runs (`metadata/runs.py`) | `pipeline_runs`: status per (batch, layer) | mark_started (an upsert), mark_success, mark_failed, has_succeeded | a second book about what `file_audit` is about |
| Bronze (`bronze/run.py`, `writer.py`, `ingestion/file_loader.py`) | partition directories; frames in memory | load, fingerprint, register, duplicate check, skip or clear/write, verdict | crash between any two steps, retries over old rows, the vendor replacing a file under the run |
| Bronze resolver (`bronze/resolver.py`) | none | find the partition that has a batch's data | chains of skipped duplicates; other batches change in the meantime |
| SCD2 (`silver/scd2.py`, `dimensions.py`, `facts.py`) | `dim_players` snapshots, one per batch | merge, close out, allocate keys, look up the version of a date | keys from a maximum, windows that meet, players that come and go, the union of snapshots |
| Data quality (`dq/*`, `configs/dq_rules.yaml`) | quarantine partitions, DQ reports | evaluate rules, split a frame, report, gate | lookups from raw rows, rules that fail open, sources without a pass |
| Star schema (`silver/dimensions.py`, `facts.py`, `transforms.py`) | tables of dimensions and facts | deduplicate, merge, derive, resolve `player_sk` | references into rows that were quarantined |
| Silver runner (`silver/run.py`) | clean frames, quarantine partitions, DQ reports, artifacts | lookups, DQ, quarantine, report, transforming, artifacts, finalise, verdict | a dozen `except` clauses, each after something has already happened |
| Gold (`gold/*`) | Gold partitions, `gold_row_count` | session, artifacts, lineage counts, verdict | views over all batches, joins before groupings, results without rows, retries into a directory that is not empty |
| DAG (`dags/football_pipeline.py`, `orchestration/airflow_wrappers.py`) | task states (Airflow) | bronze, silver, dq_gate, gold; one retry each; one active run | the gate against retries, re-runs and stale reports |
| Engines (`engines/pandas_engine.py`) | files | partition-level overwrite: clear, then write | failure between the two |
| Registry, manifest, config, PII | none, or static | validation and pure functions on values | – |

They interact by calls in one process (runner → writer → loader → engine, DAO),
and between processes only through the stores: the two tables of the DAO,
`pipeline_runs`, the directories of the lake and the reports. Nothing is passed
from one DAG task to the next but the batch id. This is why each layer module
has the stores as its lasting state, and a process that a kill can empty.

### What makes each part correct

* **Audit DAO**: the log accounts for the row; stages happen once, in order;
  fingerprints and counts are written once; files of a source agree on
  source-grain counts; a clean reconciliation is final.
* **Bronze**: `pipeline_runs` and `file_audit` agree; whole partitions are never
  touched again; what a successful batch landed can be read back; equal bytes
  are stored once; counts are those of the bytes; a run ends, and is decided.
* **SCD2**: surrogate keys are unique and name one version for good; one current
  version; windows do not overlap; the as-of lookup finds the right one; closed
  history is final.
* **Silver**: rows are conserved between Bronze, Silver and quarantine; bad rows
  stay out; verdict, audit, report and disk agree; transformed is terminal.
* **Data quality**: what Silver refers to and does not have is in the quarantine of
  the same batch; the report that the gate reads names what is in quarantine.
* **Gold and DAG**: a refused batch has no Gold; a success has an answer to every
  query, from the batch's own data, and the answers with rows on disk; a count is
  recorded only of what was built; no join loses or doubles a row; a DAG run ends.

## 2. Modules

```
FileLifecycle            what the DAO promises about one file
   ^ implemented by
AuditTable <- FileAudit <- MCFileAudit                proofs: FileAuditProofs
   |- BronzeLayer <- MCBronzeLayer                            BronzeLayerProofs
   |- SilverLayer <- MCSilverLayer                            SilverLayerProofs

VersionedDimension       what an SCD2 dimension promises      VersionedDimensionProofs
   ^ implemented by
Scd2 <- PlayerMerges                                          Scd2Proofs (lemmas),
   |- PlayerHistory <- MCPlayerHistory                        DimPlayersProofs (both)
   |- StarSchema <- MCStarSchema                              StarSchemaProofs
DqRules ----^
GoldArtifacts --^

GoldLayer <- MCGoldLayer                              GoldLayerProofs
```

**AuditTable** is the table as data: the statuses, `_LEGAL_TRANSITIONS`, a row,
one `With...` operator per writer (the table after its UPDATE), `CanAdvance` (the
check before it), the queries and `Findings` (the rules of reconcile_batch). It
has no variables: FileAudit, BronzeLayer and SilverLayer all use it.
NULL columns are the constant `NULL`; times are a number of seconds.

**FileAudit** is the DAO: `file_audit`, `file_audit_events` and a clock. Each
writer is one action, since each is one transaction: the UPDATE and the event
commit together. A writer that raises changes nothing and is not an action.
`reconcile_batch` is the exception: it lists the files on one connection
(`ReconcileRead`) and writes the event of each on another (`ReconcileEmit`), so
that `pending` holds the events it still owes, other calls come between, and a
call that is killed never writes the rest.
Callers are arbitrary; whoever calls and in which order, the properties hold.

**FileLifecycle** is the abstract specification: a phase for each file, moved
forward one stage at a time, per file in ingestion and for a whole source in
Silver, and `Fail` from anywhere. FileAudit implements it with
`phase` = the status of the row, or "absent".

**BronzeLayer** composes the audit table with `pipeline_runs`, the lake and the
raw directory. `pc` is the step of `write_bronze_source`/`run_bronze`: `load` and
`fingerprint` are separate because `load_source` reads the file twice;
`clear` and `write` because `write_parquet` removes the partition first. A crash
empties the process and may leave a torn partition. A registration is stamped with
the second it falls in, which may be that of the registration before, of another
batch too. `Resolve` is the resolver, with any row among those of the latest second.
File contents are their checksums with a number of rows (zero included: such a
file lands without a partition).

**Scd2** has the merge as operators on sequences of versions: `InitialLoad`,
`CloseOut`, `NewVersions`, `NextSurrogateKey`, `Historical`, `scd2_merge`,
`LookupPlayerSkAt`. The tracked columns are one attribute; the row hash is
equality of it. **PlayerMerges** is the chain of merges that the tests and the
documentation of the merge are about. **PlayerHistory** is what the runner does
with it: it merges into the union of all partitions and writes a new snapshot. A
write that fails or is killed may leave its partition `torn`; such a partition can
be read by nobody, and the next build of the dimension, of any batch, fails on it.

A filter or a join of frames is a selection of positions (`Where`), taken in the
order of the frame (`InOrder`, `Ascending`), and each part of the merge is an operator
of its own, so that lemmas can be about it. PlayerMerges has no name in common
with PlayerHistory, because the same proofs are about both.

**VersionedDimension** is the abstract dimension: a set of versions, of which a
batch closes the changed ones, keeps the unchanged ones and opens one, under a
key that no version has, for every player left without. It does not say how keys
are allocated or how the parts are put together. In one point it follows the
code rather than the docstring: the current version of an absent player is gone.
PlayerMerges implements it (`DimensionSpec`) with `versions` = the rows of the
table, at every state of the run.

**SilverLayer** is `run_silver`: one action per step of the run and source, and a
disjunct per `except` clause. A frame is its number of rows and how many of
them break a critical rule. A builder may raise; a write may raise after the
builder returned; calls to the DAO and the report writer may raise and are
logged. A partition is not replaced at one stroke: a write that raises or is
killed leaves the old one, none, or a torn one (`Interrupted`), of the quarantine
as of an artifact. All rows of a source may be bad; then the frame of its
builder is empty, `write_parquet` finds no partition value in it and neither
removes nor writes anything, and the artifact is "written" all the same. A
dimension that is `Versioned` is read before it is built and cannot be while a
partition of it is torn. Bronze appears as audit rows and readable partitions, in
the states a Bronze run can leave, also after an empty file. dim_date, which has
no source and no audit, is left out.

**DqRules** has the rules on rows: not null, range, unique, foreign key, schema,
with their treatment of missing values, missing columns and missing lookups;
the split of a frame by its critical rules; the report of a source and of a
batch; the two conditions of the gate. **GoldArtifacts** has the queries of the
five artifacts as operators on the frames of the views: joins, COALESCE, CASE,
GROUP BY, aggregates and the window of rows, without ratios and ORDER BY of the
result. A frame is a function from row ids to records of columns.

**StarSchema** composes DqRules, Scd2 and GoldArtifacts over rows: a batch lands,
is checked, becomes dimensions and facts, passes the gate or not, and is
aggregated. Each task is one step here; what can happen inside a task is the
subject of SilverLayer and GoldLayer, which in turn do not look into rows. A
missing value of a frame is `NULL`, since `to_records` hands out `None` for it
(`pandas_engine.py:327`). The deliveries are typed (`StarAssumption`): rows are
numbered and have the columns that the schemas of `sources.yaml` give them and the
builders ask for. `ForeignKeys` are those of `dq_rules.yaml`; `RulesAssumption` says
that each has its critical rule, that players need a key and appearances a date
(`not_null`, `dq_rules.yaml:152`).

**GoldLayer** is the DAG from Gold's side. A partition is the batch that wrote
it, a Gold file what its query saw of every table, or `Torn`. A query may have no
rows: its artifact is "written" without a file and recorded with a count of zero.
`answers` is a history variable, the last build of an artifact that came to an
end. Bronze and Silver tasks appear by what they leave: a Silver run may have lost
a partition it was rewriting, may succeed without a partition of a table that has
no rows, and may be killed with every table written and before its success is.
Airflow's retries, `max_active_runs=1` and killed tasks are external, modelled
from how the DAG uses them.

Actions are named after functions (`MarkIngesting`, `RecordQuarantine`, ...),
variables after the tables and locals (`clean_bronze`, `dim_players_df`, ...).
Definitions marked "Mutant" are plausible bugs of the one that follows them;
they are used by the mutants of `PROJECT.json` only.

## 3. Runs

| Run | Asks | Instance | Distinct states |
|---|---|---|---|
| `file_audit` | does the DAO keep its promises, whatever the callers do? | 2 files of one source, 1 batch, 2 checksums, counts 0 and 1 | 237 000 |
| `bronze_chain` | can successful batches be read back? are counts true? are bytes stored once? | 3 batches, 1 run each, 1 crash; equal, changed, empty, missing, withdrawn files; registrations in one second or in two | 1 217 000 |
| `bronze_retry` | what do retries preserve? does every run end, and decided? | 1 batch, 3 runs, 1 crash, 1 write error, files replaced or withdrawn under the run | 357 000 |
| `bronze_rerun` | *violation*: does re-running a failed batch recover it? | 1 batch, 2 runs, 1 write error | – |
| `merges` | is the merge right over a chain of batches, and does it implement the dimension? | 2 players, 2 attributes, 4 merges, repeated dates | 14 000 |
| `merges_absent` | *violation*: is version history preserved? | 2 merges | – |
| `player_history` | what does the runner keep right? | 3 batches, 2 runs each, 1 failure or kill, also in the middle of a write | 230 000 |
| `history_doubled` | *violation*: does a key name one row of a snapshot? | 1 player, 3 batches | – |
| `silver` | are rows conserved, and do the books agree, whatever raises or is killed? | 3 sources, one with bad rows only, 1 batch, 3 runs, 2 faults and 2 kills in any mixture, Bronze incomplete | 7 603 000 |
| `gold` | does the gate hold, is Gold what it says, does a DAG run end? | 2 batches, 2 DAG runs (of one batch or of both), 1 retry per task, 1 fault, 2 artifacts with one count, results with rows and without | 378 000 |
| `star` | which rows reach Silver and Gold, and are they counted right? | 2 batches, deliveries with every kind of bad row, window of 2 rows, threshold 40 % | 3 800 |
| `gold_across` | *violation*: is Gold of a batch only of that batch? | the deliveries of `star` | – |

**Why the bounds are enough.** Two files are what it takes for source-grain
writers to miss one. Events that can repeat (notes) are bounded by the
constraint `OneQuestion` of `file_audit`, to keep the run short: a history has
up to three notes on counts or failures, since quarantine on the first file,
then on both after the second was registered, is the shortest way for counts to
differ; or two on reconciliations or failures, what they still owe included,
enough for both files to be read and moved on between the events, or for one to
be read and to fail before its event; and the clock moves only in histories
without notes. What is cut is what mixes these, and the proofs are about that
too. Three batches make a chain of two skips (the resolver has to pass over a
batch that has no partition), in one second or several, and a union of two
snapshots, the first where old and new copies of a version meet. Three runs of a
batch are a success after a failure after a failure. Two sources in Bronze are
one before and one after the source something happens to; in Silver the three
sources have a foreign key, a frame-to-frame dependency and a source with
neither, and among them are a dimension with a history and a source whose rows
are all bad; but for a torn dimension, which any batch may have left, batches
share nothing in SilverLayer, so one is enough, with two faults and two kills
(one in each of two runs, or two in one). In `gold` two artifacts of one primary
source are what it takes for a count to be overwritten; the third kind of
artifact, which reads from Bronze, has its table in the instance, since the
session makes a view on it for every run. Four merges let a player come, change,
go and come back. In `star` the first delivery takes every combination of a good
and a bad row in four sources (a missing name, an unknown reference, a key
twice, a game without goals, in July and in August), appearances and valuations
of nobody, and any one source missing; the second is equal, changed or missing
by source, or has a club and a player only, whose club is unknown, so that
nothing of its players is clean. The window of the rolling average has two rows
in place of 90; no property is about which. Bounds are constants (`MaxRows`,
`MaxNotes`, `MaxClock`, `MaxAttempts`, `MaxCrashes`, `MaxWriteErrors`,
`MaxFaults`, `MaxFailures`, `MaxBatches`, `MaxRuns`) that appear only in guards.
Symmetry is used in `file_audit`, on files and checksums, and in `bronze_chain`,
on batches, which the models never order.
`CHECK_DEADLOCK FALSE`: all of these systems come to rest when there is nothing
left to do, or at a bound.

**Fairness.** Two runs check liveness. In `bronze_retry` (`RunsAreDecided`)
`FairSpec` asks for weak fairness of `RunStep`, the process taking its next
step: the runner is straight-line code without waits, so an enabled step stays
enabled until it is taken. Starts, deliveries, crashes and errors are not fair.
Every run ends, and with a decision but for the two exceptions in the table
below. In `gold` (`DagRunsEnd`) `FairSpec` asks for weak fairness of `TaskStep`:
the scheduler starts the next task of an active run, and tasks do not wait. DAG
runs need not start, tasks may raise or be killed; that the run ends all the
same rests on the bounded retries of the DAG.

**Conditions under which properties hold** (they are in the comments too):

| Property | Holds |
|---|---|
| `SuccessfulBatchIsReadable` | for files that have rows, when no two batches register a file in the same second (`SecondsApart`), no batch is run twice and no file is replaced between the two reads of the loader |
| `LandedCountsAreTrue`, `NoDuplicateLanding` | when no file is replaced between those reads |
| `PartitionsAreImmutable` | always, but because a re-run never gets to write a source again, against `writer.py:32` |
| `RunsAreDecided` | unless the run is killed, which stands for every exception that the writer does not catch, or a file is gone when its checksum is computed |
| `SuccessHasEveryArtifact` | for an artifact that has rows; one that has none, because all of its source is in quarantine, has no partition, or the one an earlier run left |
| `RowsAreConserved` | in a first run, from the moment the artifact is on disk; after a success of any runs in which no step raised, for artifacts without a history |
| `SuccessReconciles` | in a first run, and after any runs in which no step raised, for artifacts without a history; a source that is all in quarantine is reported as `complete_silver_loss` |
| `SuccessMeansTransformed`, `DirtyRowsNeverReachSilver`, `GateSeesTheQuarantine` | when runs are killed but no step raises |
| `TransformedIsTerminal` | when runs are killed but no step raises, and no kill has left a dimension torn |
| `LookupIsHalfOpen` | except on a date on which a version was opened and closed |
| `FactsPointIntoTheSnapshot`, second half | when every batch up to this one was done at its first run and has a day of its own, which is so under the DAG (daily) and not for the hourly batch ids of the command line; for players of the batch |
| `SuccessIsFresh`, `RecordedMeansOnDisk` | for any result; one without rows has no file, and a count of zero |
| `DanglingOnlyThroughQuarantine` | of the players, for the current versions of players who are clean in the batch; a batch without a clean player leaves the dimension as it was, current versions of clubs that are gone included |
| `TotalsAreTheFacts`, `LeagueTableBalances`, `ValuationsResolveWhenClean` | while no other batch has anything in Silver (`FirstInTheLake`); `gold_across` shows why |
| `CleanRunSucceeds` | not at all: it is the claim that `bronze_rerun` refutes |

## 4. Disagreements between code and documents

With a run that shows them (`findings` of `PROJECT.json`):

1. **A failed batch cannot be re-run** (`bronze_rerun`). `mark_ingesting` from
   `ingested` is illegal, so the second run marks failed what the first landed.
   ADR-0003:159 says re-running is how to recover.
2. **Players who are not in a batch lose their current version**
   (`merges_absent`), where `scd2.py:6` promises full version history.
3. **Snapshots hold rows twice** from the third batch on (`history_doubled`): the
   runner reads all snapshots as if they were one dimension.
4. **Gold of a batch is computed from all batches** (`gold_across`), against
   ADR-0007:243.

Met while modelling and followed in traces of the models, without a run of
their own (the properties above exclude them by their conditions):

* A re-run never replaces a partition, whole or torn (`writer.py:32`: "Re-running
  a batch atomically replaces just that batch's partition", also `writer.py:249`):
  the row is past "registered", so mark_ingesting raises before the write. What a
  failed write has left of a partition stays, and other batches may read it.
* Of two batches that register in the same second, the resolver may take the row
  of the wrong one as the most recent (`audit.py:1002`), and returns the partition
  of other bytes (`resolver.py:81` has "this source's Bronze data for the given
  batch").
* A file without rows becomes "ingested" and leaves no partition
  (`pandas_engine.py:127`). The resolver then finds nothing, or the partition of an
  earlier batch, where `silver/run.py:173` says that nothing means "never
  successfully ingested".
* A source whose rows are all in quarantine has an artifact without rows, for
  which no partition is written and an old one is not removed; the layer succeeds,
  and reconcile_batch reports a critical `complete_silver_loss`.
* While a re-run replaces the quarantine of a source (`pandas_engine.py:134`), the
  Silver partition of the run before stands beside none. If the write raises, the
  raw frame goes to Silver; if the run is killed, it stays so until the next run.
* Half a partition of dim_players makes every later build of the dimension raise,
  of any batch, since the runner reads all of them (`silver/run.py:217`); nothing
  removes it but a build of the same batch, which cannot get that far.
* A Gold query without rows is recorded as written with a count of zero, and
  leaves no file (`builders.py:94`).

* After a re-run has marked a landed source failed, other batches that skipped
  its duplicate cannot be resolved any more (`writer.py:184` says they can).
* The checksum is computed after the rows were read: if the file is gone, the
  exception escapes `write_bronze_source` ("never raises", `writer.py:116`) and
  the batch stays "running"; if it was replaced, the rows of one version are
  stored under the checksum of the other.
* Two batches of one date: the inclusive lookup may find the version whose
  half-open window is empty (`facts.py:20`, `facts.py:321`). The other as-of join,
  in Gold, compares a timestamp with the text of a date and so leaves the last
  day of a window out (`artifacts.py:300`); this one is read from the code only.
* Closed versions come back open from an older snapshot and are closed again
  with another date (`scd2.py:26`).
* `dim_players_df` is set before the partition is written, so facts are written
  when the dimension was not (`silver/run.py:631`).
* An artifact that failed leaves its source `failed` although a retry succeeds
  (`silver/run.py:22`); a transformed source that fails in a re-run becomes
  failed (`audit.py:115`, `audit.py:740`).
* When DQ or the quarantine write raises, the raw frame goes to Silver
  (`silver/run.py:373`, `453`; `README.md:322` says "Bad rows never reach Silver").
  In a re-run it meets the quarantine partition and
  the rejected_rows of the run before, which count rows that are now in Silver
  too, and reconcile_batch finds a drift.
* A report that could not be written leaves a successful layer without one, and
  the gate passes (`airflow_wrappers.py:207`).
* The Silver count of players is that of the whole dimension, which
  reconcile_batch calls `row_count_drift` (ADR-0001:88).
* `player_valuations` has critical rules, but DQ runs over five other sources
  (`silver/run.py:384`): its failing rows are not quarantined
  (`dq_rules.yaml:16`) and reach Gold.
* Foreign keys are looked up in the raw rows of the referenced source, so Silver
  refers to rows that were quarantined (`dq/runner.py:117`).
* `distinct` keeps the first row of a key (`pandas_engine.py:285`), where the
  comments of `dimensions.py` have the last.
* The rolling average is over 90 rows, not 90 days (`artifacts.py:246`).
* A game without goals counts as a match of both clubs, and as a clean sheet
  (`artifacts.py:109`, `326`).
* A batch that the gate stopped is in the views of the next one
  (`football_pipeline.py:18`), and from the second batch on the scorers of Gold
  are joined with every snapshot of the dimension.
* A retried Gold task leaves a second file in its partition, so that a reader has
  every row twice (`builders.py:9`: "one batch's snapshot of that artifact").

## 5. Proofs

| Module | Theorems | Statements |
|---|---|---|
| FileAuditProofs | `TypeCorrect`, `CountsFollow`, `SourceGrain`, `ImplementsLifecycle`, `TimelinesExplain`, `TimelineStatus`, `TimelineOrder`, `TimelineCounts`, `CleanIsFinal`, `RecordsAreFinal` | `TypeOK`, `CountsFollowLifecycle`, `SourceGrainAgrees`, `LifecycleSpec`, `TimelineInv`, `TimelineExplainsStatus`, `StagesInOrder`, `TimelineExplainsCounts`, `CleanReconciliationIsFinal`, `WrittenOnce` |
| BronzeLayerProofs | `TypeCorrect`, `PartitionsStay`, `SuccessIsLanded`, `CountsAreTrue`, `StoredOnce`, `SuccessIsReadable` | `TypeOK`, `PartitionsAreImmutable`, `SuccessMeansLanded`, `LandedCountsAreTrue`, `NoDuplicateLanding`, `SuccessfulBatchIsReadable` |
| SilverLayerProofs | `TypeCorrect`, `SuccessIsComplete`, `RowsAreKept`, `SilverIsClean`, `SuccessIsRecorded`, `SuccessIsReconciled`, `GateIsInformed`, `TransformedStays` | `TypeOK`, `SuccessHasEveryArtifact`, `RowsAreConserved`, `DirtyRowsNeverReachSilver`, `SuccessMeansTransformed`, `SuccessReconciles`, `GateSeesTheQuarantine`, `TransformedIsTerminal` |
| GoldLayerProofs | `TypeCorrect`, `GateHolds`, `SuccessIsEarned`, `CountsAreOfFiles` | `TypeOK`, `BlockedBatchHasNoGold`, `SuccessIsFresh`, `RecordedMeansOnDisk` |
| VersionedDimensionProofs | `DimensionIsSound`, `HistoryIsFinal` | keys, current versions, windows; closed versions are never touched |
| Scd2Proofs | lemmas | what the parts of the merge and the lookup return, for frames of any length |
| DimPlayersProofs, of PlayerMerges | `ChainIsSound`, `KeysAreUnique`, `OneIsCurrent`, `ImplementsDimension`, `ClosedVersionsAreFinal`, `LookupFindsTheWindow` | `ChainInv`, `SurrogateKeysAreUnique`, `OneCurrentVersion`, `DimensionSpec`, closed versions are never touched, `LookupIsHalfOpen` |
| DimPlayersProofs, of PlayerHistory | `NamesAreForGood`, `SnapshotsAreDelivered`, `FactsAreCovered`, `FactsAreAsOfTheEvent` | `SurrogateKeyNamesOneVersion`, `CurrentVersionsAreDelivered`, a fact has a version whose window has its date, `FactsPointIntoTheSnapshot` |
| StarSchemaProofs | `CleanKeysAreUnique`, `DanglingIsQuarantined`, `DanglingIsExplained`, `ValuationsResolved`, `TotalsAddUp`, `TableIsBalanced` | facts about the split of any frame by any rules; `DanglingOnlyThroughQuarantine`, `ValuationsResolveWhenClean`, `TotalsAreTheFacts`, `LeagueTableBalances` |

They hold for all values of the constants, bounds included. Properties and
candidate invariants were checked by TLC before they were proved.

**FileAudit.** `TypeCorrect`, `CountsFollow` and `SourceGrain` are inductive with
`TypeOK`: a source-grain write gives one value to all present files of the
source, and a file registered later has NULL. `ImplementsLifecycle` maps every
action to a step of FileLifecycle or a stutter; source-grain writers need that
the present files of the abstract state are the rows of the source. That the
last lifecycle event is the one of the status is not inductive, nor is the order
of events: `TimelineInv` adds that the rank of the status bounds the rank of
*every* lifecycle event so far. A legal transition raises the rank by one, so the
event it appends is the largest (`AppendStage`); other events have rank 0
(`AppendNote`); a failure has the top rank and may follow itself. `FileSteps` says
of every call what it is for one file: nothing, a registration, or one event
together with the change that the event reports (`Recorded`). `TimelineCounts`
follows from it, and `RecordsAreFinal` from the fact that a count is
there only behind its stage. `CleanIsFinal` is about two moments, the reading of
the batch and the event written later on another connection: a file without a
finding is terminal when it is read (`CleanMeansTerminal`), a terminal status is
never left (`TerminalStays`), and so whatever a reconciliation still owes about it
stays true until it is written (`PendingStays`).

**BronzeLayer.** `TypeInv` says what the process holds at which step. That whole
partitions stay needs `LakeInv`: a partition that is whole has a row that is past
"registered", and at `clear` and `write` the target is not whole. It holds because
a write is reached only through mark_ingesting, which takes a row that is still
registered, and no writer leads back there. `SuccessIsLanded` needs `VerdictInv`:
while nothing has failed, every source before the current one has landed, and no
other run touches the rows of a running batch. `CountsAreTrue` assumes that no
file is replaced under a run, and needs `FrameInv`: frame, fingerprint, row and
raw file are of one content, and the prior ingestion of a duplicate is too, so
the count that is copied along a chain of duplicates is the right one.

`StoredOnce` is about the check before the write and a landing three steps after
it: `DuplicateInv` says that between them no row with these bytes has landed,
because only the run itself completes anything, and `WholeInv` that a whole
partition has the bytes of its row. `SuccessIsReadable` needs, for every landed
row with bytes, a row of the same bytes that landed no later and has them on
disk (`StoredInv`); the resolver, which takes the most recent such row with a
partition, then finds one, over chains of duplicates of any length. Its
hypotheses are those of the property. `"replace" \notin MidRun`: else the rows of
one version are stored under the checksum of the other. `MaxAttempts = 1`: a
second run of a failed batch marks what the first landed as failed, and the
batches that skipped it as a duplicate cannot be resolved any more.
`SecondsApart`: the most recent row is then one row; it need not be assumed of the
past, since it held before if it holds now (`ApartBefore`). And the file has rows,
or there is nothing to find. `StoredOnce` and `CountsAreTrue` need neither of the
last two: rows that tie in the duplicate check have the same bytes.

**SilverLayer.** `ResultsInv` ties the results of a run to its position and to
the disk: what it has written is whole, or has no row to write because all of its
source is in quarantine; a batch that succeeded is never started again, so its
partitions stay. `FramesInv` is what the frames of a run say of its quarantine.
`QuietInv` is the argument for runs in which no step raises: what DQ refuses
depends only on the source and on what is readable, so every run of a batch
quarantines the same rows, and a partition of an earlier run agrees with the
frames of a later one. A kill in the middle of a rewrite leaves the quarantine
empty or torn, so that the two stores agree again only at the success
(`SuccessKeeps`). `FirstInv` is the one for first runs, whatever raises:
sources are taken once, and the frame of a source and its quarantine partition
add up at every step, also while only one of the two has been written.
`RowsAreKept` needs both; `SilverIsClean` needs the second.

That the audit agrees with the disk is `RowsInv`, in the same two parts. Of first
runs (`FirstRow`): a count of the row is missing or that of the stores, and is
missing until the stores are final. Of quiet runs (`QuietSilver`): the rows have
followed the run as far as it has come (`QuietProgress`), and what a run builds is
known without the run. It is the least set that has every source whose data is
readable and whose needs are in it (`Buildable`, written as "in every set that is
closed"); all quiet runs of a batch build it, unless a dimension is torn
(`TornStays`: it then stays torn, and no later run of the batch succeeds), so a source that an earlier run has
marked transformed is not failed by a later one. From these come
`SuccessIsRecorded`, `SuccessIsReconciled`, `GateIsInformed`, where the sum in the
report is over the same function as the quarantine, and `TransformedStays`.

**GoldLayer.** `GateInv`: past the gate, the report of the batch is one that the
gate lets through, because a Silver run that is skipped leaves the report alone;
so whatever has a Gold file or an answer had both. `AnswerInv`: an answer was read
from the partitions that Silver has left of its batch, which no later step
changes, and if it has rows they are a file. `DiskInv`: what a run takes for
written was built, with a whole file if it has rows, across retries that write
again, and so was what is recorded of it.

**VersionedDimension.** Keys, current versions and windows are inductive only
together with the shape of windows (a current version is open-ended, a closed one
ends at a date of a batch) and `NotBefore`, the guard that batches come in order.

**The merge of frames.** Scd2Proofs first shows that `InOrder` enumerates a finite set: the
sizes of the initial segments are distinct and fill 1 .. n, so each position has
one member (`Ordered`). So a selection has exactly the selected rows, in order
(`Selected`), and every part of the merge is a known set of rows (`Closings`,
`Openings`, `MergedRows`, `LoadedRows`); keys stay unique because the new ones
start above the largest (`NextKeyIsNew`). DimPlayersProofs puts this to the
chain: `ChainInv` is that keys are one row each, that the set of rows satisfies
the invariant of VersionedDimension, that nothing is younger than the last batch,
which is what `NotBefore` asks for, and that the last batch is current. Each
`MergeBatch` then is a `Merge` of the abstract dimension, or changes nothing
(`BatchStep`), which gives `ImplementsDimension`, and with `VersionedDimensionProofs`
the soundness of windows and the finality of closed versions for frames. For the
lookup: two windows of a player do not overlap, so another version that covers
the date with both ends included ends on it and began before.

**PlayerHistory.** The runner merges into the union of all snapshots, in which a
version occurs several times with different windows, so that none of the above
holds there. What does is about the *set* of versions and their names (key,
player, attributes, first day): a merge keeps or closes versions and so keeps
their names, and opens versions under keys above all there are (`MergeOfVersions`,
`NamesOfMerge`). That this is so for what was on disk when the run read it and
what it writes later needs the held frame in the invariant, `NamesInv`;
`DeliveredInv` and `FactsInv` follow the run through its failures likewise. The union
is read with `FlattenSeq`, whose recursion is unrolled with `Climbs` below.

`FactsAreAsOfTheEvent` is the longest argument of the project. `ChainedTo` says
of what is on disk before a batch, when every batch before was done at its first
run: each name has a row that is still open, somewhere; versions begin with batches
that had the player; the latest versions of a player until the day of a batch
say what that batch delivered. A merge continues it (`ChainGrows`). A new snapshot
has, for a player of the batch, the old closed rows, the old open rows (as they
were, or closed today) and the new one, so that the versions of the player that
cover a date in it are enough to find the latest (`LookupFindsDelivered`):
versions that were closed by mistake, or closed twice, have been overtaken by a
later one with the right attributes. The hypothesis `OneADay`, that each batch has a
day of its own, is the one under which "the last batch until a date" is well
defined by the dates; the run `player_history` has such days.

**StarSchema.** `CleanKeysAreUnique` and the other theorems on rules are about any
frame and any set of rules; `DanglingIsQuarantined` is the local reason for
`DanglingIsExplained`. The global one is `StarInv`: what a batch reads landed before it
and stays; its tables are built, from its clean frames and *some* existing
dimension whose names agree; quarantine is that of the same frames. Then a
reference passed its rule, so the raw frame of the referenced source has the row;
if it is not clean it is in the quarantine, and the builder of the referenced
table keeps every key of the clean frame (`DistinctKeeps`, `GamesKeep`,
`PlayersBuilt`). The attempt to prove an earlier form of the property, of all current
versions, failed on a batch without a clean player, for which `scd2_merge` returns
the dimension as it was (`scd2.py`, the result is empty), current versions of
clubs that have gone included. The instance of `star` has such a batch, and the
property speaks of players of the batch.

`ValuationsResolved` follows a batch that is alone in the lake from Bronze to Gold.
`FirstInv`: batches before it are over, batches after it have not begun, so the
dimension it merges into is empty when Silver runs (`NothingToMergeInto`) and the
views have rows of no other batch when Gold does (`ViewsOfOne`). The dimension is
then a first load (`FirstLoad`), in which a clean player has one version that
covers every date of a valuation (`OneVersion`), a club one row
(`DistinctOnce`, `OneClub`), and the joins neither lose nor double a row
(`OneRowPerValuation`). What Gold has written stays true because nothing that the
statement reads changes any more (`Unmoved`).

`TotalsAddUp` and `TableIsBalanced` are about the same lake, and `GoldInv` holds
all three: `StarInv`, `FirstInv`, and for every batch that has Gold that its
valuations resolve and its sums add up. The sums are proved from what a fold over a finite set does
when it takes one member (`GrowsTo`): a sum splits into one term and the rest
(`SumWithout`), does not depend on what the rows are called (`SumRenamed`), and is the
sum of the sums of groups (`SumOfGroups`), also when the groups come from a
join that finds exactly one row for each (`SumOfGroupedJoin`). What is left is
that the joins are such joins: a clean appearance has one version of its player and
that version one club row (`OneVersion`, `OneClub`), and a game two
perspectives, each the mirror of the other. Balance does not need the goals to be
known: COALESCE makes both sides of a missing score zero.

**Induction.** The library's induction theorems take an operator as a parameter,
which the provers cannot instantiate. Where an argument needs induction on
numbers it is made with sets: a set of numbers that is not empty has a least
member (`Least`, `Smallest`), and a part of 0 .. N that has 0, and with n < N also
n + 1, has N (`Climbs`, because a finite set of numbers has a largest). A family
of sets that has {} and, with a set, also that set and one more member, has every
finite set (`GrowsTo`).
Modules that are proved about have no RECURSIVE operator.

Assumptions are the ones the modules state. `AuditAssumption`, `BoundAssumption`,
`BronzeAssumption`, `SilverAssumption`, `GoldAssumption`: `SourceOf` maps files to
sources, constants that mark absence are not values, a registry is not empty and
names a source once, no source has more bad rows than rows, only versioned
dimensions have a history, a torn file is not a whole one, bounds are natural
numbers. `PlayerAssumption`, `MergesAssumption`, `HistoryAssumption`: players are
finitely many numbers (so they have an order), dates of batches lie between the
far past and the far future, and match dates not after it. `StarAssumption`,
`RulesAssumption`: deliveries are finite and have typed columns, the dates of valuations
and appearances lie in the window of a first load, NULL is neither a number nor a row id, the rules have the
foreign keys and the two keys that must not be missing.
The runs evaluate all of them. `DimensionIsSound` assumes `DatesAreOrdered`, which
`Dates` proves for the instance of PlayerMerges. `StoredOnce`, `SuccessIsReadable` (with `SecondsApart`, of its property),
`CountsAreTrue` and `FactsAreAsOfTheEvent` state their conditions themselves.

Only model-checked: liveness, `RunsAreDecided` and `DagRunsEnd` (temporal
reasoning under fairness, and ENABLED, are not supported by the prover). Every
other property of a passing run is a theorem.

## 6. What is not modelled

Values: CSV parsing and coercion, column cleaning, normalisation of countries and
positions, tokenisation, ratios and the order of rows in Gold, wording of errors,
log output. dim_date, which is generated from a range of dates. Static
configuration: registry, manifest, settings; the rules of `dq_rules.yaml` for the
modelled columns are in MCStarSchema. The Spark engine, a stub that raises. The
watermark and DQ-result DAOs, which no runner calls. Scripts and the notebook,
which only generate or read data. Two processes on one batch: the DAG has one
active run and its executor runs its tasks one by one, and ADR-0003 accepts the
rest. SQLite's own atomicity is taken as given. Equal bytes for two different
sources are excluded (`BronzeAssumption`): their headers differ. Faults inside a
task are in SilverLayer and GoldLayer and not in StarSchema, rows the other way
round.

## 7. Plan

Done: the modules above, in the order audit, Bronze, SCD2, Silver, Gold, data
quality, star schema, which is the order in which later ones rely on earlier
ones, and proofs in the same order. What would be worth doing next:

1. **One table**: Bronze, Silver, gate and Gold as processes over one audit table.
   The layer modules now meet in the states that the earlier layer can leave.
2. **Abstract layer**: what a layer promises (a verdict per batch, success
   absorbing), implemented by Bronze, Silver and Gold.
