# Verification of the batch ingestion service

TLA+ models of the file-landing / batch ingestion service, the TLC runs that
check them, and theorems about them proved with TLAPS. Paths of the form
`orchestration/...`, `adapters/...` or `demo/...` are relative to `src/`.

1. [The system](#1-the-system)
2. [The modules](#2-the-modules)
3. [The runs](#3-the-runs)
4. [The proofs](#4-the-proofs)
5. [Disagreements between code and documentation](#5-disagreements-between-code-and-documentation)
6. [What is not modelled](#6-what-is-not-modelled)
7. [Plan](#7-plan)

## 1. The system

One Airflow DAG per YAML file copies one source (a table, a directory of files,
in principle a Kafka topic) to a landing area on HDFS or S3, over and over, and
keeps a checkpoint so that the next run only has to read what is new. A run is
three tasks, `init >> spark_run >> metric_push`, which share no memory: the
first pushes a `RunContext` to XCom, the others pull it.

### Inventory

| component | state it keeps | operations | talks to |
|---|---|---|---|
| `InitOperator` (`orchestration/operators/init_operator.py`) | none; produces the `RunContext` with the window (`checkpoint_from`, `checkpoint_to`] | load YAML, build source and sink config, three OpenBao reads, fetch the saved checkpoint, native MAX query, push to XCom | OpenBao, checkpoint store, source, XCom |
| `SparkRunOperator` (`spark_run_operator.py`) | none beyond the Spark session | pull the context, read through a read adapter and append through a write adapter, or copy files; inline failure event | source, sink, metric queue |
| `MetricPushOperator` (`metric_operator.py`) | none | publish the completion event, upsert the checkpoint | metric queue, checkpoint store |
| read adapters (`adapters/source`) | `checkpoint_from`, `checkpoint_to`, options | build the query or the connector options, filter | source |
| write adapters (`adapters/write`) | Hadoop settings of the Spark session | build the path, append, copy | sink |
| metric adapters (`adapters/metric`) | none | validate, publish (SQS, Redis Streams, Kafka) | metric queue |
| factories (`adapters/factory`) | none | type checks, required fields, connection injection | - |
| `RunContext` (`run_context.py`) | the XCom envelope | `to_dict`, `from_dict` | XCom |
| `OpenBaoHook` (`orchestration/plugins/openbao_hook.py`) | a cached, authenticated client | authenticate, read a secret | OpenBao, Airflow variables |
| DAG factory (`demo/airflow/dags/dag_factory.py`), template DAG (`orchestration/template_dags`) | the registered DAGs | scan, build, register; git helpers | scheduler |
| checkpoint store (`demo/postgres-init/01_schema.sql`) | one row per DAG | select, upsert | - |
| OpenBao bootstrap (`demo/openbao/entrypoint.sh`) | three files on a volume: root token, unseal keys, marker | wait, init, unseal, seed | OpenBao server |
| demo environment | compose file, images, hand-written DAGs | - | - |

### What is hard about it, and what makes it correct

*The window.* `checkpoint_from` is what an earlier run saved, `checkpoint_to`
the MAX of a column at some moment during `init`. The rows are read later, in
another task, perhaps after retries, while the source keeps changing and other
runs of the same DAG do the same (no DAG sets `max_active_runs`). Correct means:
a checkpoint is only saved when everything on time at or below it is in the
sink (`NoGap`), because nothing will ever look there again.

*Retries.* Every task may die anywhere, before or after its effect, and is
started again from its beginning. The sink keeps what an earlier try wrote; the
event queue keeps what was published; the upsert may have been committed by a
try that counts as failed. Correct means that an event "success" is never a lie
(`SuccessIsTruthful`), and that a saved checkpoint always has an event behind it
(`SavedIsPublished`).

*Swallowed errors.* A failing MAX query does not fail `init`: the run goes on
with a window that has no bounds. The failure event is best effort; the Kafka
producer loses messages without raising.

*Disagreement between adapters.* Each adapter has its own idea of the window:
JDBC needs both bounds or uses none, NoSQL uses the lower one only and takes 0
for "none", MongoDB compares with a string, file sources do not filter at all.

*File copies.* `FileUtil.copy` does something else on each try, because the
first try leaves a directory behind. On S3 the checkpoint is captured from a
listing that is fetched page by page while files come and go. Correct means that
a checkpoint vouches for landed files only (`WindowIsLanded`), and for every file
that stood still (`StandingIsVouched`).

*Several DAGs.* A path in the sink names the table, the start of the interval
and the sanitised `run_id`, but not the DAG; the checkpoint is keyed by the DAG,
but not by the table. YAML files are edited while runs are under way, and every
try of a task parses its file anew. Correct means that a path still tells where
its rows come from (`PathNamesOrigin`), a record count what the run landed
(`CountIsTruthful`), that nothing but a change of the table opens a gap
(`GapsNeedRetarget`), and that nothing but the configuration fails a run
(`OnlyConfigFailsRuns`).

*Forms of a checkpoint.* A value goes from the driver through a parser, a tagged
dictionary in XCom, `str()` and a TEXT column back through the parser into the
text of a query. Correct means that the next run starts from what the last one
captured, but for a fraction (`NextStartsFromCaptured`).

*Secrets.* A task reads three secrets through a client it has cached, while
tokens expire and are replaced, Airflow Variables cannot be read and the
container of the server dies. Correct means that a server that serves is enough
(`ServingIsEnough`).

*Bootstrap.* The OpenBao script checks nearly no exit status, and the only copy
of the unseal keys exists for a moment in a shell variable.

`PROJECT.json` lists the hazards at their lines, with the properties that watch
them.

## 2. The modules

| module | what it is |
|---|---|
| `ReadWindow` | the pure part of a read: which values of the checkpoint column each kind of source selects (`Selects`), what the parser keeps of a captured value (`ParseCheckpoint`) |
| `Landing` | abstract specification: versions are fetched and landed, values sealed, a watermark is published only when complete; `IngestionPipeline`, each DAG of `RunContext` and each partition of `KafkaWindow` implement it |
| `KeyCustody` | abstract specification of a store that seals itself and hands out its keys once; `OpenBaoEntrypoint` implements it |
| `IngestionPipeline` | the DAG for a table source: all three operators, Airflow's retries, faults, overlapping runs |
| `IngestionProperties` | type invariant, safety, action and liveness properties of the pipeline, the steps a run has left, and the mapping to `Landing` |
| `CheckpointCodec` | the forms a checkpoint takes in the driver, XCom, the TEXT column and the query |
| `RunContext` | several DAGs over several tables and one sink: the context that travels through XCom, YAML files that change, paths, record counts, the checkpoint of a DAG |
| `FileLanding` | the DAG for a directory of files, with the steps of Hadoop's `FileUtil.copy` |
| `KafkaWindow` | the offset windows of a Kafka topic: what `_max_kafka` and `SourceKafkaAdapter` promise together, and the factory that rejects the source |
| `OpenBaoEntrypoint` | `demo/openbao/entrypoint.sh` over restarts of its container |
| `OpenBaoHook` | one Airflow task that reads its secrets through `OpenBaoHook` from a server that may change under it |
| `SecretDelivery` | the composition of `OpenBaoEntrypoint` and `OpenBaoHook` |
| `MC...` | instances for TLC |
| `..._proofs` | the theorems about the module of that name; `IngestionSerial_proofs` has those about a pipeline whose source does not delete, or that runs one at a time |

`IngestionPipeline` extends `ReadWindow`, `IngestionProperties` extends
`IngestionPipeline`; `RunContext` extends `CheckpointCodec`; `IngestionProperties`,
`RunContext` and `KafkaWindow` instantiate `Landing`, the last two once for each DAG
and each partition; `OpenBaoEntrypoint` instantiates `KeyCustody`; `SecretDelivery`
extends `OpenBaoEntrypoint` and instantiates `OpenBaoHook` with the server's state
in place of its last three variables.

Operators named `..._Mutant...` are slips the code might have had. Nothing uses
them; they stand next to the operator they would replace, to check that the
properties notice.

### `Landing` and `KeyCustody`

The two abstract specifications say what somebody who relies on a component sees of
it. `Landing` is for the consumer of the landing area: a row of the source has a
value, versions are read and landed, a value is *sealed* once the pipeline has
looked at the source up to there, and a published watermark vouches for every
version at or below it that was not late. It is instantiated three times, with what
is different in each case left to the mapping:

| | `ImplementsLanding` | `DagsImplementLanding` | `PartitionsImplementLanding` |
|---|---|---|---|
| for | the one DAG of `IngestionPipeline` | each DAG of `RunContext`, as long as it keeps its table and a file that parses | each partition of the topic |
| rows | primary keys | the rows of the table the DAG was deployed with | offsets; the message at offset o has the value o + 1, because end offsets are exclusive |
| landed | the sink | what the DAG's own runs landed of that table | the messages of the partition in the sink |
| watermark | the saved checkpoint | the DAG's row in `public.checkpoints` | the saved offset of the partition; withdrawn when offsets saved later do not name it (`MayWithdraw`) |
| sealed | `horizon` | the highest bound its runs have captured | the highest end offset captured |
| fetched | the batches | nothing: the write evaluates the query, and lands what it reads | the batches |

`KeyCustody` is for whoever needs the secrets tomorrow: the keys are handed out
once, and are then in hand, kept or lost; a store that closes with lost keys has
closed for good; secrets are only written to an open store. In the script
the keys are in hand while they are in a shell variable, kept when the file on
the volume is whole, and the store is open when the server runs unsealed
(`KeepsCustody`).

### `IngestionPipeline`

A step of a run is the code between two accesses to state that others see.

| variable | in the system |
|---|---|
| `table` | the source table: row -> value of the checkpoint column |
| `checkpoint` | `checkpoint_to` in the DAG's row of `public.checkpoints` |
| `pc`, `tries` | the running task of each DAG run, and the retries it has used |
| `from`, `to` | the window in the run's `RunContext` (XCom) |
| `batch` | what the DataFrame holds between the read and the write |
| `sink` | records below the root path, each with the run that wrote it |
| `metrics` | events in the metric queue |
| `faults` | a counter that bounds the faults of an instance |
| `horizon`, `late`, `fresh` | kept by no code, for the properties only |

| action | code |
|---|---|
| `Commit`, `Delete` | transactions of the source's owners. A stamp may become visible after higher ones; it is then *late* if a run has captured a checkpoint at or above it |
| `Trigger` | the scheduler starts a run |
| `FetchFrom` | `_fetch_checkpoint_from` |
| `FetchTo`, `FetchToFails` | `_fetch_checkpoint_to`, then the `RunContext` is pushed; the failure that is logged and swallowed |
| `InitFails` | configuration, OpenBao or store unavailable, or the worker dies |
| `ReadSource` | `read()` up to the evaluation of the DataFrame |
| `WriteSink` | the append, and the success of the task |
| `SparkFails` | any failure: some part of the batch may be in the sink, the event "failed" may be in the queue |
| `Publish`, `PublishLost`, `PublishFails` | `adapter.publish`; only Kafka's can lose an event unnoticed; a failed publish may have been accepted |
| `SaveCheckpoint`, `SaveFails` | the upsert; a failed one may have been committed |

Two judgements of the model deserve attention. A DataFrame is taken to be one
query, evaluated once (a DataFrame that is counted first is the subject of
`RunContext`; a JDBC read partitioned by `read_options` would be several). And
the checkpoint survives XCom and the TEXT column unchanged once it is parsed: that
is `NextStartsFromCaptured`, a theorem about `CheckpointCodec`.

Late versions are excluded from every promise: a reader that goes by timestamps
and does not overlap its windows cannot find a row that commits below a
checkpoint it has already captured. The exclusion is as narrow as it can be: a
version is late only if it was committed *after* the capture of a value at or
above it.

### `CheckpointCodec` and `RunContext`

`CheckpointCodec` has one function per conversion: `ParseCheckpoint`
(`_parse_checkpoint`), `Serialise` and `Deserialise` (`RunContext.to_dict`,
`from_dict`), `SavedText` (the `str()` of the upsert) and `Compares` (what
`_format_checkpoint` leaves of a bound, and whether PostgreSQL then compares it
with the column). A value is a kind and a number that orders it; an empty string, which
`MetricPushOperator` does not save, and blanks around a text are left out, and the
truncation of a fraction is in `ReadWindow`.

`RunContext` leaves aside what `IngestionPipeline` is about: a table only grows,
and its i-th row has the i-th value of the column.

| variable | in the system |
|---|---|
| `rows` | table -> rows it has |
| `yaml` | DAG -> the configuration in its file: the table and `count_records`, or `Broken` |
| `saved` | DAG -> the text in its row of `public.checkpoints` |
| `pc`, `tries` | as in `IngestionPipeline` |
| `ctx` | run -> its `RunContext` in XCom: configuration and tagged bounds |
| `count`, `cache` | run -> `record_count` in XCom; the rows `df.cache()` holds |
| `sink` | records, each with its path, run, try and row |
| `events` | completion events with their record count |
| `broke`, `retargeted`, `recomputed` | kept by no code, for the properties only: DAGs whose file has been broken; DAGs whose file came to name another table, or was repaired; runs that lost cached rows |

| action | code |
|---|---|
| `Insert`, `Edit` | the owners of a table and of a YAML file |
| `Trigger`, `ParseFails` | the DAG factory registers a file that parses; a try whose file does not cannot start |
| `LoadConfig` | `init` loads the YAML file and builds source and sink configuration |
| `FetchFrom`, `FetchTo` | `_fetch_checkpoint_from`, `_fetch_checkpoint_to` with its swallowed failure |
| `QueryRefused`, `ReadSource` | `read()`; the database refuses a bound that does not compare with the column |
| `CountRecords`, `LoseCache` | `cache()` and `count()`; an executor is lost with cached blocks |
| `WriteSink` | the append below `build_write_path` |
| `Publish`, `SaveCheckpoint` | `MetricPushOperator`, with the record count it pulls |
| `InitFails`, `SparkFails`, `MetricFails` | faults; what a failed try wrote stays, a publish or an upsert that failed may have been accepted or committed, the XCom of the try is cleared |

A column of strings that read as dates is excluded (`ColumnAssumption`): its
bounds are quoted like dates, and PostgreSQL compares them as text.

### `FileLanding`

The directory, its modification time and the files in it change at any point.
`_max_file` asks HDFS for the time of the directory (`StatPath`); on S3 it takes the
newest time of a listing that comes page by page (`StartListing`, `ListPage`,
`CaptureLatest`), and what is put or removed between two pages is seen or not,
depending on the page its name is on. Its failure is swallowed (`MaxFileFails`). A
`checkpoint_column` is taken to be configured, without which there would be no
window, and each change has a time of its own, where S3 and `hdfs dfs -stat` tell
seconds only.

`SparkRunOperator` calls `copy_from`, whose steps are those of
`org.apache.hadoop.fs.FileUtil.copy`, which is not in the repository and was
modelled from its published behaviour: a destination that exists as a directory
is replaced by `<dest>/<name of the source>`, refused if that is a directory as
well; `mkdirs` may be refused, and copy then returns `false`; the source is
listed once and copied file by file. Two runs of one DAG have paths of their own,
so they are modelled one after the other.

### `KafkaWindow`

The end offsets captured by `_max_kafka` (`EndOffsets`), read by
`SourceKafkaAdapter` up to there from the saved ones (`Within`, `ReadSource`),
while producers append, retention removes the oldest messages
(`failOnDataLoss` is `"false"`, so a read passes over them) and the topic gets
partitions. Spark refuses offsets that do not name exactly the partitions of the
topic (`Readable`, `ReadRefused`); that behaviour of its Kafka source is not in
the repository. `starting_offsets` has its default, `"earliest"`.

Both halves exist and are unit-tested, but no pipeline reaches them today, since
`SinkConfigFactory` rejects the source first. The variable `accepted` holds
which of the two programs an execution is of: with `FALSE` the program as it stands
(`RejectSource`), with `TRUE` what the component promises once that is repaired.

### `OpenBaoEntrypoint`

One action per command whose failure or interruption matters, the server's
persistent state and the script's three files on the volume, the seal and the
script's variables lost with the container. `Crash` may happen between any two
commands, and leaves a truncated file where `tee` was at work.

### `OpenBaoHook` and `SecretDelivery`

| variable | in the system |
|---|---|
| `method`, `varToken` | the Airflow Variables `openbao_auth_method` and `openbao_token` |
| `issued`, `live` | server: the tokens it has issued, and those it still accepts |
| `step`, `tries`, `reading` | where the task is, the retries it has used, the secret it reads |
| `client`, `login` | the token of the cached client; the token about to be verified |
| `answers`, `stored`, `promised` | what `SecretDelivery` takes from the server: the container runs and is unsealed; the secrets seeded; the script came to its end and none of its commands failed |
| `blips` | how often a Variable could not be read, a bound |
| `calm` | kept by no code: all has been well since the try began |

`GetConn`, `Authenticate`, `Verify` and `ReadSecret` are the calls that leave the
process; between any two of them the server may change (`Meanwhile`), a token may
expire or be revoked (`Invalidate`) and the Variable may be given a new one
(`Rotate`). `Raise` fails the try, and the next one has a hook of its own. A
Variable that cannot be read is replaced by the environment (`_get_var`).

## 3. The runs

All bounds are constants of the modules; none is a state constraint.

| run | instance | shows |
|---|---|---|
| `sql_overlap` | 2 rows, stamps 1..3, 2 overlapping runs, 1 retry, 1 fault | `NoGap`, `SuccessIsTruthful`, `SavedIsPublished`, `BackOnlyByOverlap`, `SnapshotLanded`, and that the pipeline implements `Landing` |
| `sql_serial` | 3 runs one at a time, stamps 1..4 in halves, 1 fault | `NoGap` with truncation, `DisjointWindows`, `NeverMovesBack` |
| `nosql_zero` | stamps 0..1, deletes, Kafka events | `NoGap`, `SnapshotLanded`, `Landing` with a lower bound only and the falsy 0 |
| `runs_end` | 2 overlapping runs, faults for ever | every run ends (`RunsEnd`), and each of its steps brings the end nearer (`EveryStepCounts`) |
| `run_context` | 2 runs of one DAG and 1 of another, 2 in flight; a table with a datetime column (2 rows, counted) and one with a text column (1 row), one DAG deployed on each; 1 edit, 1 retry, 1 fault | `PathNamesOrigin`, `CountIsTruthful`, `GapsNeedRetarget`, `OnlyConfigFailsRuns`, and that each DAG that keeps its table implements `Landing` |
| `files` | S3 and HDFS, 2 files, 4 changes, 2 runs, 2 retries, 2 faults each | `WindowIsLanded`, and for S3, whose listing has up to 2 pages, `StandingIsVouched`; in an HDFS sink part of a file may remain |
| `kafka_offsets` | 1 or 2 partitions at first, at most 2, 2 messages each, 3 runs one at a time, 1 retry, 1 fault; the source accepted or not | `Gapless`, `NoDuplicates`, `OnlyGrowthFailsRuns`, `OffsetsNeverMoveBack`, `SavedWindowsAreContiguous`, and that each partition implements `Landing` |
| `bao_restarts` | 2 secrets, 2 deaths, 3 starts, 1 failing command; beside it a task with 1 retry, 3 tokens, 1 Variable that cannot be read | `ReadyIsUsable`, `GivesUpOnLostKeys`, `SavedFilesSurvive`, `ServingIsEnough`, and that the script implements `KeyCustody` |
| `doc_mongodb`, `doc_kafka_source`, `doc_file_retries`, `doc_bao_marker` | small | refute a statement of the documentation, see section 5 |

*Why the bounds are enough.* A gap needs one row that is behind a checkpoint and
another that raised it: two rows. A stale window needs three stamps: one below, one
inside, one after. Overlap needs two runs; with a third stamp one of them can save
an older checkpoint than the other. Disjoint windows need three runs: the first
reads everything, so only the second and third are incremental. One fault is enough
to make any one step fail in any state. For the copies, two retries are the first
number at which the third try meets what both earlier ones left. For Kafka, three
runs give two windows that both start at saved offsets, and one partition beside
another is enough for the offsets to name too few. In `run_context` two runs of one
DAG hand a checkpoint on, and the run of the other DAG writes to the same path once
one edit has made the tables equal; two rows let a table grow between a count and
its write. Two secrets and three tokens let a token expire and be replaced between
the reads, and die in use; `init` reads three. The theorems of section 4 hold for
any number of all of these: they are why no larger instance of `bao_restarts` or
`run_context` is checked.

*Symmetry.* Rows, runs, files, partitions and tokens are model values the modules only
compare for equality, so their permutations are used, except in `runs_end`, where
symmetry would be unsound for liveness. In `run_context` only the two runs of one
DAG are interchangeable, and only because what tells their `run_id` apart is
removed by `re.sub`; in `bao_restarts` only the tokens other than the
environment's.

*Deadlock.* The runs of an instance are finitely many and all end, and nothing
obliges anyone to start the container again, so the instances may stop
(`CHECK_DEADLOCK FALSE`). That a run does not stop half way is `RunsEnd`.

*Fairness.* Only `runs_end` uses any: `WF_vars(Execute(r))` for each run. The
Airflow executor keeps working on a task it has started and starts the next one
or the retry, so a run that can take a step eventually takes one. Two things are
assumed with it: workers are available, and every external call returns (no task
has an `execution_timeout`; a call that hangs would hang its run). Nothing is
assumed about the source, about when runs are triggered, or about faults ceasing:
`FaultsRecur` lets them go on for ever, and `RunsEnd` holds because retries run
out.

*Properties worth a second look.*

- `NoGap` is about the checkpoint in the store, whoever put it there. It holds
  although overlapping runs may move the checkpoint *back* (the upsert is
  unconditional): a lower checkpoint repeats rows and loses none.
- `BackOnlyByOverlap` says when it may: only behind the save of another run, i.e. no
  run that fetched the checkpoint in the store saves a lower one. And whatever a
  failed or empty MAX captured (None, NULL), a saved checkpoint is not withdrawn.
  It is about a source that does not delete.
- `SuccessIsTruthful` also covers runs that fail after publishing.
- `SnapshotLanded` is per run and does not mention the checkpoint: a row that
  was there when the run captured its upper bound, and has not changed since, is
  in the sink when the write succeeds. It does not hold for a fractional column.
- `SavedIsPublished` holds for SQS and Redis, not for Kafka.
- `PathNamesOrigin` does not say whose rows a path holds: two runs may share one
  (two DAGs over one table, or run ids that `re.sub` makes equal), and a retry
  appends beside the try that failed. The properties say what can still be told.
- `CountIsTruthful` compares an event with the *last* try of its run. It is `cache()`
  that makes the count and the write one evaluation of the query; without it the
  table could grow between them. It excuses runs that lost cached blocks.
- `GapsNeedRetarget` leaves the one gap the code does have: the checkpoint of a
  DAG survives a change of the table named in its file, and bounds the first
  read of the new one. A repaired file counts as a change, since it may name
  anything.
- `OnlyConfigFailsRuns` names what fails a run without a fault: a broken file, a
  column of strings (the second incremental query is refused), or a checkpoint of another type.
- `DagsImplementLanding` ends for a DAG with the first step after which its file does
  not parse or has named another table: from there its checkpoint may be of
  either table. It says more than `GapsNeedRetarget`: what lands was in the
  table when it was written, and no step seals, saves or lands in any other way.
- `PartitionsImplementLanding` also holds with overlapping runs, where saved offsets may
  move back or name fewer partitions than those before; `OffsetsNeverMoveBack`, and so
  the instance `kafka_offsets`, is about runs that follow one another, which rule
  both out. For overlapping runs the theorem stands alone.
- `EveryStepCounts` is the half of `RunsEnd` that needs no fairness: a run has a number of
  steps left, each of its own steps uses up at least one, no other step adds any.
- `KeepsCustody` has no exception for commands that fail: whatever goes wrong, keys
  are not made twice, lost keys are not found again and a sealed server takes no secrets.
- `WindowIsLanded` also covers what failed tries left: a success after them vouches
  for whole and current files, in the directory the last try chose.
- `StandingIsVouched` is the converse: a file that has stood unchanged since the first page
  was asked for is within the window that is about to be saved and landed, although no
  page shows the prefix as it was at one time. A file that comes or changes
  meanwhile may have missed its page; the checkpoint need not reach it. Only a
  fault may leave the run without a window.
- `SavedWindowsAreContiguous` joins what a run saves to what the run before it saved,
  however many runs failed in between: a window starts exactly where the last saved one
  ended, over the same partitions. So a topic that has got a partition has no
  save any more, which is the trap of `OnlyGrowthFailsRuns` seen from the checkpoint.
- `Gapless` speaks of the messages the broker still has. What retention took
  before any run had read it is lost without an error, by design of
  `failOnDataLoss`.
- `OnlyGrowthFailsRuns` leaves one exception, and it is a trap: once the topic has
  a partition that the saved offsets do not name, every window that starts there
  is refused, so that no later run can replace the saved offsets.
- `ServingIsEnough` speaks of tries that were `calm`: the server was up and fully
  seeded, and the credentials named a live token, from the beginning of the try
  to its failure. Tokens that expired between two reads do not excuse a failure;
  one that died between the check and the read does, and so does a Variable that
  could not be read.

## 4. The proofs

Every invariant and every action property that a passing run checks is also
proved, for any sets of rows, runs, stamps, DAGs, tables, files, partitions,
tokens and secrets, and any number of retries, faults, edits and restarts.

| module | theorem | states | hypotheses |
|---|---|---|---|
| `IngestionPipeline_proofs` | `TypeCorrect` | `[]TypeOK` | |
| | `Invariance` | the inductive invariant `IInv` | `Kind # "mongodb"` |
| | `CheckpointLeavesNoGap` | `[]NoGap` | `Kind # "mongodb"` |
| | `SuccessEventsAreTruthful` | `[]SuccessIsTruthful` | `Kind # "mongodb"` |
| | `PipelineImplementsLanding` | the pipeline implements `Landing!LSpec` | `Kind # "mongodb"` |
| | `StepsAreUsedUp` | `EveryStepCounts` | |
| | `RunsAreFinite` | a run has at most `6 * (Retries + 1) + 1` steps | |
| | `SavedCheckpointsArePublished` | `[]SavedIsPublished` | `MetricType # "kafka_queue"` |
| | `WritesLandTheSnapshot` | `SnapshotLanded` | `Kind` is `"sql"` or `"nosql"`, `Grain = 1` |
| `IngestionSerial_proofs` | `CheckpointBackOnlyByOverlap` | `BackOnlyByOverlap`, with any overlap of runs | no deletes |
| | `CheckpointNeverMovesBack` | `NeverMovesBack` | `MaxActive = 1`, no deletes |
| | `SerialWindowsAreDisjoint` | `[]DisjointWindows` | the same, `Kind = "sql"` |
| `Landing_proofs` | `WatermarkIsComplete` | in `Landing`, every on-time version at or below the watermark is landed | `None \notin Nat` |
| `RunContext_proofs` | `XComRoundTrip`, `NextStartsFromCaptured` | a parsed checkpoint comes through XCom as it is; the next run starts from the parsed value of what the last one captured, for each kind of value a driver returns | |
| | `TypeCorrect` | `[]TypeOK` | |
| | `PathsTellTheOrigin` | `[]PathNamesOrigin` | |
| | `Invariance`, `CheckpointsLeaveNoGap` | `IInv`, `[]GapsNeedRetarget` | |
| | `FailuresAreExplained` | `[]OnlyConfigFailsRuns` | |
| | `CountsAreTruthful` | `[]CountIsTruthful` | |
| | `EveryDagImplementsLanding` | `DagsImplementLanding`: each DAG that keeps its table implements `Landing` | |
| `FileLanding_proofs` | `TypeCorrect` | `[]TypeOK` | |
| | `Invariance`, `CopiedWindowIsLanded` | `IInv`, `[]WindowIsLanded` | |
| | `StandingFilesAreVouched` | `[]StandingIsVouched` | |
| `KafkaWindow_proofs` | `TypeCorrect` | `[]TypeOK` | |
| | `Invariance`, `OffsetsLeaveNoGap` | `IInv`, `[]Gapless`, with any overlap of runs | |
| | `NoGrowthNoFailure` | `[]OnlyGrowthFailsRuns` | |
| | `SerialRunsShareNothing` | `[]NoDuplicates` | `MaxActive = 1` |
| | `SavedOffsetsGrow` | `OffsetsNeverMoveBack` | `MaxActive = 1` |
| | `SavedWindowsFollow` | `SavedWindowsAreContiguous` | `MaxActive = 1` |
| | `KafkaImplementsLanding`, `EachPartitionImplementsLanding` | `PartitionsImplementLanding`; `Landing!LSpec` of each partition | |
| `OpenBaoEntrypoint_proofs` | `TypeCorrect` | `[]TypeOK` | |
| | `SavedFilesAreKept` | `SavedFilesSurvive` | |
| | `Invariance`, `ServingIsUsable` | `IInv`, `[]ReadyIsUsable` | |
| | `GivingUpHasAReason` | `[]GivesUpOnLostKeys` | |
| | `EntrypointKeepsCustody` | `KeepsCustody`: the script implements `KeyCustody` | |
| `SecretDelivery_proofs` | `TaskTypeCorrect` | `[]TaskTypeOK` | |
| | `ServingSuffices` | `ServingIsEnough` | |

*Assumptions.* Those named in the modules (`TimestampsAssumption`,
`KindAssumption`, `ColumnAssumption`, ...), which TLC evaluates on every run. The
hypotheses in the table are part of the statements: coverage fails for MongoDB
(see `doc_mongodb`), a Kafka queue loses events, with overlapping runs the
checkpoint may move back and windows may overlap, and where rows are deleted the
MAX itself may be lower than the checkpoint.

*The pipeline.* `NoGap` is not inductive: when a checkpoint is saved, that it is
covered depends on what the run landed, hence on what its batch held, hence on
the window it was read with, and on the lower bound of that window having been
covered when it was fetched. `IInv` says so, one conjunct per link:

- `CheckpointSafe`, `LowerBoundsSafe`: the checkpoint, and every lower bound, is
  covered *and sealed*, i.e. at or below the horizon. Sealed bounds stay covered
  when the source changes: a version that appears at or below one is late.
- `UpperBoundsSealed`: every captured bound is sealed, so what is added after the
  capture cannot spoil it.
- `BatchComplete`: between read and write, each on-time version at or below the
  upper bound is in the sink or in the batch. What the read leaves out is at or
  below a lower bound that is safe (`UnselectedIsOutside`), or above the upper.
- `WindowLanded`: after the write, the upper bound is covered.

The steps are one lemma for the source (`SourceIInv`) and one for the operators
(`RunIInv`), which cites one frame lemma and one effect lemma per operator. The
refinement maps the checkpoint to the watermark, the union of the batches to what
was fetched, the horizon to what is sealed. `CheckpointLeavesNoGap` also follows
from `PipelineImplementsLanding` and `WatermarkIsComplete`; both ways are kept,
because the first needs no abstraction and the second says what a consumer sees.
`WritesLandTheSnapshot` adds what is known of the rows that are `fresh`: they lie
within the window (`FreshInWindow`), and between read and write they are landed or
in hand (`FreshInHand`).

*Runs that overlap.* `CheckpointBackOnlyByOverlap` needs two facts of a source that does
not delete: every value that was captured or fetched is still reached by the table
(`WindowsReached`), so that a MAX taken later is no lower; hence the upper bound of a
window is at or above its lower one (`WindowsForward`). A run that saves a lower
value than the store has did not fetch that value: another run saved in between.

*One run at a time.* The checkpoint never moves back because a run that has
captured its bound is at or ahead of the checkpoint (`CapturedIsAhead`): the run
is alone (`OneAtATime`), and a source that keeps its rows still reaches every
value that was ever captured (`StillReached`), so that the MAX is no lower; the
truncation of a fraction keeps the order (`ParseKeepsOrder`). From there windows
are disjoint: what a run lands is within its window (`WithinWindow`), a run that
has saved is at or below the checkpoint (`SavedIsBelow`), hence at or below the lower
bound of any later run (`SavedBeforeActive`), hence the windows of two runs that
have saved are ordered (`SavedAreOrdered`). `KafkaWindow` has the same argument
over offset maps, where "at or below" is an order by partition.

*Kafka.* `IInv` is that of the pipeline with offsets for stamps; appended messages are
above every captured offset, so nothing can be late. `UnknownIsEmpty` is what
makes a new partition harmless: offsets that do not name it promise nothing
about it. The refinement takes one partition at a time. A produced message is
above what is sealed, because captured offsets are at or below the end; a capture
seals the end, or nothing new; a checkpoint that is saved was captured and is
complete (`WindowLanded`), or does not name the partition. What is sealed is
the maximum of a set of offsets, and that a finite set of numbers has one
(`MaxOfOffsets`, `MaxOfNumbers`) comes from the well-foundedness of strict inclusion:
among the sets of elements above an element there is a least.
`SavedOffsetsGrow` rests on the invariant of `SerialRunsShareNothing`, of which it is a
second use: a run that is alone has captured offsets at or ahead of the
saved ones, partition by partition. `SavedWindowsFollow` adds that a run past its fetch
starts from the saved offsets (`FromIsSaved`), which no other run replaces meanwhile,
and that a window which Spark has accepted names the same partitions at both ends
(`SamePartitions`).

*Runs are finite.* `StepsLeft` counts what a run can still do: the steps of its
tasks, those of the current one once more for each retry left. A success passes to
the next task and a failure uses up a retry, so every step of a run lowers the
number, and no other step touches it. Nothing is assumed about faults.

*Files.* There are two loops. `ListProgress` is the invariant of the listing: a file that
stands is on a page still to come, or no newer than the newest time so far; when
the pages are used up, it is in the window (`InWindow`). `CopyProgress` is the
invariant of the copy: a file that is promised is still to be copied or already
landed, and `DueIsLanded` is what is left of it at the end. `TimesArePast`
gives both a captured bound that later changes exceed.

*Several DAGs.* `Invariance` is about the DAGs that have kept their table
(`Steady`): the context of their runs names that table (`SteadyConfig`), their
checkpoint and the lower bounds are values that were captured from it and up to
which all is landed (`SavedCovered`, `FromCovered`), upper bounds are no higher than
the table (`ToSealed`), the cache holds the window (`CacheComplete`), and after the
write it is covered (`WindowCovered`). With three more conjuncts (a steady DAG still
reads the table it was deployed with, `SteadyHome`; a run captures once,
`NotCaptured` and `NothingYet`) it is also what `EveryDagImplementsLanding` needs:
an insert is above every captured bound, a capture seals the number of rows, a write
lands rows that the query has found in the table, a saved checkpoint is a captured
one up to which all is landed. Each lemma is about one DAG and one operator; the
steps of other DAGs leave the mapping alone. `CountsAreTruthful` has an invariant of
its own: a try starts without a count or a cache (`LeftOvers`), a count is that of
the cache (`CountedIsCached`), after the write that of the last try
(`CountedIsLanded`).

*Bootstrap.* `IInv` has a part for every execution (a file that was written well is
never written again, `FilesAreOnce`) and one for those in which no command fails
(`Clean`): then files and variables hold no garbage, `bao status` says the truth,
and once the script is past the unsealing the server stays unsealed and is seeded in
order. `KeepsCustody` needs only `FilesAreOnce` and what each command of the script
finds of the server (`CustodyInv`), with no assumption on commands.

*Secrets.* `ServingIsEnough` is an action property over two components. Its
invariant says that a calm try has a server that promises everything
(`CalmIsWell`, by `ServingIsUsable` of the script) and holds a live token
whenever it is about to use one (`CalmTokensLive`).

*Only model-checked.* `RunsEnd`, which is liveness under fairness and out of the
prover's reach. What of it needs no fairness is proved (`StepsAreUsedUp`,
`RunsAreFinite`): what is left to TLC is that a run which has not ended can
take a step (`ENABLED`), and that it is then given one. No module declares a
`RECURSIVE` operator, and nothing is proved by induction over data.

*No abstract specification.* `FileLanding` has none: a copy goes to a path of its
own run, may be overwritten by the next try and keeps nothing for the run after it,
so that `WindowIsLanded` already says all of it.

## 5. Disagreements between code and documentation

Each of these has a run:

- `doc_mongodb`: the `$match` stage compares the column with the checkpoint as a
  quoted string. MongoDB compares values of one BSON type, so with a number or a
  date nothing passes: from the second run on nothing is landed, and the
  checkpoint advances. The README says later runs read "only rows newer than the
  last saved checkpoint".
- `doc_kafka_source`: no Kafka pipeline gets past `init`; the configuration of
  the demo says it "lands the raw messages as Parquet files in HDFS".
- `doc_file_retries`: from the third try on, a copy always fails.
- `doc_bao_marker`: the marker says "initialization complete" although a put failed,
  and no later start repeats the puts.

The following were met while modelling, follow directly from the definitions
named, and have no run of their own:

- the first run, and any run after a failed MAX query, has no upper limit and no
  lower limit in JDBC (`SqlSelects`), while the README says that MAX "bounds the
  read window so each run has a deterministic upper limit";
- `int(val)` drops the fraction of a Decimal MAX (`ReadWindow!ParseCheckpoint`): the
  newest rows a run saw are not landed by that run;
- the data flow chart persists the checkpoint and then publishes; the code
  publishes first (`Publish`, `SaveCheckpoint`);
- a message that the Kafka producer could not deliver does not fail the task
  (`PublishLost`);
- a retried copy keeps a first copy beside the second (`ChooseTarget`), although
  the call passes `overwrite`;
- file sources are copied whole on every run (`ListFiles`), although the README
  describes a filter for HDFS and S3;
- on HDFS the captured checkpoint is the time of the directory (`StatPath`), which
  a file rewritten in place does not move, although the docstring promises the
  "latest file modification time";
- `README.md:402` quotes the bound of every SQL query (`> '{checkpoint_from}'`), but
  `_format_checkpoint` quotes dates only: with a column of strings the second run
  is refused by the database, and every later one (`Refused` in `RunContext`);
- the docstring of `SinkConfig` (`adapters/write/base_write_adapter.py:59`) calls
  `run_id` a "Unique identifier for this pipeline run", but as a part of the path
  it is sanitised and not joined by the DAG, so two runs may share a path
  (`WritePath`);
- `README.md:98` and `README.md:444` describe Kubernetes authentication for the
  hook, which knows two methods and takes any other for "token" (`AuthMethod`).

## 6. What is not modelled

- The decoding of Kafka messages, and a topic that is deleted and created again.
- The file read adapters' `read()`: never called for a path source.
- The S3 settings of the Spark session, which source and sink adapter share
  (`adapters/write/sink/sink_s3_adapter.py:65`,
  `adapters/source/file/source_s3_adapter.py:53`), and Hadoop's cache of file systems:
  which object a call gets is decided inside Hadoop.
- The result of the sink's `validate_connection`, which nobody looks at: the
  write fails instead, which is a fault of the models.
- Endpoint, system, database and schema of a path: the table stands for them. The
  copy of a path source to a name with colons, which the sink may refuse.
- JDBC reads partitioned by `read_options`; numeric strings of DynamoDB; a column
  of strings that read as dates; a fraction in the codec (`Grain` of `ReadWindow`
  has it instead).
- The metric queue is the one of the run, although each try reads it from the
  file anew; message bodies but for the record count; the trimming of the Redis
  stream, whose consumers are not in the repository; the secondary Redis push
  (nothing sets its configuration).
- Which of a configuration's fields is missing (every such file is `Broken`); the
  git helpers, which choose a word of a log line.
- Bounds of a SQL query as texts: PostgreSQL compares `{from} < {to}`
  (`adapters/source/sql_adapter.py:75`) as two strings, `SqlSelects` as two numbers. They
  differ when two timestamps are written with different UTC offsets; the window
  might then be empty while the checkpoint advances.
- A custom `query` that filters rows: the kind "query" selects the whole table, over
  which the MAX runs. It and "no_column" occur in the theorems, in no run of TLC.
- A checkpoint that is an empty string, and blanks around one.
- Ties of modification times, which have a granularity of one second.
- The exit of the entry point script when `bao operator init` has succeeded with
  an output that names no keys (`demo/openbao/entrypoint.sh:129`); the environment's
  method, user and password of `OpenBaoHook`, and Variables set to the empty string.
- Deployment: images, compose file, `init.sh` (not started by the compose file),
  the hand-written demo DAGs.

Modelled from outside the repository, and marked external in `PROJECT.json`:
Airflow's retries and scheduling, the source's transactions, the owners of tables
and files, `FileUtil.copy`, the Kafka broker, the OpenBao server and its tokens.

## 7. Plan

What the code has left for models of this kind:

1. Metric adapters with a consumer: which events are read when the stream is
   trimmed at its `maxlen`. It needs a consumer, which the repository does not
   have; its interface would have to be stated first.
2. `FileLanding` with overlapping runs and an S3 to S3 copy, once the settings of the
   session are no longer shared.
3. `KafkaWindow` over topics that are deleted and created again, and with a
   decoder that may drop a message, once `SinkConfigFactory` takes the source.
