------------------------- MODULE IngestionPipeline -------------------------
(***************************************************************************)
(* One ingestion DAG, init >> spark_run >> metric_push, over the runs that *)
(* Airflow starts for it, for a source that is a table.                    *)
(*                                                                         *)
(* The tasks of a run share nothing in memory: InitOperator resolves the   *)
(* window (from, to] and hands it on through XCom, SparkRunOperator lands  *)
(* what the read adapter selects, MetricPushOperator publishes an event    *)
(* and saves `to` as the checkpoint of the DAG.  The source keeps changing *)
(* at every point in between, several runs of the DAG may be in flight     *)
(* (the DAGs set no max_active_runs), any external call may fail and any   *)
(* worker may die; Airflow then starts the task again from its beginning.  *)
(*                                                                         *)
(* A step of a run is the code between two accesses to state that others   *)
(* can see: the checkpoint row, the source, the sink, the metric queue.    *)
(***************************************************************************)
EXTENDS ReadWindow, FiniteSets

CONSTANTS
    Rows,           \* primary keys of the source table
    Timestamps,     \* values of the checkpoint column
    Runs,           \* the DAG runs
    Kind,           \* the kind of source, one of TableKinds
    Grain,          \* see ParseCheckpoint
    MaxActive,      \* Airflow's max_active_runs for the DAG
    Retries,        \* "retries" of the DAG's default_args
    MetricType,     \* the metric queue, one of MetricTypes
    CheckpointConn, \* was MetricPushOperator given a checkpoint_conn_id?
    HardDeletes,    \* does the source delete rows?
    MaxFaults,      \* bound: faults that are counted
    FaultsRecur     \* may faults go on when that many have been counted?

ASSUME TimestampsAssumption == Timestamps \subseteq Nat
ASSUME GrainAssumption == Grain \in Nat \ {0}
ASSUME KindAssumption == Kind \in TableKinds
ASSUME RetriesAssumption == Retries \in Nat
ASSUME MaxFaultsAssumption == MaxFaults \in Nat

(***************************************************************************)
(* SQS, Redis Streams and Kafka: what _build_metric_adapter can build.     *)
(***************************************************************************)
MetricTypes == {"cloud_queue", "onprem_queue", "kafka_queue"}

ASSUME MetricTypeAssumption == MetricType \in MetricTypes
ASSUME FlagsAssumption ==
    CheckpointConn \in BOOLEAN /\ HardDeletes \in BOOLEAN /\ FaultsRecur \in BOOLEAN

VARIABLES
    table,       \* row -> its checkpoint column, None when absent
    checkpoint,  \* checkpoint_to of the DAG's row in public.checkpoints
    pc,          \* run -> the step it is at
    tries,       \* run -> retries its current task has used
    from,        \* run -> checkpoint_from, in XCom once init has succeeded
    to,          \* run -> checkpoint_to, likewise
    batch,       \* run -> versions the DataFrame holds, to be written
    sink,        \* records under the sink's root path
    metrics,     \* events in the metric queue
    faults       \* faults so far, up to MaxFaults

(***************************************************************************)
(* Variables no code keeps, for the properties: the highest checkpoint_to  *)
(* captured so far; the versions the source committed at or below it,      *)
(* after its capture; and, until the run has written, the rows that were   *)
(* there when it captured its checkpoint_to and have not changed since.    *)
(***************************************************************************)
VARIABLES horizon, late, fresh

sysvars == <<table, checkpoint, pc, tries, from, to, batch, sink, metrics, faults>>
vars == <<sysvars, horizon, late, fresh>>

-----------------------------------------------------------------------------
Value == Nat \cup {None}
Versions == Rows \X Nat
SinkRecord == [run : Runs, version : Versions]
Event == [run : Runs, status : {"success", "failed"}]

InitSteps == {"init", "init.to"}
SparkSteps == {"spark", "spark.write"}
MetricSteps == {"metric", "metric.save"}
Ended == {"done", "failed"}
Steps == {"idle"} \cup InitSteps \cup SparkSteps \cup MetricSteps \cup Ended

Active == {r \in Runs : pc[r] \notin {"idle"} \cup Ended}
Written(r) == pc[r] \in MetricSteps \cup {"done"}

Present == {row \in Rows : table[row] # None}
Version(row) == <<row, table[row]>>
AtOrBelow(ts, bound) == bound # None /\ ts <= bound

LandedVersions == {rec.version : rec \in sink}

-----------------------------------------------------------------------------
Init ==
    /\ table = [row \in Rows |-> None]
    /\ checkpoint = None
    /\ pc = [r \in Runs |-> "idle"]
    /\ tries = [r \in Runs |-> 0]
    /\ from = [r \in Runs |-> None]
    /\ to = [r \in Runs |-> None]
    /\ batch = [r \in Runs |-> {}]
    /\ sink = {}
    /\ metrics = {}
    /\ faults = 0
    /\ horizon = None
    /\ late = {}
    /\ fresh = [r \in Runs |-> {}]

(***************************************************************************)
(* The source: a transaction that stamps a row becomes visible.  Stamps of *)
(* one row increase, but transactions commit in any order, so a stamp may  *)
(* be no higher than others already visible.                               *)
(***************************************************************************)
Commit(row, ts) ==
    /\ table[row] # None => table[row] < ts
    /\ table' = [table EXCEPT ![row] = ts]
    /\ late' = IF AtOrBelow(ts, horizon) THEN late \cup {<<row, ts>>} ELSE late
    /\ fresh' = [r \in Runs |-> fresh[r] \ {row}]
    /\ UNCHANGED <<checkpoint, pc, tries, from, to, batch, sink, metrics, faults, horizon>>

Delete(row) ==
    /\ HardDeletes
    /\ table[row] # None
    /\ table' = [table EXCEPT ![row] = None]
    /\ fresh' = [r \in Runs |-> fresh[r] \ {row}]
    /\ UNCHANGED <<checkpoint, pc, tries, from, to, batch, sink, metrics, faults, horizon, late>>

-----------------------------------------------------------------------------
(***************************************************************************)
(* Airflow starts a run, on schedule or by hand.                           *)
(***************************************************************************)
Trigger(r) ==
    /\ pc[r] = "idle"
    /\ Cardinality(Active) < MaxActive
    /\ pc' = [pc EXCEPT ![r] = "init"]
    /\ UNCHANGED <<table, checkpoint, tries, from, to, batch, sink, metrics, faults, horizon, late, fresh>>

(***************************************************************************)
(* The task of run r succeeds and the next begins at `next`.               *)
(***************************************************************************)
Succeed(r, next) ==
    /\ pc' = [pc EXCEPT ![r] = next]
    /\ tries' = [tries EXCEPT ![r] = 0]

Fail_MutantForever(r, start) ==
    /\ tries' = [tries EXCEPT ![r] = IF @ < Retries THEN @ + 1 ELSE 0]
    /\ pc' = [pc EXCEPT ![r] = start]

Fail_MutantOneTooMany(r, start) ==
    \/ /\ tries[r] <= Retries
       /\ tries' = [tries EXCEPT ![r] = @ + 1]
       /\ pc' = [pc EXCEPT ![r] = start]
    \/ /\ tries[r] > Retries
       /\ pc' = [pc EXCEPT ![r] = "failed"]
       /\ UNCHANGED tries

(***************************************************************************)
(* The task of run r that begins at `start` fails: Airflow runs it again   *)
(* from there while it has retries left, and fails the run otherwise.      *)
(***************************************************************************)
Fail(r, start) ==
    \/ /\ tries[r] < Retries
       /\ tries' = [tries EXCEPT ![r] = @ + 1]
       /\ pc' = [pc EXCEPT ![r] = start]
    \/ /\ tries[r] >= Retries
       /\ pc' = [pc EXCEPT ![r] = "failed"]
       /\ UNCHANGED tries

Fault ==
    \/ faults < MaxFaults /\ faults' = faults + 1
    \/ faults = MaxFaults /\ FaultsRecur /\ UNCHANGED faults

-----------------------------------------------------------------------------
(***************************************************************************)
(* InitOperator.                                                           *)
(***************************************************************************)
FetchFrom(r) ==
    /\ pc[r] = "init"
    /\ from' = [from EXCEPT ![r] = checkpoint]
    /\ pc' = [pc EXCEPT ![r] = "init.to"]
    /\ UNCHANGED <<table, checkpoint, tries, to, batch, sink, metrics, faults, horizon, late, fresh>>

IsMax_MutantAnyRow(row) == row \in Present

(***************************************************************************)
(* The native MAX query.                                                   *)
(***************************************************************************)
IsMax(row) == row \in Present /\ \A other \in Present : table[other] <= table[row]

(***************************************************************************)
(* The RunContext and its push to XCom: to_dict keeps an int, a datetime   *)
(* or None as it is, under a type tag, and from_dict takes it back.        *)
(***************************************************************************)
PushWindow(r, bound) ==
    /\ pc[r] = "init.to"
    /\ to' = [to EXCEPT ![r] = bound]
    /\ fresh' = [fresh EXCEPT ![r] = Present]
    /\ Succeed(r, "spark")
    /\ UNCHANGED <<table, checkpoint, from, batch, sink, metrics, late>>

(***************************************************************************)
(* What is sealed is the parsed value, and no more than the MAX itself.    *)
(***************************************************************************)
Capture(r, max) ==
    LET parsed == ParseCheckpoint(Grain, max)
        sealed == IF parsed <= max THEN parsed ELSE max
    IN  /\ PushWindow(r, parsed)
        /\ horizon' = IF AtOrBelow(sealed, horizon) THEN horizon ELSE sealed

FetchTo(r) ==
    /\ \/ /\ Kind # "no_column"
          /\ \E row \in Rows : IsMax(row) /\ Capture(r, table[row])
       \/ /\ Kind = "no_column" \/ Present = {}
          /\ PushWindow(r, None)
          /\ UNCHANGED horizon
    /\ UNCHANGED faults

(***************************************************************************)
(* A failed MAX query does not fail the task: _fetch_checkpoint_to logs    *)
(* it and the run proceeds "without upper bound".                          *)
(***************************************************************************)
FetchToFails(r) ==
    /\ Kind # "no_column"
    /\ PushWindow(r, None)
    /\ UNCHANGED horizon
    /\ Fault

(***************************************************************************)
(* Configuration, OpenBao or checkpoint store unavailable, or the worker   *)
(* dies: what the try resolved is gone.                                    *)
(***************************************************************************)
InitFails(r) ==
    /\ pc[r] \in InitSteps
    /\ from' = [from EXCEPT ![r] = None]
    /\ Fail(r, "init")
    /\ Fault
    /\ UNCHANGED <<table, checkpoint, to, batch, sink, metrics, horizon, late, fresh>>

-----------------------------------------------------------------------------
(***************************************************************************)
(* SparkRunOperator.                                                       *)
(*                                                                         *)
(* Up to the evaluation of the DataFrame: one query against the source.    *)
(***************************************************************************)
ReadSource(r) ==
    /\ pc[r] = "spark"
    /\ batch' = [batch EXCEPT ![r] =
            {Version(row) : row \in
                {x \in Present : Selects(Kind, from[r], to[r], table[x])}}]
    /\ pc' = [pc EXCEPT ![r] = "spark.write"]
    /\ UNCHANGED <<table, checkpoint, tries, from, to, sink, metrics, faults, horizon, late, fresh>>

(***************************************************************************)
(* Write mode append, to the path of the run: a second try adds to what    *)
(* the first one left there.                                               *)
(***************************************************************************)
Append(r, versions) == sink' = sink \cup {[run |-> r, version |-> v] : v \in versions}

WriteSink(r) ==
    /\ pc[r] = "spark.write"
    /\ Append(r, batch[r])
    /\ batch' = [batch EXCEPT ![r] = {}]
    /\ fresh' = [fresh EXCEPT ![r] = {}]
    /\ Succeed(r, "metric")
    /\ UNCHANGED <<table, checkpoint, from, to, metrics, faults, horizon, late>>

(***************************************************************************)
(* push_metric_inline, best effort: a publish that fails is only logged,   *)
(* and a worker that has died publishes nothing.                           *)
(***************************************************************************)
ReportFailure(r) == metrics' \in {metrics, metrics \cup {[run |-> r, status |-> "failed"]}}

SparkFails_MutantSwallowed(r) ==
    /\ pc[r] \in SparkSteps
    /\ \E part \in SUBSET batch[r] : Append(r, part)
    /\ batch' = [batch EXCEPT ![r] = {}]
    /\ ReportFailure(r)
    /\ Succeed(r, "metric")
    /\ Fault
    /\ UNCHANGED <<table, checkpoint, from, to, horizon, late, fresh>>

(***************************************************************************)
(* An exception, or the death of the worker, before, during or after the   *)
(* write: any part of the batch may be visible in the sink.                *)
(***************************************************************************)
SparkFails(r) ==
    /\ pc[r] \in SparkSteps
    /\ \E part \in SUBSET batch[r] : Append(r, part)
    /\ batch' = [batch EXCEPT ![r] = {}]
    /\ ReportFailure(r)
    /\ Fail(r, "spark")
    /\ Fault
    /\ UNCHANGED <<table, checkpoint, from, to, horizon, late, fresh>>

-----------------------------------------------------------------------------
(***************************************************************************)
(* MetricPushOperator.                                                     *)
(*                                                                         *)
(* SQS and Redis raise when the message is not accepted; kafka-python's    *)
(* flush() does not, so there the message may be lost unnoticed.           *)
(***************************************************************************)
Delivered_MutantStatus(r) == metrics' = metrics \cup {[run |-> r, status |-> "spark_run"]}

Delivered(r) == metrics' = metrics \cup {[run |-> r, status |-> "success"]}

Publish(r) ==
    /\ pc[r] = "metric"
    /\ Delivered(r)
    /\ pc' = [pc EXCEPT ![r] = "metric.save"]
    /\ UNCHANGED <<table, checkpoint, tries, from, to, batch, sink, faults, horizon, late, fresh>>

PublishLost(r) ==
    /\ pc[r] = "metric"
    /\ MetricType = "kafka_queue"
    /\ pc' = [pc EXCEPT ![r] = "metric.save"]
    /\ Fault
    /\ UNCHANGED <<table, checkpoint, tries, from, to, batch, sink, metrics, horizon, late, fresh>>

PublishFails_MutantSwallowed(r) ==
    /\ pc[r] = "metric"
    /\ Delivered(r) \/ UNCHANGED metrics
    /\ pc' = [pc EXCEPT ![r] = "metric.save"]
    /\ Fault
    /\ UNCHANGED <<table, checkpoint, tries, from, to, batch, sink, horizon, late, fresh>>

PublishFails(r) ==
    /\ pc[r] = "metric"
    /\ Delivered(r) \/ UNCHANGED metrics
    /\ Fail(r, "metric")
    /\ Fault
    /\ UNCHANGED <<table, checkpoint, from, to, batch, sink, horizon, late, fresh>>

Upserted_MutantNull(r) == checkpoint' = IF CheckpointConn THEN to[r] ELSE checkpoint

(***************************************************************************)
(* The unconditional upsert, skipped when there is nothing to save.        *)
(***************************************************************************)
Upserted(r) ==
    checkpoint' = IF to[r] # None /\ CheckpointConn THEN to[r] ELSE checkpoint

SaveCheckpoint(r) ==
    /\ pc[r] = "metric.save"
    /\ Upserted(r)
    /\ Succeed(r, "done")
    /\ UNCHANGED <<table, from, to, batch, sink, metrics, faults, horizon, late, fresh>>

(***************************************************************************)
(* The store is unreachable, or the connection or the worker is lost with  *)
(* the commit already done.                                                *)
(***************************************************************************)
SaveFails(r) ==
    /\ pc[r] = "metric.save"
    /\ Upserted(r) \/ UNCHANGED checkpoint
    /\ Fail(r, "metric")
    /\ Fault
    /\ UNCHANGED <<table, from, to, batch, sink, metrics, horizon, late, fresh>>

-----------------------------------------------------------------------------
InitOperator(r) == FetchFrom(r) \/ FetchTo(r) \/ FetchToFails(r) \/ InitFails(r)
SparkRunOperator(r) == ReadSource(r) \/ WriteSink(r) \/ SparkFails(r)
MetricPushOperator(r) ==
    Publish(r) \/ PublishLost(r) \/ PublishFails(r) \/ SaveCheckpoint(r) \/ SaveFails(r)
Execute(r) == InitOperator(r) \/ SparkRunOperator(r) \/ MetricPushOperator(r)

Source ==
    \E row \in Rows :
        \/ \E ts \in Timestamps : Commit(row, ts)
        \/ Delete(row)

Next == Source \/ \E r \in Runs : Trigger(r) \/ Execute(r)

Spec == Init /\ [][Next]_vars

(***************************************************************************)
(* The executor keeps working on a task it has started, and every call to  *)
(* an external system returns: none of the tasks has an execution timeout, *)
(* so a call that hangs would hang the run.  Nothing obliges the source to *)
(* change or a run to be triggered.                                        *)
(***************************************************************************)
FairSpec == Spec /\ \A r \in Runs : WF_vars(Execute(r))

=============================================================================
