----------------------------- MODULE RunContext -----------------------------
(***************************************************************************)
(* Several DAGs, one YAML file each, over PostgreSQL tables and one sink.  *)
(*                                                                         *)
(* Every task try parses the DAG file anew; InitOperator then loads the    *)
(* YAML file, resolves it into a RunContext and pushes that to XCom, where *)
(* SparkRunOperator and MetricPushOperator find it.  Meanwhile the files   *)
(* are edited: a DAG comes to read another table, or its file breaks.      *)
(*                                                                         *)
(* IngestionPipeline is about the rows of one DAG whose configuration is   *)
(* fixed; here a table only grows, its i-th row with the i-th value of the *)
(* checkpoint column, and the subject is what the runs of several DAGs     *)
(* share: the path they write to, the checkpoint table, the configuration. *)
(***************************************************************************)
EXTENDS CheckpointCodec, FiniteSetsExt, Functions

CONSTANTS
    Dags,        \* the YAML files; the DAG id is the file's stem
    Runs,        \* the DAG runs
    DagOf,       \* run -> its DAG
    Interval,    \* run -> data_interval_start
    RunId,       \* run -> its run_id
    Sanitised,   \* run_id -> what re.sub leaves of it
    Sources,     \* the tables a YAML file may name
    Column,      \* table -> the type of its checkpoint column
    Contents,    \* what a YAML file may say
    Deployed,    \* DAG -> what its file says at first
    Retries,     \* "retries" of the DAGs' default_args
    MaxInFlight, \* runs the scheduler has in flight
    MaxRows,     \* bound: table -> rows it may get
    MaxEdits, MaxFaults,  \* bounds
    Broken,      \* a YAML file that does not parse, or lacks a section
    None

ASSUME RetriesAssumption == Retries \in Nat
ASSUME BoundsAssumption ==
    MaxRows \in [Sources -> Nat] /\ MaxEdits \in Nat /\ MaxFaults \in Nat

(***************************************************************************)
(* A column of strings that read as dates is left out: there the quoted    *)
(* bounds of a window do compare, as text.                                 *)
(***************************************************************************)
ASSUME ColumnAssumption == Column \in [Sources -> RawKinds \ {"iso"}]
ASSUME RunsAssumption ==
    /\ DagOf \in [Runs -> Dags]
    /\ DOMAIN Interval = Runs
    /\ \A r \in Runs : RunId[r] \in DOMAIN Sanitised

VARIABLES
    rows,      \* table -> rows it has
    yaml,      \* DAG -> the configuration in its file, or Broken
    saved,     \* DAG -> its row in public.checkpoints: text, or None
    pc,        \* run -> the step it is at
    tries,     \* run -> retries its current task has used
    ctx,       \* run -> the RunContext, once init has begun to build it
    count,     \* run -> record_count in XCom, or None
    cache,     \* run -> rows df.cache() holds, or None
    sink,      \* records in the sink
    events,    \* events in the metric queue
    edits, faults

(***************************************************************************)
(* No code keeps these: the DAGs whose file has been broken at some time,  *)
(* those whose file has come to name another table or has been repaired,   *)
(* and the runs that lost cached rows.                                     *)
(***************************************************************************)
VARIABLES broke, retargeted, recomputed

files == <<yaml, edits, broke, retargeted>>
vars == <<rows, files, saved, pc, tries, ctx, count, cache, recomputed, sink, events, faults>>

-----------------------------------------------------------------------------
(***************************************************************************)
(* What the YAML says that matters here.                                   *)
(***************************************************************************)
Config == [source : Sources, counted : BOOLEAN]

ASSUME ContentsAssumption == Contents \subseteq Config /\ Deployed \in [Dags -> Contents]

Row == UNION {{s} \X (1..MaxRows[s]) : s \in Sources}
RowsOf(s) == {s} \X (1..rows[s])
Optional(S) == {None} \cup S

Context == [config : Config, from : Optional(Tagged), to : Optional(Tagged)]

ASSUME NoneAssumption ==
    None \notin Context \cup Raw \cup Nat /\ (\A part \in SUBSET Row : part # None) /\ Broken \notin Config

(***************************************************************************)
(* build_write_path: endpoint, system, database, schema and table are told *)
(* apart by the table alone; the DAG is no part of it.                     *)
(***************************************************************************)
WritePath(r, source) ==
    [table |-> source, interval |-> Interval[r], run_id |-> Sanitised[RunId[r]]]

Ended == {"done", "failed"}
Steps == {"idle", "init", "init.from", "init.to", "spark", "spark.count", "spark.write",
          "metric", "metric.save"} \cup Ended

Init ==
    /\ rows = [s \in Sources |-> 0]
    /\ yaml = Deployed
    /\ saved = [d \in Dags |-> None]
    /\ pc = [r \in Runs |-> "idle"]
    /\ tries = [r \in Runs |-> 0]
    /\ ctx = [r \in Runs |-> None]
    /\ count = [r \in Runs |-> None]
    /\ cache = [r \in Runs |-> None]
    /\ sink = {} /\ events = {}
    /\ edits = 0 /\ faults = 0
    /\ broke = {} /\ retargeted = {} /\ recomputed = {}

-----------------------------------------------------------------------------
Insert(s) ==
    /\ rows[s] < MaxRows[s]
    /\ rows' = [rows EXCEPT ![s] = @ + 1]
    /\ UNCHANGED <<files, saved, pc, tries, ctx, count, cache, recomputed, sink, events, faults>>

Edit(d, content) ==
    /\ edits < MaxEdits
    /\ edits' = edits + 1
    /\ content # yaml[d]
    /\ yaml' = [yaml EXCEPT ![d] = content]
    /\ IF content = Broken
       THEN broke' = broke \cup {d} /\ UNCHANGED retargeted
       ELSE /\ retargeted' = retargeted \cup
                 (IF yaml[d] = Broken \/ yaml[d].source # content.source THEN {d} ELSE {})
            /\ UNCHANGED broke
    /\ UNCHANGED <<rows, saved, pc, tries, ctx, count, cache, recomputed, sink, events, faults>>

(***************************************************************************)
(* A DAG whose file does not parse is not registered, and not scheduled.   *)
(***************************************************************************)
Trigger(r) ==
    /\ pc[r] = "idle"
    /\ yaml[DagOf[r]] # Broken
    /\ Cardinality({x \in Runs : pc[x] \notin {"idle"} \cup Ended}) < MaxInFlight
    /\ pc' = [pc EXCEPT ![r] = "init"]
    /\ UNCHANGED <<rows, files, saved, tries, ctx, count, cache, recomputed, sink, events, faults>>

Succeed(r, next) ==
    /\ pc' = [pc EXCEPT ![r] = next]
    /\ tries' = [tries EXCEPT ![r] = 0]

Fail_MutantOneTooMany(r, start) ==
    \/ /\ tries[r] <= Retries
       /\ tries' = [tries EXCEPT ![r] = @ + 1]
       /\ pc' = [pc EXCEPT ![r] = start]
    \/ /\ tries[r] > Retries
       /\ pc' = [pc EXCEPT ![r] = "failed"]
       /\ UNCHANGED tries

(***************************************************************************)
(* Airflow runs a failed task again from its start, or fails the run.      *)
(***************************************************************************)
Fail(r, start) ==
    \/ /\ tries[r] < Retries
       /\ tries' = [tries EXCEPT ![r] = @ + 1]
       /\ pc' = [pc EXCEPT ![r] = start]
    \/ /\ tries[r] >= Retries
       /\ pc' = [pc EXCEPT ![r] = "failed"]
       /\ UNCHANGED tries

Fault == faults < MaxFaults /\ faults' = faults + 1

(***************************************************************************)
(* A try of any task begins by parsing the DAG file: without its DAG the   *)
(* task cannot start.                                                      *)
(***************************************************************************)
ParseFails(r) ==
    /\ pc[r] \in {"init", "spark", "metric"}
    /\ yaml[DagOf[r]] = Broken
    /\ Fail(r, pc[r])
    /\ UNCHANGED <<rows, files, saved, ctx, count, cache, recomputed, sink, events, faults>>

Parses(r) == yaml[DagOf[r]] # Broken

-----------------------------------------------------------------------------
(***************************************************************************)
(* InitOperator.                                                           *)
(***************************************************************************)
LoadConfig(r) ==
    /\ pc[r] = "init" /\ Parses(r)
    /\ ctx' = [ctx EXCEPT ![r] = [config |-> yaml[DagOf[r]], from |-> None, to |-> None]]
    /\ pc' = [pc EXCEPT ![r] = "init.from"]
    /\ UNCHANGED <<rows, files, saved, tries, count, cache, recomputed, sink, events, faults>>

FetchFrom_MutantAnyDag(r) ==
    /\ pc[r] = "init.from"
    /\ \E d \in Dags :
        ctx' = [ctx EXCEPT ![r].from =
            IF saved[d] = None THEN None ELSE Serialise(ParseCheckpoint(saved[d]))]
    /\ pc' = [pc EXCEPT ![r] = "init.to"]
    /\ UNCHANGED <<rows, files, saved, tries, count, cache, recomputed, sink, events, faults>>

(***************************************************************************)
(* The checkpoint row of the DAG, whatever table it was saved for.         *)
(***************************************************************************)
FetchFrom(r) ==
    /\ pc[r] = "init.from"
    /\ LET text == saved[DagOf[r]] IN
        ctx' = [ctx EXCEPT ![r].from =
            IF text = None THEN None ELSE Serialise(ParseCheckpoint(text))]
    /\ pc' = [pc EXCEPT ![r] = "init.to"]
    /\ UNCHANGED <<rows, files, saved, tries, count, cache, recomputed, sink, events, faults>>

Maximum(s) ==
    IF rows[s] = 0 THEN None ELSE Serialise(ParseCheckpoint(<<Column[s], rows[s]>>))

(***************************************************************************)
(* A MAX query that fails is logged and leaves checkpoint_to None.         *)
(***************************************************************************)
FetchTo(r) ==
    /\ pc[r] = "init.to"
    /\ \/ ctx' = [ctx EXCEPT ![r].to = Maximum(ctx[r].config.source)] /\ UNCHANGED faults
       \/ UNCHANGED ctx /\ Fault
    /\ Succeed(r, "spark")
    /\ UNCHANGED <<rows, files, saved, count, cache, recomputed, sink, events>>

(***************************************************************************)
(* The XCom of a task is cleared when it is tried again.                   *)
(***************************************************************************)
InitFails(r) ==
    /\ pc[r] \in {"init", "init.from", "init.to"}
    /\ ctx' = [ctx EXCEPT ![r] = None]
    /\ Fail(r, "init")
    /\ Fault
    /\ UNCHANGED <<rows, files, saved, count, cache, recomputed, sink, events>>

-----------------------------------------------------------------------------
(***************************************************************************)
(* SparkRunOperator.  The bounds of the window are those of the context.   *)
(***************************************************************************)
From(r) == Deserialise(ctx[r].from)
To(r) == Deserialise(ctx[r].to)
Incremental(r) == ctx[r].from # None /\ ctx[r].to # None

Refused(r) ==
    /\ Incremental(r)
    /\ LET column == Column[ctx[r].config.source]
       IN  ~Compares(column, From(r)) \/ ~Compares(column, To(r))

(***************************************************************************)
(* What a query of the source returns now.                                 *)
(***************************************************************************)
Selected(r) ==
    {row \in RowsOf(ctx[r].config.source) :
        Incremental(r) => From(r)[2] < row[2] /\ row[2] <= To(r)[2]}

QueryRefused(r) ==
    /\ pc[r] = "spark" /\ Parses(r)
    /\ Refused(r)
    /\ Fail(r, "spark")
    /\ UNCHANGED <<rows, files, saved, ctx, count, cache, recomputed, sink, events, faults>>

ReadSource(r) ==
    /\ pc[r] = "spark" /\ Parses(r)
    /\ ~Refused(r)
    /\ pc' = [pc EXCEPT ![r] =
            IF ctx[r].config.counted THEN "spark.count" ELSE "spark.write"]
    /\ UNCHANGED <<rows, files, saved, tries, ctx, count, cache, recomputed, sink, events, faults>>

CountRecords_MutantNoCache(r) ==
    /\ pc[r] = "spark.count"
    /\ count' = [count EXCEPT ![r] = Cardinality(Selected(r))]
    /\ pc' = [pc EXCEPT ![r] = "spark.write"]
    /\ UNCHANGED <<rows, files, saved, tries, ctx, cache, recomputed, sink, events, faults>>

(***************************************************************************)
(* cache() and count(): the query is evaluated, and the count pushed.      *)
(***************************************************************************)
CountRecords(r) ==
    /\ pc[r] = "spark.count"
    /\ cache' = [cache EXCEPT ![r] = Selected(r)]
    /\ count' = [count EXCEPT ![r] = Cardinality(Selected(r))]
    /\ pc' = [pc EXCEPT ![r] = "spark.write"]
    /\ UNCHANGED <<rows, files, saved, tries, ctx, recomputed, sink, events, faults>>

(***************************************************************************)
(* An executor is lost, and what it held of the cache is computed again.   *)
(***************************************************************************)
LoseCache(r) ==
    /\ cache[r] # None
    /\ cache' = [cache EXCEPT ![r] = None]
    /\ Fault
    /\ recomputed' = recomputed \cup {r}
    /\ UNCHANGED <<rows, files, saved, pc, tries, ctx, count, sink, events>>

Frame(r) == IF cache[r] # None THEN cache[r] ELSE Selected(r)

Append(r, part, source) ==
    sink' = sink \cup
        {[path |-> WritePath(r, source), run |-> r, try |-> tries[r], row |-> row] : row \in part}

WriteSink_MutantReloadsConfig(r) ==
    /\ pc[r] = "spark.write" /\ Parses(r)
    /\ Append(r, Frame(r), yaml[DagOf[r]].source)
    /\ cache' = [cache EXCEPT ![r] = None]
    /\ Succeed(r, "metric")
    /\ UNCHANGED <<rows, files, saved, ctx, recomputed, count, events, faults>>

WriteSink(r) ==
    /\ pc[r] = "spark.write"
    /\ Append(r, Frame(r), ctx[r].config.source)
    /\ cache' = [cache EXCEPT ![r] = None]
    /\ Succeed(r, "metric")
    /\ UNCHANGED <<rows, files, saved, ctx, recomputed, count, events, faults>>

(***************************************************************************)
(* Any part may have been written; what the try counted is cleared.        *)
(***************************************************************************)
SparkFails(r) ==
    /\ pc[r] \in {"spark", "spark.count", "spark.write"}
    /\ \/ UNCHANGED sink
       \/ /\ pc[r] = "spark.write"
          /\ \E part \in SUBSET Frame(r) : Append(r, part, ctx[r].config.source)
    /\ count' = [count EXCEPT ![r] = None]
    /\ recomputed' = recomputed \ {r}
    /\ cache' = [cache EXCEPT ![r] = None]
    /\ Fail(r, "spark")
    /\ Fault
    /\ UNCHANGED <<rows, files, saved, ctx, events>>

-----------------------------------------------------------------------------
(***************************************************************************)
(* MetricPushOperator.                                                     *)
(***************************************************************************)
Published(r) == events' = events \cup {[run |-> r, record_count |-> count[r]]}

Publish(r) ==
    /\ pc[r] = "metric" /\ Parses(r)
    /\ Published(r)
    /\ pc' = [pc EXCEPT ![r] = "metric.save"]
    /\ UNCHANGED <<rows, files, saved, tries, ctx, count, cache, recomputed, sink, faults>>

Upserted(r) ==
    saved' = IF ctx[r].to = None THEN saved
             ELSE [saved EXCEPT ![DagOf[r]] = SavedText(ctx[r].to)]

SaveCheckpoint(r) ==
    /\ pc[r] = "metric.save"
    /\ Upserted(r)
    /\ Succeed(r, "done")
    /\ UNCHANGED <<rows, files, ctx, count, cache, recomputed, sink, events, faults>>

(***************************************************************************)
(* What a failed try has sent may have been accepted all the same.         *)
(***************************************************************************)
MetricFails(r) ==
    /\ \/ pc[r] = "metric" /\ UNCHANGED <<saved, events>>
       \/ pc[r] = "metric" /\ Parses(r) /\ Published(r) /\ UNCHANGED saved
       \/ pc[r] = "metric.save" /\ (Upserted(r) \/ UNCHANGED saved) /\ UNCHANGED events
    /\ Fail(r, "metric")
    /\ Fault
    /\ UNCHANGED <<rows, files, ctx, count, cache, recomputed, sink>>

-----------------------------------------------------------------------------
Environment ==
    \/ \E s \in Sources : Insert(s)
    \/ \E d \in Dags, content \in Contents \cup {Broken} : Edit(d, content)

InitOperator(r) == LoadConfig(r) \/ FetchFrom(r) \/ FetchTo(r) \/ InitFails(r)
SparkRunOperator(r) ==
    \/ QueryRefused(r) \/ ReadSource(r) \/ CountRecords(r) \/ LoseCache(r)
    \/ WriteSink(r) \/ SparkFails(r)
MetricPushOperator(r) == Publish(r) \/ SaveCheckpoint(r) \/ MetricFails(r)

Next ==
    \/ Environment
    \/ \E r \in Runs :
        \/ Trigger(r) \/ ParseFails(r)
        \/ InitOperator(r) \/ SparkRunOperator(r) \/ MetricPushOperator(r)

Spec == Init /\ [][Next]_vars

-----------------------------------------------------------------------------
(***************************************************************************)
(* A context has its tagged bounds once init has ended, the sink holds     *)
(* rows the tables had.                                                    *)
(***************************************************************************)
SinkRecord ==
    [path : [table : Sources, interval : Range(Interval), run_id : Range(Sanitised)],
     run : Runs, try : 0..Retries, row : Row]

TypeOK ==
    /\ rows \in [Sources -> Nat] /\ \A s \in Sources : rows[s] <= MaxRows[s]
    /\ yaml \in [Dags -> Config \cup {Broken}]
    /\ saved \in [Dags -> Optional(Raw)]
    /\ pc \in [Runs -> Steps]
    /\ tries \in [Runs -> 0..Retries]
    /\ ctx \in [Runs -> Optional(Context)]
    /\ \A r \in Runs : pc[r] \notin {"idle", "init", "failed"} => ctx[r] # None
    /\ count \in [Runs -> Optional(Nat)]
    /\ cache \in [Runs -> Optional(SUBSET Row)]
    /\ sink \subseteq SinkRecord
    /\ events \subseteq [run : Runs, record_count : Optional(Nat)]
    /\ edits \in 0..MaxEdits /\ faults \in 0..MaxFaults
    /\ broke \subseteq Dags /\ retargeted \subseteq Dags /\ recomputed \subseteq Runs

LandedBy(r) == {rec.row : rec \in {x \in sink : x.run = r}}
LandedByDag(d) == UNION {LandedBy(r) : r \in {x \in Runs : DagOf[x] = d}}

(***************************************************************************)
(* A path tells where its rows come from: the table it names, however the  *)
(* YAML was edited between the tasks and the tries of the run.             *)
(***************************************************************************)
PathNamesOrigin == \A rec \in sink : rec.path.table = rec.row[1]

(***************************************************************************)
(* The record_count of an event is the number of rows that the last try of *)
(* its run landed, whatever earlier tries left under the path and however  *)
(* the table grew between the count and the write; only the loss of cached *)
(* rows parts them.                                                        *)
(***************************************************************************)
LastTry(r) == {a \in sink : a.run = r /\ \A b \in sink : b.run = r => b.try <= a.try}

CountIsTruthful ==
    \A e \in events :
        e.record_count # None /\ e.run \notin recomputed =>
            e.record_count = Cardinality(LastTry(e.run))

(***************************************************************************)
(* The checkpoint row is keyed by the DAG and not by the table: as long as *)
(* a DAG's file has named one table, what is at or below its checkpoint    *)
(* has been landed by its own runs, whatever other DAGs do with the table. *)
(***************************************************************************)
GapsNeedRetarget ==
    \A d \in Dags \ retargeted :
        saved[d] # None /\ yaml[d] # Broken =>
            \A row \in RowsOf(yaml[d].source) :
                row[2] <= saved[d][2] => row \in LandedByDag(d)

(***************************************************************************)
(* A DAG by itself keeps the promise of Landing as long as its file parses *)
(* and has named one table: the rows of that table are the versions, what  *)
(* its own runs landed of them counts, its row in public.checkpoints is    *)
(* the watermark.  Other DAGs may share the table and the paths.  (What    *)
(* leaves rows, saved, ctx and sink alone is a stutter of all of them.)    *)
(***************************************************************************)
Steady(d) == d \notin retargeted /\ yaml[d] # Broken
Home(d) == Deployed[d].source

TableOf(d) == [i \in 1..MaxRows[Home(d)] |-> IF i <= rows[Home(d)] THEN i ELSE None]
LandedOf(d) ==
    {<<rec.row[2], rec.row[2]>> : rec \in
        {x \in sink : DagOf[x.run] = d /\ x.row[1] = Home(d)}}
WatermarkOf(d) == IF saved[d] = None THEN None ELSE saved[d][2]
Capturing(d) == {r \in Runs : DagOf[r] = d /\ ctx[r] # None /\ ctx[r].to # None}
CapturedBy(d) == {ctx[r].to.v[2] : r \in Capturing(d)}
HorizonOf(d) ==
    LET captured == CapturedBy(d) IN IF captured = {} THEN None ELSE Max(captured)

Promise(d) == INSTANCE Landing WITH
    Rows <- 1..MaxRows[Home(d)],
    MayWithdraw <- FALSE,
    table <- TableOf(d),
    fetched <- {},
    landed <- LandedOf(d),
    watermark <- WatermarkOf(d),
    sealed <- HorizonOf(d),
    late <- {}

DagsImplementLanding ==
    /\ \A d \in Dags : Promise(d)!LInit
    /\ [][\/ UNCHANGED <<rows, saved, ctx, sink>>
          \/ \A d \in Dags : Steady(d)' =>
                UNCHANGED Promise(d)!lvars \/ Promise(d)!LNext]_vars

(***************************************************************************)
(* Without a fault a run fails only because its file was broken when a try *)
(* began, its checkpoint column holds strings, or its DAG went over to a   *)
(* table whose checkpoints are of another type.                            *)
(***************************************************************************)
OnlyConfigFailsRuns ==
    faults = 0 =>
        \A r \in Runs : pc[r] = "failed" =>
            \/ DagOf[r] \in broke
            \/ ctx[r] # None /\ Refused(r) /\
                  \/ Column[ctx[r].config.source] \in {"digits", "text"}
                  \/ DagOf[r] \in retargeted

=============================================================================
