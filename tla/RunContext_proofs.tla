------------------------- MODULE RunContext_proofs -------------------------
(***************************************************************************)
(* Theorems about CheckpointCodec and RunContext, for any number of DAGs,  *)
(* tables, runs, retries, edits and faults.                                *)
(***************************************************************************)
EXTENDS RunContext, FiniteSetTheorems, TLAPS

USE RetriesAssumption, BoundsAssumption
USE DEF Steps, Ended, files, Optional

-----------------------------------------------------------------------------
(***************************************************************************)
(* The codec.                                                              *)
(***************************************************************************)
LEMMA ParsedType ==
    ASSUME NEW raw \in Raw
    PROVE  ParseCheckpoint(raw) \in Checkpoint /\ ParseCheckpoint(raw)[2] = raw[2]
<1>1. raw[1] \in RawKinds /\ raw[2] \in Nat
  BY DEF Raw
<1>2. QED
  BY <1>1 DEF ParseCheckpoint, Checkpoint, RawKinds

LEMMA SerialisedType ==
    ASSUME NEW value \in Checkpoint
    PROVE  /\ Serialise(value) \in Tagged
           /\ Serialise(value).t = value[1] /\ Serialise(value).v[2] = value[2]
           /\ SavedText(Serialise(value)) \in Raw
           /\ SavedText(Serialise(value))[2] = value[2]
<1>1. value[1] \in {"int", "ts", "str"} /\ value[2] \in Nat
  BY DEF Checkpoint
<1>2. QED
  BY <1>1 DEF Serialise, SavedText, Tagged, Raw, RawKinds

(***************************************************************************)
(* XCom hands a checkpoint on as it is.                                    *)
(***************************************************************************)
THEOREM XComRoundTrip == \A value \in Checkpoint : Deserialise(Serialise(value)) = value
  BY SerialisedType DEF Deserialise, Checkpoint

(***************************************************************************)
(* The next run starts from the parsed value of what the last one captured *)
(* although it passes XCom, str() and the TEXT column.  A fraction is lost *)
(* in the parser, and is the subject of ReadWindow.                        *)
(***************************************************************************)
THEOREM NextStartsFromCaptured == \A raw \in Raw : NextFrom(raw) = ParseCheckpoint(raw)
<1> SUFFICES ASSUME NEW raw \in Raw PROVE NextFrom(raw) = ParseCheckpoint(raw)
  OBVIOUS
<1>1. raw[1] \in RawKinds /\ raw[2] \in Nat
  BY DEF Raw
<1>2. QED
  BY <1>1 DEF NextFrom, ParseCheckpoint, Serialise, SavedText, RawKinds

-----------------------------------------------------------------------------
(***************************************************************************)
(* Type correctness.                                                       *)
(***************************************************************************)
LEMMA FailTypes ==
    ASSUME TypeOK, NEW r \in Runs, NEW start \in Steps, Fail(r, start)
    PROVE  /\ pc' \in [Runs -> Steps] /\ tries' \in [Runs -> 0..Retries]
           /\ pc'[r] \in {start, "failed"}
           /\ \A s \in Runs \ {r} : pc'[s] = pc[s]
  BY DEF TypeOK, Fail

LEMMA SucceedTypes ==
    ASSUME TypeOK, NEW r \in Runs, NEW next \in Steps, Succeed(r, next)
    PROVE  /\ pc' \in [Runs -> Steps] /\ tries' \in [Runs -> 0..Retries]
           /\ pc'[r] = next
           /\ \A s \in Runs \ {r} : pc'[s] = pc[s]
  BY DEF TypeOK, Succeed

LEMMA FaultTypes == TypeOK /\ Fault => faults' \in 0..MaxFaults
  BY DEF TypeOK, Fault

(***************************************************************************)
(* The parts of a context.                                                 *)
(***************************************************************************)
LEMMA ContextFields ==
    ASSUME TypeOK, NEW r \in Runs, ctx[r] # None
    PROVE  /\ ctx[r] \in Context
           /\ ctx[r].config \in Config /\ ctx[r].config.source \in Sources
           /\ ctx[r].from \in Optional(Tagged) /\ ctx[r].to \in Optional(Tagged)
<1>1. ctx[r] \in Context
  BY DEF TypeOK
<1>2. QED
  BY <1>1 DEF Context, Config

LEMMA TaggedFields ==
    ASSUME NEW tagged \in Tagged
    PROVE  /\ tagged.t \in {"int", "ts", "str"}
           /\ tagged.v[1] \in RawKinds /\ tagged.v[2] \in Nat
           /\ SavedText(tagged) \in Raw /\ SavedText(tagged)[2] = tagged.v[2]
<1>1. tagged.t \in {"int", "ts", "str"} /\ tagged.v \in Raw
  BY DEF Tagged
<1>2. tagged.v[1] \in RawKinds /\ tagged.v[2] \in Nat
  BY <1>1 DEF Raw
<1>3. SavedText(tagged) \in Raw /\ SavedText(tagged)[2] = tagged.v[2]
  BY <1>1, <1>2 DEF SavedText, Raw, RawKinds
<1>4. QED
  BY <1>1, <1>2, <1>3

LEMMA ParsedIsTagged ==
    ASSUME NEW raw \in Raw
    PROVE  Serialise(ParseCheckpoint(raw)) \in Tagged
  BY ParsedType, SerialisedType

LEMMA MaximumType ==
    ASSUME TypeOK, NEW s \in Sources
    PROVE  Maximum(s) \in Optional(Tagged)
<1>1. rows[s] \in Nat /\ Column[s] \in RawKinds
  BY ColumnAssumption DEF TypeOK
<1>2. <<Column[s], rows[s]>> \in Raw
  BY <1>1 DEF Raw
<1>3. QED
  BY <1>2, ParsedIsTagged DEF Maximum

(***************************************************************************)
(* What a query selects are rows of the table, and finitely many.          *)
(***************************************************************************)
LEMMA RowsType ==
    ASSUME TypeOK, NEW s \in Sources
    PROVE  RowsOf(s) \subseteq Row /\ IsFiniteSet(RowsOf(s))
<1>1. rows[s] \in Nat
  BY DEF TypeOK
<1>2. RowsOf(s) \subseteq Row
  <2>1. MaxRows[s] \in Nat /\ rows[s] <= MaxRows[s]
    BY DEF TypeOK
  <2>2. RowsOf(s) \subseteq {s} \X (1..MaxRows[s])
    BY <1>1, <2>1 DEF RowsOf
  <2>3. QED
    BY <2>2 DEF Row
<1>3. IsFiniteSet(1..rows[s]) /\ IsFiniteSet({s})
  <2>1. 1 \in Int /\ rows[s] \in Int
    BY <1>1
  <2>2. IsFiniteSet(1..rows[s])
    BY <2>1, FS_Interval
  <2>3. QED
    BY <2>2, FS_Singleton
<1>4. IsFiniteSet(RowsOf(s))
  BY <1>3, FS_Product DEF RowsOf
<1>5. QED
  BY <1>2, <1>4

LEMMA SelectedType ==
    ASSUME TypeOK, NEW r \in Runs, ctx[r] # None
    PROVE  /\ Selected(r) \subseteq RowsOf(ctx[r].config.source)
           /\ Selected(r) \in SUBSET Row
           /\ IsFiniteSet(Selected(r))
           /\ Cardinality(Selected(r)) \in Nat
<1>1. Selected(r) \subseteq RowsOf(ctx[r].config.source)
  BY DEF Selected
<1>2. RowsOf(ctx[r].config.source) \subseteq Row /\ IsFiniteSet(RowsOf(ctx[r].config.source))
  BY ContextFields, RowsType
<1>3. IsFiniteSet(Selected(r))
  BY <1>1, <1>2, FS_Subset
<1>4. QED
  BY <1>1, <1>2, <1>3, FS_CardinalityType

LEMMA FrameType ==
    ASSUME TypeOK, NEW r \in Runs, ctx[r] # None
    PROVE  Frame(r) \in SUBSET Row
  BY SelectedType DEF Frame, TypeOK

LEMMA WritePathType ==
    ASSUME NEW r \in Runs, NEW source \in Sources
    PROVE  WritePath(r, source) \in
              [table : Sources, interval : Range(Interval), run_id : Range(Sanitised)]
  BY RunsAssumption DEF WritePath, Range

LEMMA AppendTypes ==
    ASSUME TypeOK, NEW r \in Runs, NEW part \in SUBSET Row, NEW source \in Sources,
           Append(r, part, source)
    PROVE  sink' \subseteq SinkRecord
<1>1. tries[r] \in 0..Retries /\ sink \subseteq SinkRecord
  BY DEF TypeOK
<1>2. \A row \in part :
        [path |-> WritePath(r, source), run |-> r, try |-> tries[r], row |-> row] \in SinkRecord
  BY <1>1, WritePathType DEF SinkRecord
<1>3. QED
  BY <1>1, <1>2 DEF Append

LEMMA InitTypeOK == Init => TypeOK
<1> SUFFICES ASSUME Init PROVE TypeOK
  OBVIOUS
<1>1. yaml \in [Dags -> Config \cup {Broken}]
  BY ContentsAssumption DEF Init
<1>2. QED
  BY <1>1 DEF Init, TypeOK

LEMMA EnvironmentTypeOK == TypeOK /\ Environment => TypeOK'
<1> SUFFICES ASSUME TypeOK, Environment PROVE TypeOK'
  OBVIOUS
<1>1. ASSUME NEW s \in Sources, Insert(s) PROVE TypeOK'
  BY <1>1 DEF Insert, TypeOK
<1>2. ASSUME NEW d \in Dags, NEW content \in Contents \cup {Broken}, Edit(d, content)
      PROVE  TypeOK'
  <2>1. content \in Config \cup {Broken}
    BY ContentsAssumption
  <2>2. /\ yaml' \in [Dags -> Config \cup {Broken}] /\ edits' \in 0..MaxEdits
        /\ broke' \subseteq Dags /\ retargeted' \subseteq Dags
    BY <1>2, <2>1 DEF Edit, TypeOK
  <2>3. QED
    BY <1>2, <2>2 DEF Edit, TypeOK
<1>3. QED
  BY <1>1, <1>2 DEF Environment

LEMMA InitOperatorTypeOK ==
    ASSUME TypeOK, NEW r \in Runs, InitOperator(r)
    PROVE  TypeOK'
<1>1. CASE LoadConfig(r)
  <2>1. [config |-> yaml[DagOf[r]], from |-> None, to |-> None] \in Context
    BY <1>1, RunsAssumption DEF LoadConfig, Parses, TypeOK, Context
  <2>2. QED
    BY <1>1, <2>1, NoneAssumption DEF LoadConfig, TypeOK
<1>2. CASE FetchFrom(r)
  <2>1. ctx[r] # None /\ ctx[r] \in Context
    BY <1>2, ContextFields DEF FetchFrom, TypeOK
  <2>2. saved[DagOf[r]] \in Optional(Raw)
    BY RunsAssumption DEF TypeOK
  <2>3. PICK v \in Optional(Tagged) : ctx' = [ctx EXCEPT ![r].from = v]
    BY <1>2, <2>2, ParsedIsTagged DEF FetchFrom
  <2>4. [ctx[r] EXCEPT !.from = v] \in Context
    BY <2>1, <2>3 DEF Context
  <2>5. ctx' \in [Runs -> Optional(Context)] /\ ctx'[r] # None
        /\ \A s \in Runs \ {r} : ctx'[s] = ctx[s]
    BY <2>3, <2>4, NoneAssumption DEF TypeOK
  <2>6. QED
    BY <1>2, <2>5 DEF FetchFrom, TypeOK
<1>3. CASE FetchTo(r)
  <2>1. ctx[r] # None /\ ctx[r] \in Context /\ ctx[r].config.source \in Sources
    BY <1>3, ContextFields DEF FetchTo, TypeOK
  <2>2. ctx' = ctx \/ \E v \in Optional(Tagged) : ctx' = [ctx EXCEPT ![r].to = v]
    BY <1>3, <2>1, MaximumType DEF FetchTo
  <2>3. ASSUME NEW v \in Optional(Tagged) PROVE [ctx[r] EXCEPT !.to = v] \in Context
    BY <2>1 DEF Context
  <2>4. ctx' \in [Runs -> Optional(Context)] /\ ctx'[r] # None
        /\ \A s \in Runs \ {r} : ctx'[s] = ctx[s]
    BY <2>1, <2>2, <2>3, NoneAssumption DEF TypeOK
  <2>5. /\ pc' \in [Runs -> Steps] /\ tries' \in [Runs -> 0..Retries]
        /\ \A s \in Runs \ {r} : pc'[s] = pc[s]
        /\ faults' \in 0..MaxFaults
    BY <1>3, SucceedTypes, FaultTypes DEF FetchTo, TypeOK
  <2>6. QED
    BY <1>3, <2>4, <2>5 DEF FetchTo, TypeOK
<1>4. CASE InitFails(r)
  BY <1>4, FailTypes, FaultTypes DEF InitFails, TypeOK
<1>5. QED
  BY <1>1, <1>2, <1>3, <1>4 DEF InitOperator

LEMMA SparkRunTypeOK ==
    ASSUME TypeOK, NEW r \in Runs, SparkRunOperator(r)
    PROVE  TypeOK'
<1>1. CASE QueryRefused(r)
  BY <1>1, FailTypes DEF QueryRefused, TypeOK
<1>2. CASE ReadSource(r)
  BY <1>2 DEF ReadSource, TypeOK
<1>3. CASE CountRecords(r)
  <2>1. ctx[r] # None
    BY <1>3 DEF CountRecords, TypeOK
  <2>2. Selected(r) \in SUBSET Row /\ Cardinality(Selected(r)) \in Nat
    BY <2>1, SelectedType
  <2>3. QED
    BY <1>3, <2>1, <2>2 DEF CountRecords, TypeOK
<1>4. CASE LoseCache(r)
  BY <1>4, FaultTypes DEF LoseCache, TypeOK
<1>5. CASE WriteSink(r)
  <2>1. ctx[r] # None
    BY <1>5 DEF WriteSink, TypeOK
  <2>2. sink' \subseteq SinkRecord
    BY <1>5, <2>1, FrameType, ContextFields, AppendTypes DEF WriteSink
  <2>3. QED
    BY <1>5, <2>1, <2>2, SucceedTypes DEF WriteSink, TypeOK
<1>6. CASE SparkFails(r)
  <2>1. ctx[r] # None
    BY <1>6 DEF SparkFails, TypeOK
  <2>2. sink' \subseteq SinkRecord
    <3>1. CASE UNCHANGED sink
      BY <3>1 DEF TypeOK
    <3>2. ASSUME NEW part \in SUBSET Frame(r), Append(r, part, ctx[r].config.source)
          PROVE  sink' \subseteq SinkRecord
      <4>1. part \in SUBSET Row
        BY <2>1, FrameType
      <4>2. QED
        BY <2>1, <3>2, <4>1, ContextFields, AppendTypes
    <3>3. QED
      BY <1>6, <3>1, <3>2 DEF SparkFails
  <2>3. QED
    BY <1>6, <2>1, <2>2, FailTypes, FaultTypes DEF SparkFails, TypeOK
<1>7. QED
  BY <1>1, <1>2, <1>3, <1>4, <1>5, <1>6 DEF SparkRunOperator

LEMMA MetricPushTypeOK ==
    ASSUME TypeOK, NEW r \in Runs, MetricPushOperator(r)
    PROVE  TypeOK'
<1>1. Published(r) => events' \subseteq [run : Runs, record_count : Optional(Nat)]
  BY DEF Published, TypeOK
<1>2. pc[r] = "metric.save" /\ Upserted(r) => saved' \in [Dags -> Optional(Raw)]
  <2> SUFFICES ASSUME pc[r] = "metric.save", Upserted(r)
               PROVE  saved' \in [Dags -> Optional(Raw)]
    OBVIOUS
  <2>1. ctx[r] # None
    BY DEF TypeOK
  <2>2. ctx[r].to = None \/ SavedText(ctx[r].to) \in Raw
    BY <2>1, ContextFields, TaggedFields
  <2>3. QED
    BY <2>2 DEF Upserted, TypeOK
<1>3. CASE Publish(r)
  BY <1>1, <1>3 DEF Publish, TypeOK
<1>4. CASE SaveCheckpoint(r)
  BY <1>2, <1>4, SucceedTypes DEF SaveCheckpoint, TypeOK
<1>5. CASE MetricFails(r)
  <2>1. /\ saved' \in [Dags -> Optional(Raw)]
        /\ events' \subseteq [run : Runs, record_count : Optional(Nat)]
    BY <1>1, <1>2, <1>5 DEF MetricFails, TypeOK
  <2>2. QED
    BY <1>5, <2>1, FailTypes, FaultTypes DEF MetricFails, TypeOK
<1>6. QED
  BY <1>3, <1>4, <1>5 DEF MetricPushOperator

LEMMA NextTypeOK == TypeOK /\ [Next]_vars => TypeOK'
<1> SUFFICES ASSUME TypeOK, [Next]_vars PROVE TypeOK'
  OBVIOUS
<1>1. CASE Environment
  BY <1>1, EnvironmentTypeOK
<1>2. ASSUME NEW r \in Runs, Trigger(r) PROVE TypeOK'
  BY <1>2 DEF Trigger, TypeOK
<1>3. ASSUME NEW r \in Runs, ParseFails(r) PROVE TypeOK'
  BY <1>3, FailTypes DEF ParseFails, TypeOK
<1>4. ASSUME NEW r \in Runs, InitOperator(r) \/ SparkRunOperator(r) \/ MetricPushOperator(r)
      PROVE  TypeOK'
  BY <1>4, InitOperatorTypeOK, SparkRunTypeOK, MetricPushTypeOK
<1>5. CASE UNCHANGED vars
  BY <1>5 DEF vars, TypeOK
<1>6. QED
  BY <1>1, <1>2, <1>3, <1>4, <1>5 DEF Next

(***************************************************************************)
(* The variables keep their types, and each run past init its context.     *)
(***************************************************************************)
THEOREM TypeCorrect == Spec => []TypeOK
  BY InitTypeOK, NextTypeOK, PTL DEF Spec

-----------------------------------------------------------------------------
(***************************************************************************)
(* What any step does to the files, the tables and the sink, and what a    *)
(* step of one run leaves alone.                                           *)
(***************************************************************************)
Table(d) == yaml[d].source

RunStep(r) ==
    Trigger(r) \/ ParseFails(r) \/ InitOperator(r) \/ SparkRunOperator(r) \/ MetricPushOperator(r)

RecordsOf(r) == {rec \in sink : rec.run = r}

LEMMA AppendGrows ==
    ASSUME NEW r \in Runs, NEW part, NEW source, Append(r, part, source)
    PROVE  sink \subseteq sink' /\ \A s \in Runs \ {r} : RecordsOf(s)' = RecordsOf(s)
  BY DEF Append, RecordsOf

LEMMA RunStepFrame ==
    ASSUME TypeOK, NEW r \in Runs, RunStep(r)
    PROVE  /\ UNCHANGED <<rows, files>>
           /\ faults' = 0 => faults = 0
           /\ sink \subseteq sink'
           /\ \A s \in Runs \ {r} :
                UNCHANGED <<pc[s], tries[s], ctx[s], count[s], cache[s], RecordsOf(s)>>
<1>1. faults \in Nat
  BY DEF TypeOK
<1>2. CASE Trigger(r) \/ ParseFails(r)
  BY <1>2 DEF Trigger, ParseFails, Fail, TypeOK, RecordsOf
<1>3. CASE InitOperator(r)
  BY <1>1, <1>3 DEF InitOperator, LoadConfig, FetchFrom, FetchTo, InitFails, Fail, Succeed, Fault,
                    TypeOK, RecordsOf
<1>4. CASE QueryRefused(r) \/ ReadSource(r) \/ CountRecords(r) \/ LoseCache(r)
  BY <1>1, <1>4 DEF QueryRefused, ReadSource, CountRecords, LoseCache, Fail, Fault, TypeOK, RecordsOf
<1>5. CASE WriteSink(r)
  BY <1>5, AppendGrows DEF WriteSink, Succeed, TypeOK
<1>6. CASE SparkFails(r)
  <2>1. sink \subseteq sink' /\ \A s \in Runs \ {r} : RecordsOf(s)' = RecordsOf(s)
    BY <1>6, AppendGrows DEF SparkFails, RecordsOf
  <2>2. QED
    BY <1>1, <1>6, <2>1 DEF SparkFails, Fail, Fault, TypeOK
<1>7. CASE MetricPushOperator(r)
  BY <1>1, <1>7 DEF MetricPushOperator, Publish, SaveCheckpoint, MetricFails, Fail, Succeed, Fault,
                    TypeOK, RecordsOf
<1>8. QED
  BY <1>2, <1>3, <1>4, <1>5, <1>6, <1>7 DEF RunStep, SparkRunOperator

LEMMA StepFacts ==
    ASSUME TypeOK, [Next]_vars
    PROVE  /\ \A s \in Sources : rows[s] <= rows'[s]
           /\ broke \subseteq broke' /\ retargeted \subseteq retargeted'
           /\ faults' = 0 => faults = 0
           /\ sink \subseteq sink'
           /\ \A d \in Dags : Steady(d)' => Steady(d) /\ Table(d)' = Table(d)
<1>1. \A s \in Sources : rows[s] \in Nat
  BY DEF TypeOK
<1>2. ASSUME NEW s \in Sources, Insert(s)
      PROVE  /\ \A t \in Sources : rows[t] <= rows'[t]
             /\ UNCHANGED <<files, faults, sink>>
  BY <1>1, <1>2 DEF Insert, TypeOK
<1>3. ASSUME NEW d \in Dags, NEW content \in Contents \cup {Broken}, Edit(d, content)
      PROVE  /\ broke \subseteq broke' /\ retargeted \subseteq retargeted'
             /\ UNCHANGED <<rows, faults, sink>>
             /\ \A e \in Dags : Steady(e)' => Steady(e) /\ Table(e)' = Table(e)
  BY <1>3 DEF Edit, Steady, Table, TypeOK
<1>4. ASSUME NEW r \in Runs, RunStep(r)
      PROVE  UNCHANGED <<rows, files>> /\ (faults' = 0 => faults = 0) /\ sink \subseteq sink'
  BY <1>4, RunStepFrame
<1>5. CASE UNCHANGED vars
  BY <1>1, <1>5 DEF vars, Steady, Table
<1>6. QED
  BY <1>1, <1>2, <1>3, <1>4, <1>5 DEF Next, Environment, RunStep, Steady, Table

LEMMA EnvironmentFrame ==
    ASSUME Environment \/ UNCHANGED vars
    PROVE  UNCHANGED <<saved, pc, tries, ctx, count, cache, recomputed, sink, events, faults>>
  BY DEF Environment, Insert, Edit, vars

(***************************************************************************)
(* What a run selects only grows, as long as its context stays.            *)
(***************************************************************************)
LEMMA SelectedGrows ==
    ASSUME TypeOK, [Next]_vars, NEW r \in Runs, ctx[r] # None, ctx'[r] = ctx[r]
    PROVE  Selected(r) \subseteq Selected(r)'
<1>1. ctx[r].config.source \in Sources
  BY ContextFields
<1>2. rows[ctx[r].config.source] \in Nat /\ rows'[ctx[r].config.source] \in Nat
      /\ rows[ctx[r].config.source] <= rows'[ctx[r].config.source]
  BY <1>1, StepFacts, NextTypeOK DEF TypeOK
<1>3. RowsOf(ctx[r].config.source) \subseteq RowsOf(ctx[r].config.source)'
  BY <1>2 DEF RowsOf
<1>4. QED
  BY <1>3 DEF Selected, Incremental, From, To

-----------------------------------------------------------------------------
(***************************************************************************)
(* PathNamesOrigin is inductive once the cache is known to hold rows of    *)
(* the table in the run's own context.                                     *)
(***************************************************************************)
CacheIsSelected ==
    \A r \in Runs : cache[r] # None => pc[r] = "spark.write" /\ cache[r] \subseteq Selected(r)

LEMMA CacheStep ==
    ASSUME TypeOK, CacheIsSelected, [Next]_vars
    PROVE  CacheIsSelected'
<1> SUFFICES ASSUME NEW s \in Runs, cache'[s] # None
             PROVE  pc'[s] = "spark.write" /\ cache'[s] \subseteq Selected(s)'
  BY DEF CacheIsSelected
<1>1. ASSUME cache'[s] = cache[s], pc'[s] = pc[s], ctx'[s] = ctx[s]
      PROVE  pc'[s] = "spark.write" /\ cache'[s] \subseteq Selected(s)'
  <2>1. pc[s] = "spark.write" /\ cache[s] \subseteq Selected(s)
    BY <1>1 DEF CacheIsSelected
  <2>2. ctx[s] # None
    BY <2>1 DEF TypeOK
  <2>3. QED
    BY <1>1, <2>1, <2>2, SelectedGrows
<1>2. CASE Environment \/ UNCHANGED vars
  BY <1>1, <1>2, EnvironmentFrame
<1>3. ASSUME NEW r \in Runs, RunStep(r), s # r
      PROVE  UNCHANGED <<pc[s], ctx[s], cache[s]>>
  BY <1>3, RunStepFrame
<1>4. CASE Trigger(s) \/ ParseFails(s) \/ InitOperator(s) \/ MetricPushOperator(s)
          \/ QueryRefused(s) \/ ReadSource(s)
  <2>1. cache[s] # None /\ pc[s] # "spark.write"
    BY <1>4 DEF Trigger, ParseFails, InitOperator, LoadConfig, FetchFrom, FetchTo, InitFails,
                MetricPushOperator, Publish, SaveCheckpoint, MetricFails, QueryRefused, ReadSource
  <2>2. QED
    BY <2>1 DEF CacheIsSelected
<1>5. CASE CountRecords(s)
  <2>1. ctx[s] # None /\ cache'[s] = Selected(s) /\ pc'[s] = "spark.write" /\ ctx'[s] = ctx[s]
    BY <1>5 DEF CountRecords, TypeOK
  <2>2. QED
    BY <2>1, SelectedGrows
<1>6. CASE LoseCache(s) \/ WriteSink(s) \/ SparkFails(s)
  BY <1>6 DEF LoseCache, WriteSink, SparkFails, TypeOK
<1>7. QED
  BY <1>1, <1>2, <1>3, <1>4, <1>5, <1>6 DEF Next, RunStep, SparkRunOperator

LEMMA FrameIsSelected ==
    ASSUME TypeOK, CacheIsSelected, NEW r \in Runs
    PROVE  Frame(r) \subseteq Selected(r)
  BY DEF Frame, CacheIsSelected

LEMMA AppendOrigin ==
    ASSUME PathNamesOrigin, NEW r \in Runs, NEW source,
           NEW part \in SUBSET RowsOf(source), Append(r, part, source)
    PROVE  PathNamesOrigin'
<1>1. \A row \in part : row[1] = source
  BY DEF RowsOf
<1>2. QED
  BY <1>1 DEF Append, PathNamesOrigin, WritePath

LEMMA OriginStep ==
    ASSUME TypeOK, CacheIsSelected, PathNamesOrigin, [Next]_vars
    PROVE  PathNamesOrigin'
<1>1. CASE UNCHANGED sink
  BY <1>1 DEF PathNamesOrigin
<1>2. ASSUME NEW r \in Runs, WriteSink(r) \/ SparkFails(r)
      PROVE  PathNamesOrigin'
  <2>1. Frame(r) \subseteq RowsOf(ctx[r].config.source)
    BY FrameIsSelected DEF Selected
  <2>2. QED
    BY <1>1, <1>2, <2>1, AppendOrigin DEF WriteSink, SparkFails
<1>3. ASSUME NEW r \in Runs, RunStep(r), ~WriteSink(r), ~SparkFails(r)
      PROVE  UNCHANGED sink
  BY <1>3 DEF RunStep, Trigger, ParseFails, InitOperator, LoadConfig, FetchFrom, FetchTo, InitFails,
              SparkRunOperator, QueryRefused, ReadSource, CountRecords, LoseCache,
              MetricPushOperator, Publish, SaveCheckpoint, MetricFails
<1>4. CASE Environment \/ UNCHANGED vars
  BY <1>1, <1>4, EnvironmentFrame
<1>5. QED
  BY <1>1, <1>2, <1>3, <1>4 DEF Next, RunStep, SparkRunOperator

LEMMA CacheInvariance == Spec => []CacheIsSelected
<1>1. Init => CacheIsSelected
  BY DEF Init, CacheIsSelected
<1>2. QED
  BY <1>1, CacheStep, TypeCorrect, PTL DEF Spec

(***************************************************************************)
(* A path names the table its rows come from, however the YAML files were  *)
(* edited between the tasks and the tries of a run.                        *)
(***************************************************************************)
THEOREM PathsTellTheOrigin == Spec => []PathNamesOrigin
<1>1. Init => PathNamesOrigin
  BY DEF Init, PathNamesOrigin
<1>2. QED
  BY <1>1, OriginStep, CacheInvariance, TypeCorrect, PTL DEF Spec

-----------------------------------------------------------------------------
(***************************************************************************)
(* Checkpoints.  Whatever form it has at the moment, a checkpoint is what  *)
(* MAX returned for some row of the table: Captured is its form in XCom.   *)
(***************************************************************************)
Captured(s, n) == Serialise(ParseCheckpoint(<<Column[s], n>>))

LEMMA CapturedFacts ==
    ASSUME NEW s \in Sources, NEW n \in Nat
    PROVE  /\ Captured(s, n) \in Tagged /\ Captured(s, n).v[2] = n
           /\ Deserialise(Captured(s, n))[2] = n
           /\ SavedText(Captured(s, n)) \in Raw /\ SavedText(Captured(s, n))[2] = n
           /\ Serialise(ParseCheckpoint(SavedText(Captured(s, n)))) = Captured(s, n)
           /\ Column[s] \in {"int", "datetime"} => Compares(Column[s], Deserialise(Captured(s, n)))
<1>1. Column[s] \in RawKinds /\ <<Column[s], n>> \in Raw
  BY ColumnAssumption DEF Raw
<1>2. ParseCheckpoint(<<Column[s], n>>) \in Checkpoint /\ ParseCheckpoint(<<Column[s], n>>)[2] = n
  BY <1>1, ParsedType
<1>3. /\ Captured(s, n) \in Tagged /\ Captured(s, n).v[2] = n
      /\ SavedText(Captured(s, n)) \in Raw /\ SavedText(Captured(s, n))[2] = n
  BY <1>2, SerialisedType DEF Captured
<1>4. Deserialise(Captured(s, n)) = ParseCheckpoint(<<Column[s], n>>)
  BY <1>2, XComRoundTrip DEF Captured
<1>5. Serialise(ParseCheckpoint(SavedText(Captured(s, n)))) = Captured(s, n)
  BY <1>1, NextStartsFromCaptured DEF Captured, NextFrom
<1>6. Column[s] \in {"int", "datetime"} => Compares(Column[s], ParseCheckpoint(<<Column[s], n>>))
  BY DEF Compares, ParseCheckpoint
<1>7. QED
  BY <1>2, <1>3, <1>4, <1>5, <1>6

CoveredUpTo(d, n) ==
    n <= rows[Table(d)] /\ \A i \in 1..n : <<Table(d), i>> \in LandedByDag(d)

(***************************************************************************)
(* The invariant behind GapsNeedRetarget and OnlyConfigFailsRuns.  A DAG   *)
(* is steady as long as its file has named one table: then the contexts of *)
(* its runs name that table too, and its checkpoint is of that table.      *)
(***************************************************************************)
SteadyConfig ==
    \A r \in Runs : ctx[r] # None /\ Steady(DagOf[r]) =>
        ctx[r].config.source = Table(DagOf[r])

SavedCovered ==
    \A d \in Dags : Steady(d) /\ saved[d] # None =>
        \E n \in Nat : saved[d] = SavedText(Captured(Table(d), n)) /\ CoveredUpTo(d, n)

FromCovered ==
    \A r \in Runs : ctx[r] # None /\ ctx[r].from # None /\ Steady(DagOf[r]) =>
        \E n \in Nat : /\ ctx[r].from = Captured(Table(DagOf[r]), n)
                       /\ CoveredUpTo(DagOf[r], n)

(***************************************************************************)
(* A table only grows at its end: nothing appears at or below a maximum.   *)
(***************************************************************************)
ToSealed ==
    \A r \in Runs : ctx[r] # None /\ ctx[r].to # None =>
        \E n \in Nat : /\ ctx[r].to = Captured(ctx[r].config.source, n)
                       /\ n <= rows[ctx[r].config.source]

(***************************************************************************)
(* The rows that r is to land.                                             *)
(***************************************************************************)
InWindow(r, i) == i <= To(r)[2] /\ (ctx[r].from # None => From(r)[2] < i)

CacheComplete ==
    \A r \in Runs : cache[r] # None /\ ctx[r].to # None =>
        \A i \in Nat \ {0} : InWindow(r, i) => <<ctx[r].config.source, i>> \in cache[r]

WindowCovered ==
    \A r \in Runs :
        pc[r] \in {"metric", "metric.save"} /\ ctx[r].to # None /\ Steady(DagOf[r]) =>
            CoveredUpTo(DagOf[r], To(r)[2])

BrokenIsNoted == \A d \in Dags : yaml[d] = Broken => d \in broke

IInv ==
    /\ TypeOK
    /\ CacheIsSelected
    /\ SteadyConfig
    /\ SavedCovered
    /\ FromCovered
    /\ ToSealed
    /\ CacheComplete
    /\ WindowCovered
    /\ BrokenIsNoted

LEMMA InitIInv == Init => IInv
<1> SUFFICES ASSUME Init PROVE IInv
  OBVIOUS
<1>1. TypeOK
  BY InitTypeOK
<1>2. \A d \in Dags : yaml[d] # Broken
  BY ContentsAssumption, NoneAssumption DEF Init
<1>3. QED
  BY <1>1, <1>2 DEF Init, IInv, CacheIsSelected, SteadyConfig, SavedCovered, FromCovered, ToSealed,
                    CacheComplete, WindowCovered, BrokenIsNoted

(***************************************************************************)
(* What is covered stays covered.                                          *)
(***************************************************************************)
LEMMA CoveredStays ==
    ASSUME TypeOK, [Next]_vars, NEW d \in Dags, Steady(d)', NEW n \in Nat, CoveredUpTo(d, n)
    PROVE  CoveredUpTo(d, n)'
<1>1. Table(d)' = Table(d) /\ Table(d) \in Sources /\ sink \subseteq sink'
  <2>1. Steady(d) /\ Table(d)' = Table(d) /\ sink \subseteq sink'
    BY StepFacts
  <2>2. yaml[d] \in Config
    BY <2>1 DEF Steady, TypeOK
  <2>3. QED
    BY <2>1, <2>2 DEF Table, Config
<1>2. LandedByDag(d) \subseteq LandedByDag(d)'
  BY <1>1 DEF LandedByDag, LandedBy
<1>3. rows[Table(d)] \in Nat /\ rows'[Table(d)] \in Nat /\ rows[Table(d)] <= rows'[Table(d)]
  BY <1>1, StepFacts, NextTypeOK DEF TypeOK
<1>4. n <= rows'[Table(d)]
  BY <1>3 DEF CoveredUpTo
<1>5. QED
  BY <1>1, <1>2, <1>4 DEF CoveredUpTo

(***************************************************************************)
(* The parts of the invariant that are about one run and its context.      *)
(***************************************************************************)
LEMMA ContextKept ==
    ASSUME IInv, [Next]_vars, NEW r \in Runs, ctx'[r] = ctx[r], ctx[r] # None
    PROVE  /\ Steady(DagOf[r])' => ctx[r].config.source = Table(DagOf[r])'
           /\ ctx[r].from # None /\ Steady(DagOf[r])' =>
                \E n \in Nat : /\ ctx[r].from = Captured(Table(DagOf[r])', n)
                               /\ CoveredUpTo(DagOf[r], n)'
           /\ ctx[r].to # None =>
                \E n \in Nat : /\ ctx[r].to = Captured(ctx[r].config.source, n)
                               /\ n <= rows'[ctx[r].config.source]
<1> USE DEF IInv
<1>1. DagOf[r] \in Dags
  BY RunsAssumption
<1>2. Steady(DagOf[r])' => Steady(DagOf[r]) /\ Table(DagOf[r])' = Table(DagOf[r])
  BY <1>1, StepFacts
<1>3. Steady(DagOf[r])' => ctx[r].config.source = Table(DagOf[r])'
  BY <1>2 DEF SteadyConfig
<1>4. ASSUME ctx[r].from # None, Steady(DagOf[r])'
      PROVE  \E n \in Nat : /\ ctx[r].from = Captured(Table(DagOf[r])', n)
                            /\ CoveredUpTo(DagOf[r], n)'
  <2>1. PICK n \in Nat : ctx[r].from = Captured(Table(DagOf[r]), n) /\ CoveredUpTo(DagOf[r], n)
    BY <1>2, <1>4 DEF FromCovered
  <2>2. CoveredUpTo(DagOf[r], n)'
    BY <1>1, <1>4, <2>1, CoveredStays
  <2>3. QED
    BY <1>2, <1>4, <2>1, <2>2
<1>5. ASSUME ctx[r].to # None
      PROVE  \E n \in Nat : /\ ctx[r].to = Captured(ctx[r].config.source, n)
                            /\ n <= rows'[ctx[r].config.source]
  <2>1. PICK n \in Nat : ctx[r].to = Captured(ctx[r].config.source, n)
                         /\ n <= rows[ctx[r].config.source]
    BY <1>5 DEF ToSealed
  <2>2. ctx[r].config.source \in Sources
    BY ContextFields
  <2>3. rows[ctx[r].config.source] \in Nat /\ rows'[ctx[r].config.source] \in Nat
        /\ rows[ctx[r].config.source] <= rows'[ctx[r].config.source]
    BY <2>2, StepFacts, NextTypeOK DEF TypeOK
  <2>4. n <= rows'[ctx[r].config.source]
    BY <2>1, <2>3
  <2>5. QED
    BY <2>1, <2>4
<1>6. QED
  BY <1>3, <1>4, <1>5

LEMMA CoverageKept ==
    ASSUME IInv, [Next]_vars, NEW r \in Runs, pc'[r] \in {"metric", "metric.save"},
           pc[r] \in {"metric", "metric.save"}, ctx'[r] = ctx[r], ctx[r].to # None,
           Steady(DagOf[r])'
    PROVE  CoveredUpTo(DagOf[r], To(r)[2])'
<1>1. DagOf[r] \in Dags /\ Steady(DagOf[r]) /\ To(r)' = To(r)
  BY RunsAssumption, StepFacts DEF IInv, To
<1>2. CoveredUpTo(DagOf[r], To(r)[2])
  BY <1>1 DEF IInv, WindowCovered
<1>3. ctx[r] # None
  BY DEF IInv, TypeOK
<1>4. To(r)[2] \in Nat
  BY <1>3, ContextFields, TaggedFields DEF IInv, To, Deserialise
<1>5. QED
  BY <1>1, <1>2, <1>4, CoveredStays DEF IInv

LEMMA SavedKept ==
    ASSUME IInv, [Next]_vars, NEW d \in Dags, saved'[d] = saved[d], saved[d] # None, Steady(d)'
    PROVE  \E n \in Nat : saved[d] = SavedText(Captured(Table(d)', n)) /\ CoveredUpTo(d, n)'
<1>1. Steady(d) /\ Table(d)' = Table(d)
  BY StepFacts DEF IInv
<1>2. PICK n \in Nat : saved[d] = SavedText(Captured(Table(d), n)) /\ CoveredUpTo(d, n)
  BY <1>1 DEF IInv, SavedCovered
<1>3. CoveredUpTo(d, n)'
  BY <1>2, CoveredStays DEF IInv
<1>4. QED
  BY <1>1, <1>2, <1>3

(***************************************************************************)
(* A step that leaves the contexts, the caches and the checkpoints alone,  *)
(* and takes no run to the metric task.                                    *)
(***************************************************************************)
LEMMA QuietStep ==
    ASSUME IInv, [Next]_vars, UNCHANGED <<saved, ctx, cache>>, BrokenIsNoted',
           \A r \in Runs : pc'[r] \in {"metric", "metric.save"} =>
                              pc[r] \in {"metric", "metric.save"}
    PROVE  IInv'
<1>1. TypeOK' /\ CacheIsSelected'
  BY NextTypeOK, CacheStep DEF IInv
<1>2. SteadyConfig' /\ FromCovered' /\ ToSealed'
  BY ContextKept DEF SteadyConfig, FromCovered, ToSealed
<1>3. SavedCovered'
  BY SavedKept DEF SavedCovered
<1>4. CacheComplete'
  BY DEF IInv, CacheComplete, InWindow, From, To
<1>5. WindowCovered'
  BY CoverageKept DEF WindowCovered
<1>6. QED
  BY <1>1, <1>2, <1>3, <1>4, <1>5 DEF IInv

LEMMA EnvironmentIInv == IInv /\ Environment => IInv'
<1> SUFFICES ASSUME IInv, Environment PROVE IInv'
  OBVIOUS
<1>1. UNCHANGED <<saved, ctx, cache, pc>> /\ [Next]_vars
  BY EnvironmentFrame DEF Next
<1>2. BrokenIsNoted'
  <2>1. ASSUME NEW s \in Sources, Insert(s) PROVE BrokenIsNoted'
    BY <2>1 DEF Insert, IInv, BrokenIsNoted
  <2>2. ASSUME NEW d \in Dags, NEW content \in Contents \cup {Broken}, Edit(d, content)
        PROVE  BrokenIsNoted'
    BY <2>2 DEF Edit, IInv, TypeOK, BrokenIsNoted
  <2>3. QED
    BY <2>1, <2>2 DEF Environment
<1>3. QED
  BY <1>1, <1>2, QuietStep

LEMMA InitOperatorIInv ==
    ASSUME IInv, NEW r \in Runs, InitOperator(r)
    PROVE  IInv'
<1> USE DEF IInv
<1>1. RunStep(r) /\ [Next]_vars
  BY DEF RunStep, Next
<1>2. TypeOK' /\ CacheIsSelected'
  BY <1>1, NextTypeOK, CacheStep
<1>3. /\ UNCHANGED <<rows, files, saved, cache, sink>>
      /\ \A s \in Runs \ {r} : pc'[s] = pc[s] /\ ctx'[s] = ctx[s]
      /\ pc[r] \in {"init", "init.from", "init.to"}
      /\ pc'[r] \in {"init", "init.from", "init.to", "spark", "failed"}
  BY DEF InitOperator, LoadConfig, FetchFrom, FetchTo, InitFails, Fail, Succeed, TypeOK
<1>4. DagOf[r] \in Dags /\ \A d \in Dags : Steady(d)' = Steady(d) /\ Table(d)' = Table(d)
  BY <1>3, RunsAssumption DEF Steady, Table
<1>5. SavedCovered' /\ BrokenIsNoted'
  BY <1>1, <1>3, SavedKept DEF SavedCovered, BrokenIsNoted
<1>6. cache[r] = None
  BY <1>3 DEF CacheIsSelected
<1>7. CacheComplete'
  BY <1>3, <1>6 DEF CacheComplete, InWindow, From, To
<1>8. WindowCovered'
  BY <1>1, <1>3, CoverageKept DEF WindowCovered
<1>9. /\ ctx'[r] # None /\ Steady(DagOf[r])' =>
            ctx'[r].config.source = Table(DagOf[r])'
      /\ ctx'[r] # None /\ ctx'[r].from # None /\ Steady(DagOf[r])' =>
            \E n \in Nat : /\ ctx'[r].from = Captured(Table(DagOf[r])', n)
                           /\ CoveredUpTo(DagOf[r], n)'
      /\ ctx'[r] # None /\ ctx'[r].to # None =>
            \E n \in Nat : /\ ctx'[r].to = Captured(ctx'[r].config.source, n)
                           /\ n <= rows'[ctx'[r].config.source]
  <2>1. CASE LoadConfig(r)
    <3>1. ctx'[r] = [config |-> yaml[DagOf[r]], from |-> None, to |-> None]
      BY <2>1 DEF LoadConfig, TypeOK
    <3>2. QED
      BY <1>4, <3>1 DEF Table
  <2>2. CASE FetchFrom(r)
    <3>1. ctx[r] # None /\ ctx[r] \in Context
      BY <2>2, ContextFields DEF FetchFrom, TypeOK
    <3>2. PICK v : v = (IF saved[DagOf[r]] = None THEN None
                        ELSE Serialise(ParseCheckpoint(saved[DagOf[r]])))
      OBVIOUS
    <3>3. ctx'[r] = [ctx[r] EXCEPT !.from = v]
      BY <2>2, <3>2 DEF FetchFrom, TypeOK
    <3>4. ctx'[r].config = ctx[r].config /\ ctx'[r].to = ctx[r].to /\ ctx'[r].from = v
      BY <3>1, <3>3 DEF Context
    <3>5. ASSUME v # None, Steady(DagOf[r])
          PROVE  \E n \in Nat : v = Captured(Table(DagOf[r]), n) /\ CoveredUpTo(DagOf[r], n)'
      <4>1. PICK n \in Nat : /\ saved[DagOf[r]] = SavedText(Captured(Table(DagOf[r]), n))
                             /\ CoveredUpTo(DagOf[r], n)
        BY <1>4, <3>2, <3>5 DEF SavedCovered
      <4>2. CoveredUpTo(DagOf[r], n)'
        BY <1>1, <1>4, <3>5, <4>1, CoveredStays
      <4>3. Table(DagOf[r]) \in Sources
        BY <1>4, <3>5 DEF Steady, Table, TypeOK, Config
      <4>4. v = Captured(Table(DagOf[r]), n)
        BY <3>2, <3>5, <4>1, <4>3, CapturedFacts
      <4>5. QED
        BY <4>2, <4>4
    <3>6. QED
      BY <1>3, <1>4, <3>1, <3>4, <3>5 DEF SteadyConfig, ToSealed
  <2>3. CASE FetchTo(r)
    <3>1. ctx[r] # None /\ ctx[r] \in Context /\ ctx[r].config.source \in Sources
      BY <2>3, ContextFields DEF FetchTo, TypeOK
    <3>2. CASE ctx' = ctx
      BY <1>1, <3>1, <3>2, ContextKept
    <3>3. CASE ctx' = [ctx EXCEPT ![r].to = Maximum(ctx[r].config.source)]
      <4>1. ctx'[r] = [ctx[r] EXCEPT !.to = Maximum(ctx[r].config.source)]
        BY <3>3 DEF TypeOK
      <4>2. /\ ctx'[r].config = ctx[r].config /\ ctx'[r].from = ctx[r].from
            /\ ctx'[r].to = Maximum(ctx[r].config.source)
        BY <3>1, <4>1 DEF Context
      <4>3. rows[ctx[r].config.source] \in Nat
        BY <3>1 DEF TypeOK
      <4>4. ctx'[r].to # None =>
              ctx'[r].to = Captured(ctx[r].config.source, rows[ctx[r].config.source])
        BY <4>2 DEF Maximum, Captured
      <4>5. ctx[r].from # None /\ Steady(DagOf[r])' =>
                \E n \in Nat : /\ ctx[r].from = Captured(Table(DagOf[r])', n)
                               /\ CoveredUpTo(DagOf[r], n)'
        <5>1. SUFFICES ASSUME ctx[r].from # None, Steady(DagOf[r])'
                       PROVE  \E n \in Nat : /\ ctx[r].from = Captured(Table(DagOf[r])', n)
                                             /\ CoveredUpTo(DagOf[r], n)'
          OBVIOUS
        <5>2. PICK n \in Nat : /\ ctx[r].from = Captured(Table(DagOf[r]), n)
                               /\ CoveredUpTo(DagOf[r], n)
          BY <1>4, <3>1, <5>1 DEF FromCovered
        <5>3. CoveredUpTo(DagOf[r], n)'
          BY <1>1, <1>4, <5>1, <5>2, CoveredStays
        <5>4. QED
          BY <1>4, <5>2, <5>3
      <4>6. QED
        BY <1>3, <1>4, <3>1, <4>2, <4>3, <4>4, <4>5 DEF SteadyConfig
    <3>4. QED
      BY <2>3, <3>2, <3>3 DEF FetchTo
  <2>4. CASE InitFails(r)
    BY <2>4 DEF InitFails, TypeOK
  <2>5. QED
    BY <2>1, <2>2, <2>3, <2>4 DEF InitOperator
<1>10. SteadyConfig' /\ FromCovered' /\ ToSealed'
  BY <1>1, <1>3, <1>9, ContextKept DEF SteadyConfig, FromCovered, ToSealed
<1>11. QED
  BY <1>2, <1>5, <1>7, <1>8, <1>10

(***************************************************************************)
(* What a run selects, and so what it has in hand to write, is all of its  *)
(* window: rows up to the captured maximum are there.                      *)
(***************************************************************************)
LEMMA SelectedComplete ==
    ASSUME IInv, NEW r \in Runs, ctx[r] # None, ctx[r].to # None,
           NEW i \in Nat \ {0}, InWindow(r, i)
    PROVE  <<ctx[r].config.source, i>> \in Selected(r)
<1> USE DEF IInv
<1>1. ctx[r].config.source \in Sources
  BY ContextFields
<1>2. PICK n \in Nat : ctx[r].to = Captured(ctx[r].config.source, n)
                       /\ n <= rows[ctx[r].config.source]
  BY DEF ToSealed
<1>3. To(r)[2] = n
  BY <1>1, <1>2, CapturedFacts DEF To
<1>4. rows[ctx[r].config.source] \in Nat
  BY <1>1 DEF TypeOK
<1>5. i \in 1..rows[ctx[r].config.source]
  BY <1>2, <1>3, <1>4 DEF InWindow
<1>6. <<ctx[r].config.source, i>> \in RowsOf(ctx[r].config.source)
  BY <1>5 DEF RowsOf
<1>7. QED
  BY <1>6 DEF Selected, InWindow, Incremental

LEMMA FrameComplete ==
    ASSUME IInv, NEW r \in Runs, ctx[r] # None, ctx[r].to # None,
           NEW i \in Nat \ {0}, InWindow(r, i)
    PROVE  <<ctx[r].config.source, i>> \in Frame(r)
  BY SelectedComplete DEF Frame, IInv, CacheComplete

LEMMA AppendLands ==
    ASSUME NEW r \in Runs, NEW part, NEW source, Append(r, part, source)
    PROVE  part \subseteq LandedBy(r)'
<1> SUFFICES ASSUME NEW row \in part PROVE row \in LandedBy(r)'
  OBVIOUS
<1>1. [path |-> WritePath(r, source), run |-> r, try |-> tries[r], row |-> row] \in sink'
  BY DEF Append
<1>2. QED
  BY <1>1 DEF LandedBy

(***************************************************************************)
(* The write covers the window, and below it everything was covered.       *)
(***************************************************************************)
LEMMA WriteCovers ==
    ASSUME IInv, NEW r \in Runs, WriteSink(r), ctx[r].to # None, Steady(DagOf[r])
    PROVE  CoveredUpTo(DagOf[r], To(r)[2])'
<1> USE DEF IInv
<1>1. ctx[r] # None /\ ctx[r].config.source \in Sources
  BY ContextFields DEF WriteSink, TypeOK
<1>2. ctx[r].config.source = Table(DagOf[r]) /\ DagOf[r] \in Dags
  BY <1>1, RunsAssumption DEF SteadyConfig
<1>3. UNCHANGED <<rows, files, ctx>> /\ sink \subseteq sink' /\ Append(r, Frame(r), ctx[r].config.source)
  BY AppendGrows DEF WriteSink
<1>4. PICK n \in Nat : ctx[r].to = Captured(ctx[r].config.source, n)
                       /\ n <= rows[ctx[r].config.source]
  BY <1>1 DEF ToSealed
<1>5. To(r)[2] = n /\ To(r)' = To(r)
  BY <1>1, <1>3, <1>4, CapturedFacts DEF To
<1>6. LandedBy(r)' \subseteq LandedByDag(DagOf[r])' /\ LandedByDag(DagOf[r]) \subseteq LandedByDag(DagOf[r])'
  BY <1>3 DEF LandedByDag, LandedBy
<1>7. ASSUME NEW i \in 1..n PROVE <<Table(DagOf[r]), i>> \in LandedByDag(DagOf[r])'
  <2>1. CASE InWindow(r, i)
    BY <1>1, <1>2, <1>3, <1>6, <2>1, FrameComplete, AppendLands
  <2>2. CASE ~InWindow(r, i)
    <3>1. ctx[r].from # None /\ ~(From(r)[2] < i)
      BY <1>5, <2>2 DEF InWindow
    <3>2. PICK m \in Nat : /\ ctx[r].from = Captured(Table(DagOf[r]), m)
                           /\ CoveredUpTo(DagOf[r], m)
      BY <1>1, <3>1 DEF FromCovered
    <3>3. From(r)[2] = m
      BY <1>1, <1>2, <3>2, CapturedFacts DEF From
    <3>4. i \in 1..m
      BY <3>1, <3>3
    <3>5. QED
      BY <1>6, <3>2, <3>4 DEF CoveredUpTo
  <2>3. QED
    BY <2>1, <2>2
<1>8. Table(DagOf[r])' = Table(DagOf[r]) /\ To(r)'[2] = n /\ n <= rows'[Table(DagOf[r])]
  BY <1>2, <1>3, <1>4, <1>5 DEF Table
<1>9. QED
  BY <1>5, <1>7, <1>8 DEF CoveredUpTo

LEMMA SparkRunIInv ==
    ASSUME IInv, NEW r \in Runs, SparkRunOperator(r)
    PROVE  IInv'
<1> USE DEF IInv
<1>1. RunStep(r) /\ [Next]_vars
  BY DEF RunStep, Next
<1>2. TypeOK' /\ CacheIsSelected'
  BY <1>1, NextTypeOK, CacheStep
<1>3. /\ UNCHANGED <<rows, files, saved, ctx>>
      /\ \A s \in Runs \ {r} : pc'[s] = pc[s] /\ cache'[s] = cache[s]
      /\ pc[r] \in {"spark", "spark.count", "spark.write"}
  <2>1. CASE LoseCache(r)
    BY <2>1 DEF LoseCache, CacheIsSelected, TypeOK
  <2>2. CASE ~LoseCache(r)
    BY <2>2 DEF SparkRunOperator, QueryRefused, ReadSource, CountRecords, WriteSink, SparkFails, Fail,
                Succeed, TypeOK
  <2>3. QED
    BY <2>1, <2>2
<1>4. ctx[r] # None
  BY <1>3 DEF TypeOK
<1>5. SteadyConfig' /\ FromCovered' /\ ToSealed'
  BY <1>1, <1>3, ContextKept DEF SteadyConfig, FromCovered, ToSealed
<1>6. SavedCovered' /\ BrokenIsNoted'
  BY <1>1, <1>3, SavedKept DEF SavedCovered, BrokenIsNoted
<1>7. CacheComplete'
  <2>1. cache'[r] # None => cache'[r] = cache[r] \/ cache'[r] = Selected(r)
    BY DEF SparkRunOperator, QueryRefused, ReadSource, CountRecords, LoseCache, WriteSink, SparkFails,
           TypeOK
  <2>2. \A i : \A s \in Runs : InWindow(s, i)' = InWindow(s, i)
    BY <1>3 DEF InWindow, From, To
  <2>3. QED
    BY <1>3, <1>4, <2>1, <2>2, SelectedComplete DEF CacheComplete
<1>8. WindowCovered'
  <2> SUFFICES ASSUME NEW s \in Runs, pc'[s] \in {"metric", "metric.save"}, ctx[s].to # None,
                      Steady(DagOf[s])'
               PROVE  CoveredUpTo(DagOf[s], To(s)[2])'
    BY <1>3 DEF WindowCovered
  <2>1. CASE s # r
    BY <1>1, <1>3, <2>1, CoverageKept
  <2>2. CASE s = r
    <3>1. WriteSink(r)
      BY <2>2 DEF SparkRunOperator, QueryRefused, ReadSource, CountRecords, LoseCache, SparkFails, Fail,
                  CacheIsSelected, TypeOK
    <3>2. Steady(DagOf[r])
      BY <1>3, <2>2 DEF Steady
    <3>3. QED
      BY <2>2, <3>1, <3>2, WriteCovers
  <2>3. QED
    BY <2>1, <2>2
<1>9. QED
  BY <1>2, <1>5, <1>6, <1>7, <1>8

LEMMA SaveCovers ==
    ASSUME IInv, NEW r \in Runs, MetricPushOperator(r),
           NEW d \in Dags, Steady(d)', saved'[d] # None
    PROVE  \E n \in Nat : saved'[d] = SavedText(Captured(Table(d)', n)) /\ CoveredUpTo(d, n)'
<1> USE DEF IInv
<1>1. [Next]_vars /\ UNCHANGED <<rows, files, ctx, sink>>
  BY DEF Publish, SaveCheckpoint, MetricFails, MetricPushOperator, Next
<1>2. CASE saved'[d] = saved[d]
  BY <1>1, <1>2, SavedKept
<1>3. CASE saved'[d] # saved[d]
  <2>1. /\ d = DagOf[r] /\ ctx[r].to # None /\ saved'[d] = SavedText(ctx[r].to)
        /\ pc[r] = "metric.save" /\ ctx[r] # None
    BY <1>3 DEF MetricPushOperator, Publish, SaveCheckpoint, Upserted, MetricFails, TypeOK
  <2>2. Steady(d) /\ Table(d)' = Table(d) /\ ctx[r].config.source = Table(d)
    BY <1>1, <2>1, StepFacts DEF SteadyConfig
  <2>3. PICK n \in Nat : ctx[r].to = Captured(Table(d), n)
    BY <2>1, <2>2 DEF ToSealed
  <2>4. Table(d) \in Sources
    BY <2>1, <2>2, ContextFields
  <2>5. To(r)[2] = n
    BY <2>3, <2>4, CapturedFacts DEF To
  <2>6. CoveredUpTo(d, n)
    BY <2>1, <2>2, <2>5 DEF WindowCovered
  <2>7. CoveredUpTo(d, n)'
    BY <1>1, <2>6, CoveredStays
  <2>8. QED
    BY <2>1, <2>2, <2>3, <2>7
<1>4. QED
  BY <1>2, <1>3

LEMMA MetricPushIInv ==
    ASSUME IInv, NEW r \in Runs, MetricPushOperator(r)
    PROVE  IInv'
<1> USE DEF IInv
<1>1. RunStep(r) /\ [Next]_vars
  BY DEF RunStep, Next
<1>2. TypeOK' /\ CacheIsSelected'
  BY <1>1, NextTypeOK, CacheStep
<1>3. /\ UNCHANGED <<rows, files, ctx, cache>>
      /\ \A s \in Runs : pc'[s] \in {"metric", "metric.save"} => pc[s] \in {"metric", "metric.save"}
  BY DEF MetricPushOperator, Publish, SaveCheckpoint, MetricFails, Fail, Succeed, TypeOK
<1>4. SteadyConfig' /\ FromCovered' /\ ToSealed'
  BY <1>1, <1>3, ContextKept DEF SteadyConfig, FromCovered, ToSealed
<1>5. SavedCovered'
  BY SaveCovers DEF SavedCovered
<1>6. CacheComplete' /\ BrokenIsNoted'
  BY <1>3 DEF CacheComplete, BrokenIsNoted, InWindow, From, To
<1>7. WindowCovered'
  BY <1>1, <1>3, CoverageKept DEF WindowCovered
<1>8. QED
  BY <1>2, <1>4, <1>5, <1>6, <1>7

LEMMA NextIInv == IInv /\ [Next]_vars => IInv'
<1> SUFFICES ASSUME IInv, [Next]_vars PROVE IInv'
  OBVIOUS
<1>1. ASSUME NEW r \in Runs, Trigger(r) \/ ParseFails(r) PROVE IInv'
  <2>1. /\ UNCHANGED <<saved, ctx, cache, files>>
        /\ \A s \in Runs : pc'[s] \in {"metric", "metric.save"} => pc[s] \in {"metric", "metric.save"}
    BY <1>1 DEF Trigger, ParseFails, Fail, IInv, TypeOK
  <2>2. BrokenIsNoted'
    BY <2>1 DEF IInv, BrokenIsNoted
  <2>3. QED
    BY <2>1, <2>2, QuietStep
<1>2. CASE UNCHANGED vars
  <2>1. BrokenIsNoted'
    BY <1>2 DEF IInv, BrokenIsNoted, vars
  <2>2. QED
    BY <1>2, <2>1, QuietStep DEF vars
<1>3. QED
  BY <1>1, <1>2, EnvironmentIInv, InitOperatorIInv, SparkRunIInv, MetricPushIInv DEF Next

(***************************************************************************)
(* The inductive invariant: what a DAG that has kept its table captured,   *)
(* read and landed.                                                        *)
(***************************************************************************)
THEOREM Invariance == Spec => []IInv
  BY InitIInv, NextIInv, PTL DEF Spec

(***************************************************************************)
(* What is at or below the checkpoint of a DAG whose file has named one    *)
(* table has been landed by its runs: with other DAGs on the same table,   *)
(* files edited between the tasks, failed MAX queries and lost caches.     *)
(***************************************************************************)
THEOREM CheckpointsLeaveNoGap == Spec => []GapsNeedRetarget
<1>1. ASSUME IInv PROVE GapsNeedRetarget
  <2> SUFFICES ASSUME NEW d \in Dags \ retargeted, saved[d] # None, yaml[d] # Broken,
                      NEW row \in RowsOf(yaml[d].source), row[2] <= saved[d][2]
               PROVE  row \in LandedByDag(d)
    BY DEF GapsNeedRetarget
  <2>1. PICK n \in Nat : saved[d] = SavedText(Captured(Table(d), n)) /\ CoveredUpTo(d, n)
    BY <1>1 DEF IInv, SavedCovered, Steady
  <2>2. yaml[d] \in Config
    BY <1>1 DEF IInv, TypeOK
  <2>3. Table(d) \in Sources
    BY <2>2 DEF Table, Config
  <2>4. saved[d][2] = n
    BY <2>1, <2>3, CapturedFacts
  <2>5. rows[Table(d)] \in Nat
    BY <1>1, <2>3 DEF IInv, TypeOK
  <2>6. row = <<Table(d), row[2]>> /\ row[2] \in 1..n
    BY <2>4, <2>5 DEF RowsOf, Table
  <2>7. QED
    BY <2>1, <2>6 DEF CoveredUpTo
<1>2. QED
  BY <1>1, Invariance, PTL

-----------------------------------------------------------------------------
(***************************************************************************)
(* A query over a column of numbers or dates is never refused while the    *)
(* file of the DAG names one table.                                        *)
(***************************************************************************)
LEMMA OnlyTextIsRefused ==
    ASSUME IInv, NEW r \in Runs, ctx[r] # None, Refused(r), Steady(DagOf[r])
    PROVE  Column[ctx[r].config.source] \in {"digits", "text"}
<1> USE DEF IInv
<1>1. ctx[r].config.source \in Sources /\ ctx[r].from # None /\ ctx[r].to # None
  BY ContextFields DEF Refused, Incremental
<1>2. ctx[r].config.source = Table(DagOf[r])
  BY DEF SteadyConfig
<1>3. PICK m \in Nat : ctx[r].from = Captured(ctx[r].config.source, m)
  BY <1>1, <1>2 DEF FromCovered
<1>4. PICK n \in Nat : ctx[r].to = Captured(ctx[r].config.source, n)
  BY <1>1 DEF ToSealed
<1>5. Column[ctx[r].config.source] \notin {"int", "datetime"}
  BY <1>1, <1>3, <1>4, CapturedFacts DEF Refused, From, To
<1>6. Column[ctx[r].config.source] \in RawKinds \ {"iso"}
  BY <1>1, ColumnAssumption
<1>7. QED
  BY <1>5, <1>6 DEF RawKinds

Explained(r) ==
    \/ DagOf[r] \in broke
    \/ ctx[r] # None /\ Refused(r) /\
          \/ Column[ctx[r].config.source] \in {"digits", "text"}
          \/ DagOf[r] \in retargeted

LEMMA ExplainedStays ==
    ASSUME TypeOK, [Next]_vars, NEW r \in Runs, ctx'[r] = ctx[r], Explained(r)
    PROVE  Explained(r)'
<1>1. broke \subseteq broke' /\ retargeted \subseteq retargeted'
  BY StepFacts
<1>2. Refused(r)' = Refused(r)
  BY DEF Refused, Incremental, From, To
<1>3. QED
  BY <1>1, <1>2 DEF Explained

LEMMA FailuresStep == IInv /\ OnlyConfigFailsRuns /\ [Next]_vars => OnlyConfigFailsRuns'
<1> SUFFICES ASSUME IInv, OnlyConfigFailsRuns, [Next]_vars, faults' = 0,
                    NEW s \in Runs, pc'[s] = "failed"
             PROVE  Explained(s)'
  BY DEF OnlyConfigFailsRuns, Explained
<1> USE DEF IInv
<1>1. faults = 0
  BY StepFacts
<1>2. CASE pc[s] = "failed"
  <2>1. Explained(s)
    BY <1>1, <1>2 DEF OnlyConfigFailsRuns, Explained
  <2>2. ctx'[s] = ctx[s]
    <3>1. ASSUME NEW r \in Runs, RunStep(r) PROVE ctx'[s] = ctx[s]
      <4>1. CASE s # r
        BY <3>1, <4>1, RunStepFrame
      <4>2. CASE s = r
        BY <1>2, <3>1, <4>2
           DEF RunStep, Trigger, ParseFails, InitOperator, LoadConfig, FetchFrom, FetchTo, InitFails,
               SparkRunOperator, QueryRefused, ReadSource, CountRecords, LoseCache, WriteSink,
               SparkFails, MetricPushOperator, Publish, SaveCheckpoint, MetricFails
      <4>3. QED
        BY <4>1, <4>2
    <3>2. QED
      BY <3>1, EnvironmentFrame DEF Next, RunStep
  <2>3. QED
    BY <2>1, <2>2, ExplainedStays
<1>3. CASE pc[s] # "failed"
  <2>1. ParseFails(s) \/ QueryRefused(s)
    <3>1. ASSUME NEW r \in Runs, RunStep(r) PROVE r = s
      BY <1>3, <3>1, RunStepFrame
    <3>2. RunStep(s)
      BY <1>3, <3>1, EnvironmentFrame DEF Next, RunStep
    <3>3. ~InitFails(s) /\ ~SparkFails(s) /\ ~MetricFails(s)
      BY <1>1 DEF InitFails, SparkFails, MetricFails, Fault
    <3>4. ~Trigger(s) /\ ~LoadConfig(s) /\ ~FetchFrom(s) /\ ~FetchTo(s)
      BY DEF Trigger, LoadConfig, FetchFrom, FetchTo, Succeed, TypeOK
    <3>5. ~ReadSource(s) /\ ~CountRecords(s) /\ ~LoseCache(s) /\ ~WriteSink(s)
      BY <1>3 DEF ReadSource, CountRecords, LoseCache, WriteSink, Succeed, TypeOK
    <3>6. ~Publish(s) /\ ~SaveCheckpoint(s)
      BY DEF Publish, SaveCheckpoint, Succeed, TypeOK
    <3>7. QED
      BY <3>2, <3>3, <3>4, <3>5, <3>6 DEF RunStep, InitOperator, SparkRunOperator, MetricPushOperator
  <2>2. DagOf[s] \in Dags
    BY RunsAssumption
  <2>3. CASE ParseFails(s)
    BY <2>2, <2>3, StepFacts DEF ParseFails, BrokenIsNoted, Explained
  <2>4. CASE QueryRefused(s)
    <3>1. ctx[s] # None /\ Refused(s) /\ yaml[DagOf[s]] # Broken /\ ctx'[s] = ctx[s]
      BY <2>4 DEF QueryRefused, Parses, TypeOK
    <3>2. Explained(s)
      BY <3>1, OnlyTextIsRefused DEF Explained, Steady
    <3>3. QED
      BY <3>1, <3>2, ExplainedStays
  <2>5. QED
    BY <2>1, <2>3, <2>4
<1>4. QED
  BY <1>2, <1>3

(***************************************************************************)
(* Without a fault a run fails for what its YAML file says or said.        *)
(***************************************************************************)
THEOREM FailuresAreExplained == Spec => []OnlyConfigFailsRuns
<1>1. Init => OnlyConfigFailsRuns
  BY DEF Init, OnlyConfigFailsRuns
<1>2. QED
  BY <1>1, FailuresStep, Invariance, PTL DEF Spec

-----------------------------------------------------------------------------
(***************************************************************************)
(* The record count.  Until its write succeeds, what a run has landed are  *)
(* left-overs of earlier tries, rows it would select again; what it counts *)
(* is what it caches, and this try's cache is what it will write.          *)
(***************************************************************************)
LeftOvers ==
    \A r \in Runs :
        /\ pc[r] \in {"idle", "init", "init.from", "init.to"} =>
              RecordsOf(r) = {} /\ count[r] = None
        /\ pc[r] \in {"spark", "spark.count", "spark.write"} =>
              \A rec \in RecordsOf(r) : rec.try < tries[r] /\ rec.row \in Selected(r)
        /\ pc[r] \in {"spark", "spark.count"} => count[r] = None

CountedIsCached ==
    \A r \in Runs : pc[r] = "spark.write" /\ count[r] # None /\ r \notin recomputed =>
        /\ cache[r] # None /\ count[r] = Cardinality(cache[r])
        /\ \A rec \in RecordsOf(r) : rec.row \in cache[r]

CountedIsLanded ==
    \A r \in Runs :
        pc[r] \in {"metric", "metric.save"} /\ count[r] # None /\ r \notin recomputed =>
            count[r] = Cardinality(LastTry(r))

EventsAreLate ==
    \A e \in events : pc[e.run] \in {"metric", "metric.save", "done", "failed"}

CountInv ==
    /\ LeftOvers
    /\ CountedIsCached
    /\ CountedIsLanded
    /\ EventsAreLate
    /\ CountIsTruthful

LEMMA LastTryOfRecords ==
    ASSUME NEW r \in Runs, RecordsOf(r)' = RecordsOf(r)
    PROVE  LastTry(r)' = LastTry(r)
<1>1. LastTry(r) = {a \in RecordsOf(r) : \A b \in RecordsOf(r) : b.try <= a.try}
  BY DEF LastTry, RecordsOf
<1>2. LastTry(r)' = {a \in RecordsOf(r)' : \A b \in RecordsOf(r)' : b.try <= a.try}
  BY DEF LastTry, RecordsOf
<1>3. QED
  BY <1>1, <1>2

(***************************************************************************)
(* A step that leaves a run's own state alone keeps what is said of it.    *)
(***************************************************************************)
LEMMA CountFrame ==
    ASSUME IInv, CountInv, [Next]_vars, NEW s \in Runs,
           UNCHANGED <<pc[s], tries[s], ctx[s], count[s], cache[s], RecordsOf(s)>>,
           s \in recomputed => s \in recomputed'
    PROVE  /\ pc'[s] \in {"idle", "init", "init.from", "init.to"} =>
                 RecordsOf(s)' = {} /\ count'[s] = None
           /\ pc'[s] \in {"spark", "spark.count", "spark.write"} =>
                 \A rec \in RecordsOf(s)' : rec.try < tries'[s] /\ rec.row \in Selected(s)'
           /\ pc'[s] \in {"spark", "spark.count"} => count'[s] = None
           /\ pc'[s] = "spark.write" /\ count'[s] # None /\ s \notin recomputed' =>
                 /\ cache'[s] # None /\ count'[s] = Cardinality(cache'[s])
                 /\ \A rec \in RecordsOf(s)' : rec.row \in cache'[s]
           /\ pc'[s] \in {"metric", "metric.save"} /\ count'[s] # None /\ s \notin recomputed' =>
                 count'[s] = Cardinality(LastTry(s)')
<1> USE DEF CountInv
<1>1. pc[s] \in {"spark", "spark.count", "spark.write"} => Selected(s) \subseteq Selected(s)'
  <2>1. pc[s] \in {"spark", "spark.count", "spark.write"} => ctx[s] # None
    BY DEF IInv, TypeOK
  <2>2. QED
    BY <2>1, SelectedGrows DEF IInv
<1>2. LastTry(s)' = LastTry(s)
  BY LastTryOfRecords
<1>3. QED
  BY <1>1, <1>2 DEF LeftOvers, CountedIsCached, CountedIsLanded

(***************************************************************************)
(* What was published of a run still holds while its records stay.         *)
(***************************************************************************)
LEMMA TruthFrame ==
    ASSUME CountInv, NEW e \in events, RecordsOf(e.run)' = RecordsOf(e.run), e.run \in Runs,
           e.run \in recomputed => e.run \in recomputed',
           e.record_count # None, e.run \notin recomputed'
    PROVE  e.record_count = Cardinality(LastTry(e.run)')
<1>1. LastTry(e.run)' = LastTry(e.run)
  BY LastTryOfRecords
<1>2. QED
  BY <1>1 DEF CountInv, CountIsTruthful

(***************************************************************************)
(* The last try is what the successful write appends.                      *)
(***************************************************************************)
LEMMA WriteIsLastTry ==
    ASSUME IInv, CountInv, NEW r \in Runs, WriteSink(r), count[r] # None, r \notin recomputed
    PROVE  count[r] = Cardinality(LastTry(r)')
<1> DEFINE Rec(row) == [path |-> WritePath(r, ctx[r].config.source), run |-> r,
                        try |-> tries[r], row |-> row]
           written == {Rec(row) : row \in cache[r]}
<1>1. /\ cache[r] # None /\ count[r] = Cardinality(cache[r])
      /\ \A rec \in RecordsOf(r) : rec.row \in cache[r] /\ rec.try < tries[r]
      /\ ctx[r] # None /\ tries[r] \in Nat
  BY DEF WriteSink, CountInv, CountedIsCached, LeftOvers, IInv, TypeOK
<1>2. RecordsOf(r)' = RecordsOf(r) \cup written
  <2>1. sink' = sink \cup written
    BY <1>1 DEF WriteSink, Append, Frame
  <2>2. \A rec \in written : rec.run = r
    OBVIOUS
  <2>3. QED
    BY <2>1, <2>2 DEF RecordsOf
<1>3. LastTry(r)' = {a \in RecordsOf(r)' : \A b \in RecordsOf(r)' : b.try <= a.try}
  BY DEF LastTry, RecordsOf
<1>4. \A rec \in written : rec.try = tries[r]
  OBVIOUS
<1>5. \A rec \in RecordsOf(r) : rec.try \in Nat
  BY DEF RecordsOf, IInv, TypeOK, SinkRecord
<1>6. LastTry(r)' = written
  <2>1. written \subseteq LastTry(r)'
    BY <1>1, <1>2, <1>3, <1>4, <1>5
  <2>2. ASSUME NEW a \in LastTry(r)', a \notin written PROVE FALSE
    <3>1. a \in RecordsOf(r) /\ \A b \in RecordsOf(r)' : b.try <= a.try
      BY <1>2, <1>3, <2>2
    <3>2. a.row \in cache[r] /\ a.try < tries[r] /\ a.try \in Nat
      BY <1>1, <1>5, <3>1
    <3>3. Rec(a.row) \in written
      BY <3>2
    <3>4. tries[r] <= a.try
      BY <1>2, <1>4, <3>1, <3>3
    <3>5. QED
      BY <1>1, <3>2, <3>4
  <2>3. QED
    BY <2>1, <2>2
<1>7. IsFiniteSet(cache[r])
  <2>1. cache[r] \subseteq Selected(r)
    BY <1>1 DEF IInv, CacheIsSelected
  <2>2. IsFiniteSet(Selected(r))
    BY <1>1, SelectedType DEF IInv
  <2>3. QED
    BY <2>1, <2>2, FS_Subset
<1>8. ExistsBijection(cache[r], written)
  <2> DEFINE f == [row \in cache[r] |-> Rec(row)]
  <2>1. f \in [cache[r] -> written]
    OBVIOUS
  <2>2. \A x, y \in cache[r] : f[x] = f[y] => x = y
    <3>1. \A x \in cache[r] : f[x].row = x
      OBVIOUS
    <3>2. QED
      BY <3>1
  <2>3. \A t \in written : \E x \in cache[r] : f[x] = t
    OBVIOUS
  <2> HIDE DEF f, written
  <2>4. f \in Bijection(cache[r], written)
    BY <2>1, <2>2, <2>3 DEF Bijection, Injection, Surjection, IsInjective
  <2>5. QED
    BY <2>4 DEF ExistsBijection
<1> HIDE DEF written
<1>9. Cardinality(written) = Cardinality(cache[r])
  BY <1>7, <1>8, FS_Bijection
<1>10. QED
  BY <1>1, <1>6, <1>9

LEMMA InitOperatorCount ==
    ASSUME IInv, CountInv, NEW r \in Runs, InitOperator(r)
    PROVE  CountInv'
<1> USE DEF CountInv
<1>1. RunStep(r) /\ [Next]_vars
  BY DEF RunStep, Next
<1>2. /\ UNCHANGED <<events, sink, count, recomputed>>
      /\ pc[r] \in {"init", "init.from", "init.to"}
      /\ pc'[r] \in {"init", "init.from", "init.to", "spark", "failed"}
  BY DEF InitOperator, LoadConfig, FetchFrom, FetchTo, InitFails, Fail, Succeed, IInv, TypeOK
<1>3. \A s \in Runs : RecordsOf(s)' = RecordsOf(s)
  BY <1>2 DEF RecordsOf
<1>4. RecordsOf(r) = {} /\ count[r] = None
  BY <1>2 DEF LeftOvers
<1>5. \A s \in Runs \ {r} : UNCHANGED <<pc[s], tries[s], ctx[s], count[s], cache[s], RecordsOf(s)>>
  BY <1>1, RunStepFrame DEF IInv
<1>6. LeftOvers'
  BY <1>1, <1>2, <1>3, <1>4, <1>5, CountFrame DEF LeftOvers
<1>7. CountedIsCached' /\ CountedIsLanded'
  BY <1>1, <1>2, <1>5, CountFrame DEF CountedIsCached, CountedIsLanded
<1>8. EventsAreLate'
  <2> SUFFICES ASSUME NEW e \in events
               PROVE  pc'[e.run] \in {"metric", "metric.save", "done", "failed"}
    BY <1>2 DEF EventsAreLate
  <2>1. e.run \in Runs /\ e.run # r
    BY <1>2 DEF EventsAreLate, IInv, TypeOK
  <2>2. QED
    BY <1>5, <2>1 DEF EventsAreLate
<1>9. CountIsTruthful'
  BY <1>2 DEF CountIsTruthful, LastTry
<1>10. QED
  BY <1>6, <1>7, <1>8, <1>9

LEMMA SparkRunCount ==
    ASSUME IInv, CountInv, NEW r \in Runs, SparkRunOperator(r)
    PROVE  CountInv'
<1> USE DEF CountInv
<1>1. RunStep(r) /\ [Next]_vars
  BY DEF RunStep, Next
<1>2. /\ UNCHANGED <<events, ctx>>
      /\ \A s \in Runs \ {r} : s \in recomputed => s \in recomputed'
      /\ pc[r] \in {"spark", "spark.count", "spark.write"}
  <2>1. CASE LoseCache(r)
    BY <2>1 DEF LoseCache, IInv, CacheIsSelected, TypeOK
  <2>2. CASE ~LoseCache(r)
    BY <2>2 DEF SparkRunOperator, QueryRefused, ReadSource, CountRecords, WriteSink, SparkFails
  <2>3. QED
    BY <2>1, <2>2
<1>3. \A s \in Runs \ {r} : UNCHANGED <<pc[s], tries[s], ctx[s], count[s], cache[s], RecordsOf(s)>>
  BY <1>1, RunStepFrame DEF IInv
<1>4. ctx[r] # None /\ tries[r] \in 0..Retries
  BY <1>2 DEF IInv, TypeOK
<1>5. Selected(r) \subseteq Selected(r)'
  BY <1>1, <1>2, <1>4, SelectedGrows DEF IInv
<1>6. \A rec \in RecordsOf(r) : rec.try < tries[r] /\ rec.row \in Selected(r) /\ rec.try \in Nat
  BY <1>2 DEF LeftOvers, RecordsOf, IInv, TypeOK, SinkRecord
<1>7. /\ pc'[r] \notin {"idle", "init", "init.from", "init.to"}
      /\ pc'[r] \in {"spark", "spark.count"} => count'[r] = None
      /\ pc'[r] \in {"spark", "spark.count", "spark.write"} =>
            \A rec \in RecordsOf(r)' : rec.try < tries'[r] /\ rec.row \in Selected(r)'
  <2>1. CASE QueryRefused(r)
    BY <1>4, <1>5, <1>6, <2>1
       DEF QueryRefused, Fail, LeftOvers, RecordsOf, IInv, TypeOK
  <2>2. CASE ReadSource(r) \/ CountRecords(r)
    BY <1>5, <1>6, <2>2 DEF ReadSource, CountRecords, LeftOvers, RecordsOf, IInv, TypeOK
  <2>3. CASE LoseCache(r)
    <3>1. pc[r] = "spark.write" /\ UNCHANGED <<pc, tries, count>> /\ RecordsOf(r)' = RecordsOf(r)
      BY <2>3 DEF LoseCache, IInv, CacheIsSelected, RecordsOf
    <3>2. QED
      BY <1>5, <1>6, <3>1
  <2>4. CASE WriteSink(r)
    BY <2>4 DEF WriteSink, Succeed, IInv, TypeOK
  <2>5. CASE SparkFails(r)
    <3>1. pc'[r] \in {"spark", "failed"} /\ count'[r] = None
          /\ (pc'[r] = "spark" => tries'[r] = tries[r] + 1)
      BY <2>5 DEF SparkFails, Fail, IInv, TypeOK
    <3>2. ASSUME NEW rec \in RecordsOf(r)', rec \notin RecordsOf(r)
          PROVE  rec.try = tries[r] /\ rec.row \in Frame(r)
      BY <2>5, <3>2 DEF SparkFails, Append, RecordsOf
    <3>3. Frame(r) \subseteq Selected(r)
      BY FrameIsSelected DEF IInv
    <3>4. QED
      BY <1>4, <1>5, <1>6, <3>1, <3>2, <3>3
  <2>6. QED
    BY <2>1, <2>2, <2>3, <2>4, <2>5 DEF SparkRunOperator
<1>8. LeftOvers'
  BY <1>1, <1>2, <1>3, <1>7, CountFrame DEF LeftOvers
<1>9. CountedIsCached'
  <2> SUFFICES ASSUME pc'[r] = "spark.write", count'[r] # None, r \notin recomputed'
               PROVE  /\ cache'[r] # None /\ count'[r] = Cardinality(cache'[r])
                      /\ \A rec \in RecordsOf(r)' : rec.row \in cache'[r]
    BY <1>1, <1>2, <1>3, CountFrame DEF CountedIsCached
  <2>1. CountRecords(r)
    BY DEF SparkRunOperator, QueryRefused, ReadSource, LoseCache, WriteSink, SparkFails, Fail, Succeed,
           LeftOvers, IInv, TypeOK
  <2>2. cache'[r] = Selected(r) /\ count'[r] = Cardinality(Selected(r))
        /\ RecordsOf(r)' = RecordsOf(r) /\ cache'[r] # None
    <3>1. cache'[r] = Selected(r) /\ count'[r] = Cardinality(Selected(r)) /\ UNCHANGED sink
      BY <2>1 DEF CountRecords, IInv, TypeOK
    <3>2. cache'[r] # None
      BY <1>4, <3>1, SelectedType, NoneAssumption DEF IInv
    <3>3. QED
      BY <3>1, <3>2 DEF RecordsOf
  <2>3. QED
    BY <1>6, <2>2
<1>10. CountedIsLanded'
  <2> SUFFICES ASSUME pc'[r] \in {"metric", "metric.save"}, count'[r] # None, r \notin recomputed'
               PROVE  count'[r] = Cardinality(LastTry(r)')
    BY <1>1, <1>2, <1>3, CountFrame DEF CountedIsLanded
  <2>1. WriteSink(r)
    BY <1>2 DEF SparkRunOperator, QueryRefused, ReadSource, CountRecords, LoseCache, SparkFails, Fail,
                IInv, TypeOK
  <2>2. count'[r] = count[r] /\ recomputed' = recomputed
    BY <2>1 DEF WriteSink
  <2>3. QED
    BY <2>1, <2>2, WriteIsLastTry
<1>11. \A e \in events : e.run \in Runs /\ e.run # r
  BY <1>2 DEF EventsAreLate, IInv, TypeOK
<1>12. EventsAreLate'
  BY <1>2, <1>3, <1>11 DEF EventsAreLate
<1>13. CountIsTruthful'
  BY <1>2, <1>3, <1>11, TruthFrame DEF CountIsTruthful
<1>14. QED
  BY <1>8, <1>9, <1>10, <1>12, <1>13

LEMMA MetricPushCount ==
    ASSUME IInv, CountInv, NEW r \in Runs, MetricPushOperator(r)
    PROVE  CountInv'
<1> USE DEF CountInv
<1>1. RunStep(r) /\ [Next]_vars
  BY DEF RunStep, Next
<1>2. /\ UNCHANGED <<count, sink, recomputed>>
      /\ pc[r] \in {"metric", "metric.save"}
      /\ pc'[r] \in {"metric", "metric.save", "done", "failed"}
  BY DEF MetricPushOperator, Publish, SaveCheckpoint, MetricFails, Fail, Succeed, IInv, TypeOK
<1>3. \A s \in Runs \ {r} : UNCHANGED <<pc[s], tries[s], ctx[s], count[s], cache[s], RecordsOf(s)>>
  BY <1>1, RunStepFrame DEF IInv
<1>4. \A s \in Runs : LastTry(s)' = LastTry(s)
  BY <1>2 DEF LastTry
<1>5. LeftOvers' /\ CountedIsCached'
  BY <1>1, <1>2, <1>3, CountFrame DEF LeftOvers, CountedIsCached
<1>6. CountedIsLanded'
  BY <1>1, <1>2, <1>3, <1>4, CountFrame DEF CountedIsLanded
<1>7. ASSUME NEW e \in events', e \notin events
      PROVE  e.run = r /\ e.record_count = count[r]
  BY <1>7 DEF MetricPushOperator, Publish, Published, SaveCheckpoint, MetricFails
<1>8. \A e \in events : e.run \in Runs
  BY DEF IInv, TypeOK
<1>9. EventsAreLate'
  BY <1>2, <1>3, <1>7, <1>8 DEF EventsAreLate
<1>10. CountIsTruthful'
  BY <1>2, <1>4, <1>7, <1>8 DEF CountIsTruthful, CountedIsLanded
<1>11. QED
  BY <1>5, <1>6, <1>9, <1>10

LEMMA NextCount ==
    ASSUME IInv, CountInv, [Next]_vars
    PROVE  CountInv'
<1> USE DEF CountInv
<1>1. CASE Environment \/ UNCHANGED vars
  <2>1. UNCHANGED <<pc, tries, ctx, count, cache, recomputed, sink, events>>
    BY <1>1, EnvironmentFrame
  <2>2. \A s \in Runs : RecordsOf(s)' = RecordsOf(s) /\ LastTry(s)' = LastTry(s)
    BY <2>1 DEF RecordsOf, LastTry
  <2>3. LeftOvers' /\ CountedIsCached' /\ CountedIsLanded'
    BY <2>1, <2>2, CountFrame DEF LeftOvers, CountedIsCached, CountedIsLanded
  <2>4. EventsAreLate' /\ CountIsTruthful'
    BY <2>1 DEF EventsAreLate, CountIsTruthful, LastTry
  <2>5. QED
    BY <2>3, <2>4
<1>2. ASSUME NEW r \in Runs, Trigger(r) \/ ParseFails(r) PROVE CountInv'
  <2>1. /\ UNCHANGED <<ctx, count, cache, recomputed, sink, events>>
        /\ \A s \in Runs \ {r} : UNCHANGED <<pc[s], tries[s]>>
    BY <1>2 DEF Trigger, ParseFails, Fail, IInv, TypeOK
  <2>2. \A s \in Runs : RecordsOf(s)' = RecordsOf(s) /\ LastTry(s)' = LastTry(s)
    BY <2>1 DEF RecordsOf, LastTry
  <2>3. /\ pc'[r] \in {"init", "metric"} => pc[r] \in {"idle", "init", "metric"}
                                            /\ (pc'[r] = "metric" <=> pc[r] = "metric")
        /\ pc'[r] \in {"init", "spark", "metric", "failed"}
        /\ pc'[r] = "spark" => pc[r] = "spark" /\ tries[r] <= tries'[r]
        /\ pc[r] \in {"idle", "init", "spark", "metric"}
    BY <1>2 DEF Trigger, ParseFails, Fail, IInv, TypeOK
  <2>4. Selected(r)' = Selected(r)
    BY <1>2 DEF Trigger, ParseFails, Selected, RowsOf, Incremental, From, To
  <2>5. \A rec \in RecordsOf(r) : rec.try \in Nat
    BY DEF RecordsOf, IInv, TypeOK, SinkRecord
  <2>6. tries[r] \in Nat /\ tries'[r] \in Nat
    BY <1>2, NextTypeOK DEF IInv, TypeOK
  <2>7. LeftOvers'
    BY <2>1, <2>2, <2>3, <2>4, <2>5, <2>6, CountFrame DEF LeftOvers
  <2>8. CountedIsCached' /\ CountedIsLanded'
    BY <2>1, <2>2, <2>3, CountFrame DEF CountedIsCached, CountedIsLanded
  <2>9. EventsAreLate'
    <3>1. \A e \in events : e.run \in Runs
      BY DEF IInv, TypeOK
    <3>2. QED
      BY <2>1, <2>3, <3>1 DEF EventsAreLate
  <2>10. CountIsTruthful'
    BY <2>1, <2>2 DEF CountIsTruthful, LastTry
  <2>11. QED
    BY <2>7, <2>8, <2>9, <2>10
<1>3. ASSUME NEW r \in Runs, InitOperator(r) \/ SparkRunOperator(r) \/ MetricPushOperator(r)
      PROVE  CountInv'
  BY <1>3, InitOperatorCount, SparkRunCount, MetricPushCount
<1>4. QED
  BY <1>1, <1>2, <1>3 DEF Next

(***************************************************************************)
(* The record_count that is published is the number of rows the last try   *)
(* of the run landed, unless cached rows were lost.                        *)
(***************************************************************************)
THEOREM CountsAreTruthful == Spec => []CountIsTruthful
<1>1. Init => CountInv
  BY DEF Init, CountInv, LeftOvers, CountedIsCached, CountedIsLanded, EventsAreLate, CountIsTruthful,
         RecordsOf
<1>2. IInv /\ CountInv /\ [Next]_vars => CountInv'
  BY NextCount
<1>3. CountInv => CountIsTruthful
  BY DEF CountInv
<1>4. QED
  BY <1>1, <1>2, <1>3, Invariance, PTL DEF Spec

-----------------------------------------------------------------------------
(***************************************************************************)
(* DagsImplementLanding.  A steady DAG still reads the table it was        *)
(* deployed with, and a run captures once, after which init is behind it.  *)
(***************************************************************************)
SteadyHome == \A d \in Dags : Steady(d) => yaml[d].source = Home(d)

NotCaptured ==
    \A r \in Runs : pc[r] \in {"init.from", "init.to"} => ctx[r].to = None

NothingYet == \A r \in Runs : pc[r] \in {"idle", "init"} => ctx[r] = None

LInv == IInv /\ SteadyHome /\ NotCaptured /\ NothingYet

LEMMA HomeStep == TypeOK /\ SteadyHome /\ [Next]_vars => SteadyHome'
<1> SUFFICES ASSUME TypeOK, SteadyHome, [Next]_vars, NEW d \in Dags, Steady(d)'
             PROVE  yaml'[d].source = Home(d)
  BY DEF SteadyHome, Home
<1>1. Steady(d) /\ Table(d)' = Table(d)
  BY StepFacts
<1>2. QED
  BY <1>1 DEF SteadyHome, Table

LEMMA CapturedOnce == IInv /\ NotCaptured /\ NothingYet /\ [Next]_vars => NotCaptured' /\ NothingYet'
<1> SUFFICES ASSUME IInv, NotCaptured, NothingYet, [Next]_vars, NEW s \in Runs
             PROVE  /\ pc'[s] \in {"init.from", "init.to"} => ctx'[s].to = None
                    /\ pc'[s] \in {"idle", "init"} => ctx'[s] = None
  BY DEF NotCaptured, NothingYet
<1> USE DEF NotCaptured, NothingYet
<1>1. CASE UNCHANGED <<pc[s], ctx[s]>>
  BY <1>1
<1>2. CASE Environment \/ UNCHANGED vars
  BY <1>1, <1>2, EnvironmentFrame
<1>3. ASSUME NEW r \in Runs, RunStep(r), r # s
      PROVE  UNCHANGED <<pc[s], ctx[s]>>
  BY <1>3, RunStepFrame DEF IInv
<1>4. CASE RunStep(s)
  <2>1. pc \in [Runs -> Steps] /\ ctx \in [Runs -> Optional(Context)]
    BY DEF IInv, TypeOK
  <2>2. CASE Trigger(s) \/ ParseFails(s)
    BY <2>1, <2>2 DEF Trigger, ParseFails, Fail
  <2>3. CASE LoadConfig(s)
    BY <2>1, <2>3 DEF LoadConfig
  <2>4. CASE FetchFrom(s)
    <3>1. ctx[s] # None
      BY <2>4 DEF FetchFrom, IInv, TypeOK
    <3>2. ctx[s] \in Context /\ ctx[s].to = None
      BY <2>4, <3>1, ContextFields DEF FetchFrom, IInv
    <3>3. ctx'[s].to = None /\ pc'[s] = "init.to"
      BY <2>1, <2>4, <3>2 DEF FetchFrom, Context
    <3>4. QED
      BY <3>3
  <2>5. CASE FetchTo(s)
    BY <2>1, <2>5 DEF FetchTo, Succeed
  <2>6. CASE InitFails(s)
    BY <2>1, <2>6 DEF InitFails, Fail
  <2>7. CASE SparkRunOperator(s)
    <3>1. CASE LoseCache(s)
      BY <1>1, <3>1 DEF LoseCache
    <3>2. CASE ~LoseCache(s)
      BY <2>1, <2>7, <3>2 DEF SparkRunOperator, QueryRefused, ReadSource, CountRecords, WriteSink,
                              SparkFails, Fail, Succeed
    <3>3. QED
      BY <3>1, <3>2
  <2>8. CASE MetricPushOperator(s)
    BY <2>1, <2>8 DEF MetricPushOperator, Publish, SaveCheckpoint, MetricFails, Fail, Succeed
  <2>9. QED
    BY <1>4, <2>2, <2>3, <2>4, <2>5, <2>6, <2>7, <2>8 DEF RunStep, InitOperator
<1>5. QED
  BY <1>1, <1>2, <1>3, <1>4 DEF Next, RunStep

LEMMA LandingInvariance == Spec => []LInv
<1>1. Init => SteadyHome /\ NotCaptured /\ NothingYet
  BY DEF Init, SteadyHome, Home, NotCaptured, NothingYet
<1>2. IInv => TypeOK
  BY DEF IInv
<1>3. QED
  BY <1>1, <1>2, HomeStep, CapturedOnce, InitIInv, NextIInv, PTL DEF Spec, LInv

(***************************************************************************)
(* A set of numbers up to a bound has a maximum: an element that as few as *)
(* possible exceed, by the well-foundedness of strict inclusion.           *)
(***************************************************************************)
LEMMA MaxOfNumbers ==
    ASSUME NEW n \in Nat, NEW S \in SUBSET (0..n), S # {}
    PROVE  Max(S) \in S /\ \A x \in S : x <= Max(S)
<1> DEFINE Domain == 0..n
           Above(x) == {y \in Domain : x < y}
           T == {Above(x) : x \in S}
<1>1. IsFiniteSet(Domain)
  BY FS_Interval
<1>2. T \subseteq FiniteSubsetsOf(Domain) /\ T # {}
  <2>1. FiniteSubsetsOf(Domain) = SUBSET Domain
    BY <1>1, FS_FiniteSubsetsOfFinite
  <2>2. \A x \in S : Above(x) \in SUBSET Domain
    OBVIOUS
  <2>3. T \subseteq SUBSET Domain /\ T # {}
    BY <2>2
  <2>4. QED
    BY <2>1, <2>3
<1>3. PICK least \in T : \A U \in T : ~(<<U, least>> \in StrictSubsetOrdering(Domain))
  <2> HIDE DEF T, Domain
  <2> QED
    BY <1>1, <1>2, FS_StrictSubsetOrderingWellFounded, WFMin
<1>4. PICK top \in S : least = Above(top)
  OBVIOUS
<1>5. ASSUME NEW x \in S, ~(x <= top) PROVE FALSE
  <2>1. Above(x) \subseteq Above(top) /\ x \in Above(top) /\ x \notin Above(x)
    BY <1>5
  <2>2. <<Above(x), Above(top)>> \in StrictSubsetOrdering(Domain)
    BY <2>1 DEF StrictSubsetOrdering
  <2>3. QED
    BY <1>3, <1>4, <2>2
<1>6. QED
  BY <1>5 DEF Max

LEMMA HomeFacts ==
    ASSUME NEW d \in Dags
    PROVE  Home(d) \in Sources /\ MaxRows[Home(d)] \in Nat
<1>1. Deployed[d] \in Config
  BY ContentsAssumption
<1>2. QED
  BY <1>1 DEF Home, Config

LEMMA HomeRows ==
    ASSUME TypeOK, NEW d \in Dags
    PROVE  rows[Home(d)] \in Nat /\ rows[Home(d)] <= MaxRows[Home(d)]
  BY HomeFacts DEF TypeOK

(***************************************************************************)
(* What a steady DAG has captured is of its table, and no higher.          *)
(***************************************************************************)
LEMMA CapturedAtHome ==
    ASSUME LInv, NEW d \in Dags, Steady(d), NEW r \in Capturing(d)
    PROVE  /\ ctx[r].config.source = Home(d)
           /\ \E n \in Nat : /\ n <= rows[Home(d)]
                             /\ ctx[r].to = Captured(Home(d), n)
                             /\ ctx[r].to.v[2] = n /\ To(r)[2] = n
<1> USE DEF LInv, IInv
<1>1. r \in Runs /\ DagOf[r] = d /\ ctx[r] # None /\ ctx[r].to # None
  BY DEF Capturing
<1>2. ctx[r].config.source = Home(d)
  BY <1>1 DEF SteadyConfig, SteadyHome, Table
<1>3. PICK n \in Nat : ctx[r].to = Captured(Home(d), n) /\ n <= rows[Home(d)]
  BY <1>1, <1>2 DEF ToSealed
<1>4. ctx[r].to.v[2] = n /\ To(r)[2] = n
  BY <1>3, HomeFacts, CapturedFacts DEF To
<1>5. QED
  BY <1>2, <1>3, <1>4

LEMMA HorizonIsCaptured ==
    ASSUME LInv, NEW d \in Dags, Steady(d)
    PROVE  /\ CapturedBy(d) \in SUBSET (0..rows[Home(d)])
           /\ \A x \in CapturedBy(d) : HorizonOf(d) \in Nat /\ x <= HorizonOf(d)
           /\ HorizonOf(d) # None => HorizonOf(d) \in CapturedBy(d)
<1>1. rows[Home(d)] \in Nat
  BY HomeRows DEF LInv, IInv
<1>2. \A r \in Capturing(d) : ctx[r].to.v[2] \in 0..rows[Home(d)]
  BY <1>1, CapturedAtHome
<1>3. CapturedBy(d) \in SUBSET (0..rows[Home(d)])
  BY <1>2 DEF CapturedBy
<1>4. CapturedBy(d) # {} => /\ HorizonOf(d) \in CapturedBy(d)
                            /\ \A x \in CapturedBy(d) : x <= HorizonOf(d)
  BY <1>1, <1>3, MaxOfNumbers DEF HorizonOf
<1>5. QED
  BY <1>1, <1>3, <1>4 DEF HorizonOf

LEMMA HomeFrame ==
    ASSUME NEW d \in Dags, UNCHANGED <<rows, saved, LandedOf(d), CapturedBy(d)>>
    PROVE  UNCHANGED Promise(d)!lvars
  BY DEF Promise!lvars, TableOf, WatermarkOf, HorizonOf

LEMMA QuietRefines ==
    ASSUME NEW d \in Dags, UNCHANGED <<rows, saved, ctx, sink>>
    PROVE  UNCHANGED Promise(d)!lvars
  BY HomeFrame DEF LandedOf, CapturedBy, Capturing

(***************************************************************************)
(* The next row of the table appears above all that was captured.          *)
(***************************************************************************)
LEMMA InsertRefines ==
    ASSUME LInv, NEW d \in Dags, Steady(d), NEW s \in Sources, Insert(s)
    PROVE  [Promise(d)!LNext]_(Promise(d)!lvars)
<1> DEFINE new == rows[s] + 1
<1>1. UNCHANGED <<LandedOf(d), WatermarkOf(d), HorizonOf(d)>>
  BY DEF Insert, LandedOf, WatermarkOf, HorizonOf, CapturedBy, Capturing
<1>2. rows \in [Sources -> Nat]
  BY DEF LInv, IInv, TypeOK
<1>3. CASE s # Home(d)
  <2>1. rows'[Home(d)] = rows[Home(d)]
    BY <1>2, <1>3, HomeFacts DEF Insert
  <2>2. TableOf(d)' = TableOf(d)
    BY <2>1 DEF TableOf
  <2>3. QED
    BY <1>1, <2>2 DEF Promise!lvars
<1>4. CASE s = Home(d)
  <2>1. rows[s] \in Nat /\ MaxRows[s] \in Nat /\ new \in 1..MaxRows[s] /\ rows'[s] = new
    BY <1>2, <1>4, HomeFacts DEF Insert
  <2>2. /\ TableOf(d)'[new] = new
        /\ TableOf(d)' = [TableOf(d) EXCEPT ![new] = TableOf(d)'[new]]
    <3>1. \A i \in 1..MaxRows[s] : i # new => (i <= rows'[s] <=> i <= rows[s])
      BY <2>1
    <3>2. TableOf(d)'[new] = new
      BY <1>4, <2>1 DEF TableOf
    <3>3. \A i \in 1..MaxRows[s] : i # new => TableOf(d)'[i] = TableOf(d)[i]
      BY <1>4, <3>1 DEF TableOf
    <3>4. /\ TableOf(d) = [i \in 1..MaxRows[s] |-> TableOf(d)[i]]
          /\ TableOf(d)' = [i \in 1..MaxRows[s] |-> TableOf(d)'[i]]
      BY <1>4 DEF TableOf
    <3>5. QED
      BY <3>2, <3>3, <3>4
  <2>3. ~Promise(d)!AtOrBelow(new, HorizonOf(d))
    <3>1. HorizonOf(d) # None => HorizonOf(d) \in 0..rows[s]
      BY <1>4, HorizonIsCaptured
    <3>2. QED
      BY <2>1, <3>1 DEF Promise!AtOrBelow
  <2>4. Promise(d)!Change(new)
    BY <1>1, <2>1, <2>2, <2>3 DEF Promise!Change
  <2>5. QED
    BY <1>4, <2>1, <2>4 DEF Promise!LNext
<1>5. QED
  BY <1>3, <1>4

LEMMA EnvironmentRefines ==
    ASSUME LInv, NEW d \in Dags, Steady(d), Environment
    PROVE  [Promise(d)!LNext]_(Promise(d)!lvars)
<1>1. ASSUME NEW e \in Dags, NEW content, Edit(e, content) PROVE UNCHANGED Promise(d)!lvars
  BY <1>1, QuietRefines DEF Edit
<1>2. QED
  BY <1>1, InsertRefines DEF Environment

(***************************************************************************)
(* A capture seals the number of rows there are, no lower than any before. *)
(***************************************************************************)
LEMMA CaptureRefines ==
    ASSUME LInv, NEW d \in Dags, Steady(d), NEW r \in Runs, DagOf[r] = d,
           pc[r] = "init.to", ctx' = [ctx EXCEPT ![r].to = Maximum(ctx[r].config.source)],
           UNCHANGED <<rows, saved, sink>>
    PROVE  Promise(d)!Seal \/ UNCHANGED Promise(d)!lvars
<1> USE DEF LInv
<1>1. /\ ctx[r] # None /\ ctx[r] \in Context /\ ctx[r].to = None
      /\ ctx[r].config.source = Home(d) /\ rows[Home(d)] \in Nat
  <2>1. ctx[r] # None /\ ctx[r].to = None
    BY DEF IInv, TypeOK, NotCaptured
  <2>2. QED
    BY <2>1, ContextFields, HomeRows DEF IInv, SteadyConfig, SteadyHome, Table
<1>2. /\ ctx'[r].to = Maximum(Home(d)) /\ ctx'[r] # None
      /\ \A q \in Runs : q # r => ctx'[q] = ctx[q]
  <2>1. ctx' \in [Runs -> Optional(Context)]
    <3>1. Maximum(Home(d)) \in Optional(Tagged)
      BY HomeFacts, MaximumType DEF IInv
    <3>2. QED
      BY <1>1, <3>1 DEF IInv, TypeOK, Context
  <2>2. ctx'[r] = [ctx[r] EXCEPT !.to = Maximum(Home(d))]
    BY <1>1 DEF IInv, TypeOK
  <2>3. ctx'[r].to = Maximum(Home(d)) /\ ctx'[r] \in Context
    <3>1. Maximum(Home(d)) \in Optional(Tagged)
      BY HomeFacts, MaximumType DEF IInv
    <3>2. QED
      BY <1>1, <2>2, <3>1 DEF Context
  <2>4. QED
    BY <2>3, NoneAssumption DEF IInv, TypeOK
<1>3. r \notin Capturing(d)
  BY <1>1 DEF Capturing
<1>4. UNCHANGED <<TableOf(d), LandedOf(d), WatermarkOf(d)>>
  BY DEF TableOf, LandedOf, WatermarkOf
<1>5. CASE Maximum(Home(d)) = None
  <2>1. Capturing(d)' = Capturing(d)
    BY <1>2, <1>3, <1>5 DEF Capturing
  <2>2. CapturedBy(d)' = CapturedBy(d)
    BY <1>2, <1>3, <2>1 DEF CapturedBy, Capturing
  <2>3. QED
    BY <1>4, <2>2 DEF Promise!lvars, HorizonOf
<1>6. CASE Maximum(Home(d)) # None
  <2> DEFINE top == rows[Home(d)]
  <2>1. ctx'[r].to.v[2] = top
    BY <1>1, <1>2, <1>6, HomeFacts, CapturedFacts DEF Maximum, Captured
  <2>2. Capturing(d)' = Capturing(d) \cup {r}
    BY <1>2, <1>3, <1>6 DEF Capturing
  <2>3. CapturedBy(d)' = CapturedBy(d) \cup {top}
    BY <1>2, <1>3, <2>1, <2>2 DEF CapturedBy, Capturing
  <2>4. CapturedBy(d) \in SUBSET (0..top) /\ (HorizonOf(d) # None => HorizonOf(d) \in 0..top)
    BY HorizonIsCaptured
  <2>5. HorizonOf(d)' = top
    <3>1. CapturedBy(d)' \in SUBSET (0..top) /\ CapturedBy(d)' # {}
      BY <1>1, <2>3, <2>4
    <3>2. HorizonOf(d)' \in CapturedBy(d)' /\ top <= HorizonOf(d)'
      BY <1>1, <2>3, <3>1, MaxOfNumbers DEF HorizonOf
    <3>3. QED
      BY <1>1, <3>1, <3>2
  <2>6. CASE HorizonOf(d) = top
    BY <1>4, <2>5, <2>6 DEF Promise!lvars
  <2>7. CASE HorizonOf(d) # top
    <3>1. ~Promise(d)!AtOrBelow(top, HorizonOf(d))
      BY <1>1, <2>4, <2>7 DEF Promise!AtOrBelow
    <3>2. QED
      BY <1>1, <1>4, <2>5, <3>1 DEF Promise!Seal
  <2>8. QED
    BY <2>6, <2>7
<1>7. QED
  BY <1>5, <1>6

(***************************************************************************)
(* Until it captures, what a run does to its context concerns nobody.      *)
(***************************************************************************)
LEMMA ContextRefines ==
    ASSUME NEW d \in Dags, NEW r \in Runs, UNCHANGED <<rows, saved, sink>>,
           \A q \in Runs : q # r => ctx'[q] = ctx[q],
           \/ DagOf[r] # d
           \/ r \notin Capturing(d) /\ r \notin Capturing(d)'
    PROVE  UNCHANGED Promise(d)!lvars
<1>1. Capturing(d)' = Capturing(d)
  BY DEF Capturing
<1>2. \A q \in Capturing(d) : ctx'[q] = ctx[q]
  BY DEF Capturing
<1>3. UNCHANGED <<CapturedBy(d), LandedOf(d)>>
  BY <1>1, <1>2 DEF CapturedBy, LandedOf
<1>4. QED
  BY <1>3, HomeFrame

LEMMA InitOperatorRefines ==
    ASSUME LInv, NEW d \in Dags, Steady(d), NEW r \in Runs, InitOperator(r)
    PROVE  Promise(d)!Seal \/ UNCHANGED Promise(d)!lvars
<1> USE DEF LInv
<1>1. /\ UNCHANGED <<rows, saved, sink>>
      /\ \A q \in Runs : q # r => ctx'[q] = ctx[q]
  BY RunStepFrame DEF RunStep, IInv, InitOperator, LoadConfig, FetchFrom, FetchTo, InitFails
<1>2. CASE DagOf[r] # d
  BY <1>1, <1>2, ContextRefines
<1>3. CASE DagOf[r] = d /\ ~FetchTo(r)
  <2>1. r \notin Capturing(d)
    BY <1>3 DEF InitOperator, LoadConfig, FetchFrom, InitFails, NotCaptured, NothingYet, Capturing
  <2>2. r \notin Capturing(d)'
    <3>1. NotCaptured' /\ NothingYet'
      BY CapturedOnce DEF Next
    <3>2. pc'[r] \in {"init", "init.from", "init.to"} \/ ctx'[r] = None
      BY <1>3 DEF InitOperator, LoadConfig, FetchFrom, InitFails, IInv, TypeOK
    <3>3. QED
      BY <3>1, <3>2 DEF NotCaptured, NothingYet, Capturing
  <2>3. QED
    BY <1>1, <2>1, <2>2, ContextRefines
<1>4. CASE DagOf[r] = d /\ FetchTo(r)
  <2>1. CASE UNCHANGED ctx
    BY <1>1, <2>1, QuietRefines
  <2>2. CASE ctx' = [ctx EXCEPT ![r].to = Maximum(ctx[r].config.source)]
    BY <1>1, <1>4, <2>2, CaptureRefines DEF FetchTo
  <2>3. QED
    BY <1>4, <2>1, <2>2 DEF FetchTo
<1>5. QED
  BY <1>2, <1>3, <1>4

(***************************************************************************)
(* A write lands rows that the table has.                                  *)
(***************************************************************************)
LEMMA AppendRefines ==
    ASSUME LInv, NEW d \in Dags, Steady(d), NEW r \in Runs, ctx[r] # None,
           NEW part \in SUBSET Frame(r), Append(r, part, ctx[r].config.source),
           UNCHANGED <<rows, saved, ctx>>
    PROVE  Promise(d)!Land
<1> USE DEF LInv
<1>1. sink \subseteq sink'
  BY AppendGrows
<1>2. LandedOf(d) \subseteq LandedOf(d)'
  BY <1>1 DEF LandedOf
<1>3. ASSUME NEW rec \in sink', DagOf[rec.run] = d, rec.row[1] = Home(d), rec \notin sink
      PROVE  rec.row \in RowsOf(Home(d))
  <2>1. rec.run = r /\ rec.row \in part
    BY <1>3 DEF Append
  <2>2. rec.row \in Selected(r)
    BY <2>1, FrameIsSelected DEF IInv
  <2>3. ctx[r].config.source = Home(d)
    BY <1>3, <2>1 DEF IInv, SteadyConfig, SteadyHome, Table
  <2>4. QED
    BY <2>2, <2>3 DEF Selected
<1>4. ASSUME NEW row \in RowsOf(Home(d)) PROVE <<row[2], row[2]>> \in Promise(d)!Current
  <2>1. row[2] \in 1..MaxRows[Home(d)] /\ row[2] <= rows[Home(d)] /\ row[2] # None
    BY HomeRows, HomeFacts, NoneAssumption DEF RowsOf, IInv
  <2>2. TableOf(d)[row[2]] = row[2]
    BY <2>1 DEF TableOf
  <2>3. QED
    BY <2>1, <2>2 DEF Promise!Current, Promise!Version
<1>5. /\ LandedOf(d) \subseteq LandedOf(d)'
      /\ LandedOf(d)' \subseteq LandedOf(d) \cup Promise(d)!Current
  BY <1>2, <1>3, <1>4 DEF LandedOf
<1>6. UNCHANGED <<TableOf(d), WatermarkOf(d), HorizonOf(d)>>
  BY DEF TableOf, WatermarkOf, HorizonOf, CapturedBy, Capturing
<1>7. QED
  BY <1>5, <1>6 DEF Promise!Land

LEMMA SparkRunRefines ==
    ASSUME LInv, NEW d \in Dags, Steady(d), NEW r \in Runs, SparkRunOperator(r)
    PROVE  Promise(d)!Land \/ UNCHANGED Promise(d)!lvars
<1>1. CASE UNCHANGED sink
  BY <1>1, QuietRefines DEF SparkRunOperator, QueryRefused, ReadSource, CountRecords, LoseCache,
                            WriteSink, SparkFails
<1>2. CASE sink' # sink
  <2>1. /\ pc[r] = "spark.write" /\ UNCHANGED <<rows, saved, ctx>>
        /\ \E part \in SUBSET Frame(r) : Append(r, part, ctx[r].config.source)
    BY <1>2 DEF SparkRunOperator, QueryRefused, ReadSource, CountRecords, LoseCache, WriteSink,
                SparkFails
  <2>2. ctx[r] # None
    BY <2>1 DEF LInv, IInv, TypeOK
  <2>3. QED
    BY <2>1, <2>2, AppendRefines
<1>3. QED
  BY <1>1, <1>2

(***************************************************************************)
(* The checkpoint that is saved was captured, and its rows are landed.     *)
(***************************************************************************)
LEMMA SaveRefines ==
    ASSUME LInv, NEW d \in Dags, Steady(d), NEW r \in Runs, MetricPushOperator(r)
    PROVE  Promise(d)!Advance \/ UNCHANGED Promise(d)!lvars
<1> USE DEF LInv
<1>1. UNCHANGED <<rows, ctx, sink>>
  BY DEF MetricPushOperator, Publish, SaveCheckpoint, MetricFails
<1>2. UNCHANGED <<TableOf(d), LandedOf(d), CapturedBy(d)>>
  BY <1>1 DEF TableOf, LandedOf, CapturedBy, Capturing
<1>3. UNCHANGED HorizonOf(d)
  BY <1>2 DEF HorizonOf
<1>4. CASE saved'[d] = saved[d]
  BY <1>2, <1>3, <1>4 DEF Promise!lvars, WatermarkOf
<1>5. CASE saved'[d] # saved[d]
  <2>1. /\ pc[r] = "metric.save" /\ DagOf[r] = d /\ ctx[r].to # None
        /\ saved'[d] = SavedText(ctx[r].to)
    BY <1>5 DEF MetricPushOperator, Publish, SaveCheckpoint, Upserted, MetricFails, IInv, TypeOK
  <2>2. r \in Capturing(d)
    BY <2>1 DEF Capturing, IInv, TypeOK
  <2>3. PICK n \in Nat : /\ n <= rows[Home(d)] /\ ctx[r].to = Captured(Home(d), n)
                         /\ ctx[r].to.v[2] = n /\ To(r)[2] = n
    BY <2>2, CapturedAtHome
  <2>4. saved'[d] \in Raw /\ saved'[d][2] = n
    BY <2>1, <2>3, HomeFacts, CapturedFacts
  <2>5. WatermarkOf(d)' = n
    BY <2>4, NoneAssumption DEF WatermarkOf
  <2>6. Promise(d)!AtOrBelow(n, HorizonOf(d))
    <3>1. n \in CapturedBy(d)
      BY <2>2, <2>3 DEF CapturedBy
    <3>2. QED
      BY <3>1, HorizonIsCaptured, NoneAssumption DEF Promise!AtOrBelow
  <2>7. CoveredUpTo(d, n) /\ Table(d) = Home(d)
    BY <2>1, <2>3 DEF IInv, WindowCovered, SteadyHome, Table
  <2>8. ASSUME NEW i \in 1..MaxRows[Home(d)], TableOf(d)[i] # None, TableOf(d)[i] <= n
        PROVE  <<i, TableOf(d)[i]>> \in LandedOf(d)
    <3>1. TableOf(d)[i] = i
      BY <2>8 DEF TableOf
    <3>2. i \in 1..n
      BY <2>8, <3>1, HomeFacts
    <3>3. <<Home(d), i>> \in LandedByDag(d)
      BY <2>7, <3>2 DEF CoveredUpTo
    <3>4. PICK rec \in sink : DagOf[rec.run] = d /\ rec.row = <<Home(d), i>>
      BY <3>3 DEF LandedByDag, LandedBy
    <3>5. QED
      BY <3>1, <3>4 DEF LandedOf
  <2>9. Promise(d)!Complete(n)
    BY <2>8 DEF Promise!Complete, Promise!Version
  <2>10. QED
    BY <1>2, <1>3, <2>5, <2>6, <2>9 DEF Promise!Advance
<1>6. QED
  BY <1>4, <1>5

LEMMA DagStep ==
    ASSUME LInv, [Next]_vars, NEW d \in Dags, Steady(d)'
    PROVE  [Promise(d)!LNext]_(Promise(d)!lvars)
<1>1. Steady(d)
  BY StepFacts DEF LInv, IInv
<1>2. CASE Environment
  BY <1>1, <1>2, EnvironmentRefines
<1>3. ASSUME NEW r \in Runs, Trigger(r) \/ ParseFails(r) PROVE UNCHANGED Promise(d)!lvars
  BY <1>3, QuietRefines DEF Trigger, ParseFails
<1>4. ASSUME NEW r \in Runs, InitOperator(r) \/ SparkRunOperator(r) \/ MetricPushOperator(r)
      PROVE  [Promise(d)!LNext]_(Promise(d)!lvars)
  BY <1>1, <1>4, InitOperatorRefines, SparkRunRefines, SaveRefines DEF Promise!LNext
<1>5. CASE UNCHANGED vars
  BY <1>5, QuietRefines DEF vars
<1>6. QED
  BY <1>2, <1>3, <1>4, <1>5 DEF Next

LEMMA DagInit ==
    ASSUME Init, NEW d \in Dags
    PROVE  Promise(d)!LInit
<1>1. LandedOf(d) = {} /\ CapturedBy(d) = {} /\ rows[Home(d)] = 0 /\ saved[d] = None
  BY HomeFacts DEF Init, LandedOf, CapturedBy, Capturing
<1>2. TableOf(d) = [i \in 1..MaxRows[Home(d)] |-> None]
  BY <1>1, HomeFacts DEF TableOf
<1>3. QED
  BY <1>1, <1>2 DEF Promise!LInit, WatermarkOf, HorizonOf

(***************************************************************************)
(* As long as a DAG has kept its table and a file that parses, it keeps    *)
(* the promise of Landing by itself, whatever the other DAGs do to their   *)
(* files, to the table they may share and to the paths below the sink.     *)
(***************************************************************************)
THEOREM EveryDagImplementsLanding == Spec => DagsImplementLanding
<1>1. Init => \A d \in Dags : Promise(d)!LInit
  BY DagInit
<1>2. LInv /\ [Next]_vars =>
        [\/ UNCHANGED <<rows, saved, ctx, sink>>
         \/ \A d \in Dags : Steady(d)' =>
               UNCHANGED Promise(d)!lvars \/ Promise(d)!LNext]_vars
  BY DagStep
<1>3. QED
  BY <1>1, <1>2, LandingInvariance, PTL DEF Spec, DagsImplementLanding

=============================================================================
