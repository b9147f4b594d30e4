---------------------- MODULE IngestionPipeline_proofs ----------------------
(***************************************************************************)
(* Theorems about IngestionPipeline, for every value of its constants.     *)
(***************************************************************************)
EXTENDS IngestionProperties, TLAPS

(***************************************************************************)
(* The parsed checkpoint is a value, and never more than the MAX it was    *)
(* parsed from: int() truncates values that are not negative downwards.    *)
(***************************************************************************)
LEMMA ParseKeepsLower ==
    ASSUME NEW v \in Nat
    PROVE  ParseCheckpoint(Grain, v) \in Nat /\ ParseCheckpoint(Grain, v) <= v
<1>1. v % Grain \in Nat
  BY GrainAssumption
<1>2. v % Grain <= v
  BY GrainAssumption
<1>3. QED
  BY <1>1, <1>2 DEF ParseCheckpoint

-----------------------------------------------------------------------------
(***************************************************************************)
(* Type correctness.                                                       *)
(***************************************************************************)
USE DEF Value, Steps, InitSteps, SparkSteps, MetricSteps, Ended

LEMMA FailTypes ==
    ASSUME TypeOK, NEW r \in Runs, NEW start \in Steps, Fail(r, start)
    PROVE  pc' \in [Runs -> Steps] /\ tries' \in [Runs -> Nat]
  BY DEF TypeOK, Fail

LEMMA FaultTypes ==
    ASSUME TypeOK, Fault
    PROVE  faults' \in Nat
  BY MaxFaultsAssumption DEF TypeOK, Fault

LEMMA AppendTypes ==
    ASSUME TypeOK, NEW r \in Runs, NEW vs \in SUBSET Versions, Append(r, vs)
    PROVE  sink' \subseteq SinkRecord
  BY DEF TypeOK, Append, SinkRecord

LEMMA InitTypeOK == Init => TypeOK
  BY DEF Init, TypeOK

LEMMA SourceTypeOK == TypeOK /\ Source => TypeOK'
<1> SUFFICES ASSUME TypeOK, NEW row \in Rows,
                    (\E ts \in Timestamps : Commit(row, ts)) \/ Delete(row)
             PROVE  TypeOK'
  BY DEF Source
<1>1. ASSUME NEW ts \in Timestamps, Commit(row, ts) PROVE TypeOK'
  BY <1>1, TimestampsAssumption DEF Commit, TypeOK, Versions
<1>2. ASSUME Delete(row) PROVE TypeOK'
  BY <1>2 DEF Delete, TypeOK
<1>3. QED
  BY <1>1, <1>2

LEMMA CaptureTypes ==
    ASSUME TypeOK, NEW r \in Runs, NEW bound \in Value, PushWindow(r, bound),
           horizon' \in Value, faults' \in Nat
    PROVE  TypeOK'
  BY DEF PushWindow, Succeed, Present, TypeOK

LEMMA InitOperatorTypeOK ==
    ASSUME TypeOK, NEW r \in Runs, InitOperator(r)
    PROVE  TypeOK'
<1>1. CASE FetchFrom(r)
  BY <1>1 DEF FetchFrom, TypeOK
<1>2. CASE FetchTo(r)
  <2>1. ASSUME NEW row \in Rows, IsMax(row), Capture(r, table[row]), UNCHANGED faults
        PROVE  TypeOK'
    <3>1. table[row] \in Nat
      BY <2>1 DEF IsMax, Present, TypeOK
    <3>2. ParseCheckpoint(Grain, table[row]) \in Nat
      BY <3>1, ParseKeepsLower
    <3>3. PushWindow(r, ParseCheckpoint(Grain, table[row])) /\ horizon' \in Value
      BY <2>1, <3>1, <3>2 DEF Capture, TypeOK
    <3>4. QED
      BY <2>1, <3>2, <3>3, CaptureTypes DEF TypeOK
  <2>2. ASSUME PushWindow(r, None), UNCHANGED horizon, UNCHANGED faults
        PROVE  TypeOK'
    BY <2>2, CaptureTypes DEF TypeOK
  <2>3. QED
    BY <1>2, <2>1, <2>2 DEF FetchTo
<1>3. CASE FetchToFails(r)
  BY <1>3, FaultTypes, CaptureTypes DEF FetchToFails, TypeOK
<1>4. CASE InitFails(r)
  BY <1>4, FailTypes, FaultTypes DEF InitFails, TypeOK
<1>5. QED
  BY <1>1, <1>2, <1>3, <1>4 DEF InitOperator

LEMMA SparkRunTypeOK ==
    ASSUME TypeOK, NEW r \in Runs, SparkRunOperator(r)
    PROVE  TypeOK'
<1>1. CASE ReadSource(r)
  BY <1>1 DEF ReadSource, TypeOK, Versions, Version, Present
<1>2. CASE WriteSink(r)
  <2>1. sink' \subseteq SinkRecord
    BY <1>2, AppendTypes DEF WriteSink, TypeOK
  <2>2. QED
    BY <1>2, <2>1 DEF WriteSink, Succeed, TypeOK
<1>3. CASE SparkFails(r)
  <2>1. sink' \subseteq SinkRecord
    BY <1>3, AppendTypes DEF SparkFails, TypeOK
  <2>2. metrics' \subseteq Event
    BY <1>3 DEF SparkFails, ReportFailure, TypeOK, Event
  <2>3. pc' \in [Runs -> Steps] /\ tries' \in [Runs -> Nat] /\ faults' \in Nat
    BY <1>3, FailTypes, FaultTypes DEF SparkFails
  <2>4. QED
    BY <1>3, <2>1, <2>2, <2>3 DEF SparkFails, TypeOK
<1>4. QED
  BY <1>1, <1>2, <1>3 DEF SparkRunOperator

LEMMA MetricPushTypeOK ==
    ASSUME TypeOK, NEW r \in Runs, MetricPushOperator(r)
    PROVE  TypeOK'
<1>1. Delivered(r) => metrics' \subseteq Event
  BY DEF Delivered, TypeOK, Event
<1>2. Upserted(r) => checkpoint' \in Value
  BY DEF Upserted, TypeOK
<1>3. CASE Publish(r)
  BY <1>1, <1>3 DEF Publish, TypeOK
<1>4. CASE PublishLost(r)
  BY <1>4, FaultTypes DEF PublishLost, TypeOK
<1>5. CASE PublishFails(r)
  BY <1>1, <1>5, FailTypes, FaultTypes DEF PublishFails, TypeOK
<1>6. CASE SaveCheckpoint(r)
  BY <1>2, <1>6 DEF SaveCheckpoint, Succeed, TypeOK
<1>7. CASE SaveFails(r)
  BY <1>2, <1>7, FailTypes, FaultTypes DEF SaveFails, TypeOK
<1>8. QED
  BY <1>3, <1>4, <1>5, <1>6, <1>7 DEF MetricPushOperator

LEMMA NextTypeOK == TypeOK /\ [Next]_vars => TypeOK'
<1> SUFFICES ASSUME TypeOK, [Next]_vars PROVE TypeOK'
  OBVIOUS
<1>1. CASE Source
  BY <1>1, SourceTypeOK
<1>2. ASSUME NEW r \in Runs, Trigger(r) PROVE TypeOK'
  BY <1>2 DEF Trigger, TypeOK
<1>3. ASSUME NEW r \in Runs, Execute(r) PROVE TypeOK'
  BY <1>3, InitOperatorTypeOK, SparkRunTypeOK, MetricPushTypeOK DEF Execute
<1>4. CASE UNCHANGED vars
  BY <1>4 DEF vars, sysvars, TypeOK
<1>5. QED
  BY <1>1, <1>2, <1>3, <1>4 DEF Next

(***************************************************************************)
(* The variables keep their types, whatever the code and the environment   *)
(* do.                                                                     *)
(***************************************************************************)
THEOREM TypeCorrect == Spec => []TypeOK
  BY InitTypeOK, NextTypeOK, PTL DEF Spec

-----------------------------------------------------------------------------
(***************************************************************************)
(* No gap.  NoGap is not inductive: that the checkpoint stays covered when *)
(* it is saved depends on what the run has landed, hence on what its batch *)
(* held, on the window it was read with, and on the lower bound of that    *)
(* window having been covered when it was fetched.  A bound is safe when   *)
(* it is covered and sealed; sealed, because a version committed below it  *)
(* later is late, and covered bounds stay covered.                         *)
(***************************************************************************)
Safe(c) == AtOrBelow(c, horizon) /\ Covered(c)

CheckpointSafe == checkpoint # None => Safe(checkpoint)
LowerBoundsSafe == \A r \in Runs : from[r] # None => Safe(from[r])
UpperBoundsSealed == \A r \in Runs : to[r] # None => AtOrBelow(to[r], horizon)

(***************************************************************************)
(* Between read and write, what the window promises is landed or in hand.  *)
(***************************************************************************)
BatchComplete ==
    \A r \in Runs : pc[r] = "spark.write" /\ to[r] # None =>
        \A row \in Rows : OnTime(row) /\ table[row] <= to[r] =>
            Version(row) \in LandedVersions \cup batch[r]

WindowLanded == \A r \in Runs : Written(r) /\ to[r] # None => Covered(to[r])

IInv ==
    /\ TypeOK
    /\ CheckpointSafe
    /\ LowerBoundsSafe
    /\ UpperBoundsSealed
    /\ BatchComplete
    /\ WindowLanded


LEMMA InitIInv == Init => IInv
<1> SUFFICES ASSUME Init PROVE IInv
  OBVIOUS
<1>1. TypeOK
  BY InitTypeOK
<1>2. QED
  BY <1>1 DEF Init, IInv, CheckpointSafe, LowerBoundsSafe, UpperBoundsSealed,
              BatchComplete, WindowLanded, Written

(***************************************************************************)
(* The source can only add on-time versions above everything sealed.       *)
(***************************************************************************)
LEMMA SourceAddsAbove ==
    ASSUME TypeOK, Source, NEW x \in Rows, OnTime(x)'
    PROVE  \/ OnTime(x) /\ table'[x] = table[x]
           \/ \A c \in Nat : AtOrBelow(c, horizon) => ~(table'[x] <= c)
<1>1. ASSUME NEW row \in Rows, NEW ts \in Timestamps, Commit(row, ts)
      PROVE  \/ OnTime(x) /\ table'[x] = table[x]
             \/ \A c \in Nat : AtOrBelow(c, horizon) => ~(table'[x] <= c)
  <2>1. CASE x = row
    <3>1. table'[x] = ts /\ ts \in Nat
      BY <1>1, <2>1, TimestampsAssumption DEF Commit, TypeOK
    <3>2. ~AtOrBelow(ts, horizon)
      BY <1>1, <2>1, <3>1 DEF Commit, OnTime, Version
    <3>3. QED
      BY <3>1, <3>2 DEF AtOrBelow, TypeOK
  <2>2. CASE x # row
    BY <1>1, <2>2 DEF Commit, OnTime, Present, Version, TypeOK
  <2>3. QED
    BY <2>1, <2>2
<1>2. ASSUME NEW row \in Rows, Delete(row)
      PROVE  OnTime(x) /\ table'[x] = table[x]
  BY <1>2 DEF Delete, OnTime, Present, Version, TypeOK
<1>3. QED
  BY <1>1, <1>2 DEF Source

LEMMA SourceFrame ==
    ASSUME Source
    PROVE  UNCHANGED <<checkpoint, pc, from, to, batch, sink, horizon>>
  BY DEF Source, Commit, Delete

LEMMA SourceIInv ==
    ASSUME IInv, Source
    PROVE  IInv'
<1> USE DEF IInv
<1>1. TypeOK'
  BY SourceTypeOK
<1>2. LandedVersions' = LandedVersions
  BY SourceFrame DEF LandedVersions
<1>3. ASSUME NEW c \in Nat, AtOrBelow(c, horizon), Covered(c)
      PROVE  Covered(c)'
  BY <1>2, <1>3, SourceAddsAbove DEF Covered, Version
<1>4. ASSUME NEW c \in Nat, Safe(c) PROVE Safe(c)'
  BY <1>3, <1>4, SourceFrame DEF Safe, AtOrBelow
<1>5. CheckpointSafe'
  BY <1>4, SourceFrame DEF CheckpointSafe, TypeOK
<1>6. LowerBoundsSafe'
  BY <1>4, SourceFrame DEF LowerBoundsSafe, TypeOK
<1>7. UpperBoundsSealed'
  BY SourceFrame DEF UpperBoundsSealed, AtOrBelow
<1>8. BatchComplete'
  <2> SUFFICES ASSUME NEW r \in Runs, pc[r] = "spark.write", to[r] # None,
                      NEW row \in Rows, OnTime(row)', table'[row] <= to[r]
               PROVE  Version(row)' \in LandedVersions \cup batch[r]
    BY <1>2, SourceFrame DEF BatchComplete
  <2>1. to[r] \in Nat /\ AtOrBelow(to[r], horizon)
    BY DEF UpperBoundsSealed, TypeOK
  <2>2. OnTime(row) /\ table'[row] = table[row]
    BY <2>1, SourceAddsAbove
  <2>3. QED
    BY <2>2 DEF BatchComplete, Version
<1>9. WindowLanded'
  <2> SUFFICES ASSUME NEW r \in Runs, Written(r), to[r] # None
               PROVE  Covered(to[r])'
    BY SourceFrame DEF WindowLanded, Written
  <2>1. to[r] \in Nat /\ AtOrBelow(to[r], horizon) /\ Covered(to[r])
    BY DEF UpperBoundsSealed, WindowLanded, TypeOK
  <2>2. Covered(to[r])' <=> \A row \in Rows : OnTime(row)' /\ table'[row] <= to[r]
                                => Version(row)' \in LandedVersions'
    BY SourceFrame DEF Covered
  <2>3. QED
    BY <1>2, <2>1, <2>2, SourceAddsAbove DEF Covered, Version
<1>10. QED
  BY <1>1, <1>5, <1>6, <1>7, <1>8, <1>9

-----------------------------------------------------------------------------
(***************************************************************************)
(* What a step of run r leaves alone, and what it can do.                  *)
(***************************************************************************)
LEMMA CaptureSeals ==
    ASSUME TypeOK, NEW r \in Runs, NEW row \in Rows, IsMax(row), Capture(r, table[row])
    PROVE  /\ to'[r] \in Nat
           /\ AtOrBelow(to'[r], horizon')
           /\ \A c \in Nat : AtOrBelow(c, horizon) => AtOrBelow(c, horizon')
<1>1. table[row] \in Nat
  BY DEF IsMax, Present, TypeOK
<1>2. PICK v \in Nat : v = ParseCheckpoint(Grain, table[row]) /\ v <= table[row]
  BY <1>1, ParseKeepsLower
<1>3. horizon' = IF AtOrBelow(v, horizon) THEN horizon ELSE v
  BY <1>2 DEF Capture
<1>4. to'[r] = v
  BY <1>2 DEF Capture, PushWindow, TypeOK
<1>5. QED
  BY <1>2, <1>3, <1>4, NoneAssumption DEF AtOrBelow, TypeOK

LEMMA RunFrame ==
    ASSUME TypeOK, NEW r \in Runs, Trigger(r) \/ Execute(r)
    PROVE  /\ UNCHANGED <<table, late>>
           /\ sink \subseteq sink'
           /\ \A c \in Nat : AtOrBelow(c, horizon) => AtOrBelow(c, horizon')
           /\ \A s \in Runs \ {r} : /\ pc'[s] = pc[s] /\ from'[s] = from[s]
                                    /\ to'[s] = to[s] /\ batch'[s] = batch[s]
<1> USE DEF Fail, Succeed, Append, TypeOK
<1>1. CASE Trigger(r)
  BY <1>1 DEF Trigger
<1>2. CASE FetchFrom(r)
  BY <1>2 DEF FetchFrom
<1>3. CASE FetchTo(r)
  <2>1. ASSUME NEW row \in Rows, IsMax(row), Capture(r, table[row])
        PROVE  /\ UNCHANGED <<table, late, sink, from, batch>>
               /\ \A c \in Nat : AtOrBelow(c, horizon) => AtOrBelow(c, horizon')
               /\ \A s \in Runs \ {r} : pc'[s] = pc[s] /\ to'[s] = to[s]
    BY <2>1, CaptureSeals DEF Capture, PushWindow
  <2>2. CASE PushWindow(r, None) /\ UNCHANGED horizon
    BY <2>2 DEF PushWindow
  <2>3. QED
    BY <1>3, <2>1, <2>2 DEF FetchTo
<1>4. CASE FetchToFails(r)
  BY <1>4 DEF FetchToFails, PushWindow
<1>5. CASE InitFails(r)
  BY <1>5 DEF InitFails
<1>6. CASE ReadSource(r)
  BY <1>6 DEF ReadSource
<1>7. CASE WriteSink(r)
  BY <1>7 DEF WriteSink
<1>8. CASE SparkFails(r)
  BY <1>8 DEF SparkFails
<1>9. CASE Publish(r)
  BY <1>9 DEF Publish
<1>10. CASE PublishLost(r)
  BY <1>10 DEF PublishLost
<1>11. CASE PublishFails(r)
  BY <1>11 DEF PublishFails
<1>12. CASE SaveCheckpoint(r)
  BY <1>12 DEF SaveCheckpoint
<1>13. CASE SaveFails(r)
  BY <1>13 DEF SaveFails
<1>14. QED
  BY <1>1, <1>2, <1>3, <1>4, <1>5, <1>6, <1>7, <1>8, <1>9, <1>10, <1>11,
     <1>12, <1>13 DEF Execute, InitOperator, SparkRunOperator, MetricPushOperator

LEMMA RunEffect ==
    ASSUME TypeOK, NEW r \in Runs, Trigger(r) \/ Execute(r)
    PROVE  /\ checkpoint' = checkpoint \/ (Written(r) /\ to[r] # None /\ checkpoint' = to[r])
           /\ from'[r] \in {from[r], None, checkpoint}
           /\ to'[r] \in {to[r], None} \/ AtOrBelow(to'[r], horizon')
           /\ pc'[r] = "spark.write" => ReadSource(r)
           /\ Written(r)' => WriteSink(r) \/ (Written(r) /\ to'[r] = to[r])
<1> USE DEF Fail, Succeed, TypeOK, Written
<1>1. CASE Trigger(r)
  BY <1>1 DEF Trigger
<1>2. CASE FetchFrom(r)
  BY <1>2 DEF FetchFrom
<1>3. CASE FetchTo(r)
  <2>1. ASSUME NEW row \in Rows, IsMax(row), Capture(r, table[row])
        PROVE  /\ UNCHANGED <<checkpoint, from>>
               /\ AtOrBelow(to'[r], horizon')
               /\ pc'[r] = "spark"
    BY <2>1, CaptureSeals DEF Capture, PushWindow
  <2>2. ASSUME PushWindow(r, None)
        PROVE  UNCHANGED <<checkpoint, from>> /\ to'[r] = None /\ pc'[r] = "spark"
    BY <2>2 DEF PushWindow
  <2>3. QED
    BY <1>3, <2>1, <2>2 DEF FetchTo
<1>4. CASE FetchToFails(r)
  BY <1>4 DEF FetchToFails, PushWindow
<1>5. CASE InitFails(r)
  BY <1>5 DEF InitFails
<1>6. CASE ReadSource(r)
  BY <1>6 DEF ReadSource
<1>7. CASE WriteSink(r)
  BY <1>7 DEF WriteSink
<1>8. CASE SparkFails(r)
  BY <1>8 DEF SparkFails
<1>9. CASE Publish(r)
  BY <1>9 DEF Publish
<1>10. CASE PublishLost(r)
  BY <1>10 DEF PublishLost
<1>11. CASE PublishFails(r)
  BY <1>11 DEF PublishFails
<1>12. CASE SaveCheckpoint(r)
  BY <1>12 DEF SaveCheckpoint, Upserted
<1>13. CASE SaveFails(r)
  BY <1>13 DEF SaveFails, Upserted
<1>14. QED
  BY <1>1, <1>2, <1>3, <1>4, <1>5, <1>6, <1>7, <1>8, <1>9, <1>10, <1>11,
     <1>12, <1>13 DEF Execute, InitOperator, SparkRunOperator, MetricPushOperator


(***************************************************************************)
(* What a read leaves out is at or below the lower bound of its window, or *)
(* above the upper bound.                                                  *)
(***************************************************************************)
LEMMA UnselectedIsOutside ==
    ASSUME NEW f \in Value, NEW t \in Nat, NEW ts \in Nat, Kind # "mongodb",
           ~Selects(Kind, f, t, ts), ts <= t
    PROVE  f # None /\ ts <= f
  BY NoneAssumption, KindAssumption
     DEF Selects, SqlSelects, NoSqlSelects, Truthy, TableKinds

LEMMA RunIInv ==
    ASSUME Kind # "mongodb",
           IInv, NEW r \in Runs, Trigger(r) \/ Execute(r)
    PROVE  IInv'
<1> USE DEF IInv
<1>1. TypeOK'
  <2>1. CASE Trigger(r)
    BY <2>1 DEF Trigger, TypeOK
  <2>2. CASE Execute(r)
    BY <2>2, InitOperatorTypeOK, SparkRunTypeOK, MetricPushTypeOK DEF Execute
  <2>3. QED
    BY <2>1, <2>2
<1>2. LandedVersions \subseteq LandedVersions'
  BY RunFrame DEF LandedVersions
<1>3. \A row \in Rows : (OnTime(row)' <=> OnTime(row)) /\ Version(row)' = Version(row)
  BY RunFrame DEF OnTime, Present, Version
<1>4. ASSUME NEW c \in Nat, Covered(c) PROVE Covered(c)'
  BY <1>2, <1>3, <1>4, RunFrame DEF Covered
<1>5. ASSUME NEW c \in Nat, Safe(c) PROVE Safe(c)'
  BY <1>4, <1>5, RunFrame DEF Safe
<1>6. ASSUME NEW s \in Runs, Written(s), to[s] # None PROVE Safe(to[s])
  BY <1>6 DEF Safe, UpperBoundsSealed, WindowLanded
<1>7. CheckpointSafe'
  <2>1. CASE checkpoint' = checkpoint
    BY <1>5, <2>1 DEF CheckpointSafe, TypeOK
  <2>2. CASE Written(r) /\ to[r] # None /\ checkpoint' = to[r]
    BY <1>5, <1>6, <2>2 DEF CheckpointSafe, TypeOK
  <2>3. QED
    BY <2>1, <2>2, RunEffect
<1>8. LowerBoundsSafe'
  <2> SUFFICES ASSUME NEW s \in Runs, from'[s] # None PROVE Safe(from[s])'
    BY DEF LowerBoundsSafe
  <2>1. from'[s] = from[s] \/ from'[s] = checkpoint
    BY RunFrame, RunEffect
  <2>2. from'[s] \in Nat /\ Safe(from'[s])
    BY <2>1 DEF LowerBoundsSafe, CheckpointSafe, TypeOK
  <2>3. PICK c \in Nat : c = from'[s] /\ Safe(c)
    BY <2>2
  <2>4. Safe(c)'
    BY <1>5, <2>3
  <2>5. QED
    BY <2>3, <2>4 DEF Safe, Covered, AtOrBelow
<1>9. UpperBoundsSealed'
  <2> SUFFICES ASSUME NEW s \in Runs, to'[s] # None PROVE AtOrBelow(to'[s], horizon')
    BY DEF UpperBoundsSealed, AtOrBelow
  <2>1. CASE s = r /\ AtOrBelow(to'[r], horizon')
    BY <2>1
  <2>2. CASE to'[s] = to[s]
    BY <2>2, RunFrame DEF UpperBoundsSealed, TypeOK
  <2>3. QED
    BY <2>1, <2>2, RunFrame, RunEffect
<1>10. BatchComplete'
  <2> SUFFICES ASSUME NEW s \in Runs, pc'[s] = "spark.write", to'[s] # None,
                      NEW row \in Rows, OnTime(row), table[row] <= to'[s]
               PROVE  Version(row) \in LandedVersions' \cup batch'[s]
    BY <1>3, RunFrame DEF BatchComplete
  <2>1. CASE s # r
    BY <1>2, <2>1, RunFrame DEF BatchComplete
  <2>2. CASE s = r
    <3>1. ReadSource(r)
      BY <2>2, RunEffect
    <3>2. to'[r] = to[r] /\ to[r] \in Nat /\ from[r] \in Value /\ table[row] \in Nat
      BY <2>2, <3>1 DEF ReadSource, TypeOK, OnTime, Present
    <3>3. CASE Selects(Kind, from[r], to[r], table[row])
      BY <2>2, <3>1, <3>3 DEF ReadSource, TypeOK, OnTime
    <3>4. CASE ~Selects(Kind, from[r], to[r], table[row])
      <4>1. from[r] # None /\ table[row] <= from[r]
        BY <2>2, <3>2, <3>4, UnselectedIsOutside
      <4>2. Version(row) \in LandedVersions
        BY <4>1 DEF LowerBoundsSafe, Safe, Covered
      <4>3. QED
        BY <1>2, <4>2
    <3>5. QED
      BY <3>3, <3>4
  <2>3. QED
    BY <2>1, <2>2
<1>11. WindowLanded'
  <2> SUFFICES ASSUME NEW s \in Runs, Written(s)', to'[s] # None
               PROVE  Covered(to[s])'
    BY DEF WindowLanded
  <2>1. CASE Written(s) /\ to'[s] = to[s]
    <3>1. to[s] \in Nat /\ Covered(to[s])
      BY <2>1 DEF WindowLanded, TypeOK
    <3>2. PICK c \in Nat : c = to[s] /\ Covered(c)
      BY <3>1
    <3>3. Covered(c)'
      BY <1>4, <3>2
    <3>4. QED
      BY <2>1, <3>2, <3>3 DEF Covered
  <2>2. CASE s = r /\ WriteSink(r)
    <3>1. to' = to /\ to[r] # None
      BY <2>2 DEF WriteSink
    <3>2. ASSUME NEW v \in batch[r] PROVE v \in LandedVersions'
      <4>1. [run |-> r, version |-> v] \in sink'
        BY <2>2 DEF WriteSink, Append
      <4>2. QED
        BY <4>1 DEF LandedVersions
    <3>3. \A row \in Rows : OnTime(row) /\ table[row] <= to[r]
                                => Version(row) \in LandedVersions'
      BY <1>2, <2>2, <3>1, <3>2 DEF BatchComplete, WriteSink
    <3>4. QED
      BY <1>3, <2>2, <3>1, <3>3, RunFrame DEF Covered
  <2>3. QED
    BY <2>1, <2>2, RunFrame, RunEffect DEF Written
<1>12. QED
  BY <1>1, <1>7, <1>8, <1>9, <1>10, <1>11

LEMMA NextIInv ==
    ASSUME Kind # "mongodb"
    PROVE  IInv /\ [Next]_vars => IInv'
<1> SUFFICES ASSUME IInv, [Next]_vars PROVE IInv'
  OBVIOUS
<1>1. CASE Source
  BY <1>1, SourceIInv
<1>2. ASSUME NEW r \in Runs, Trigger(r) \/ Execute(r) PROVE IInv'
  BY <1>2, RunIInv
<1>3. CASE UNCHANGED vars
  BY <1>3 DEF vars, sysvars, IInv, TypeOK, CheckpointSafe, LowerBoundsSafe, UpperBoundsSealed,
              BatchComplete, WindowLanded, Safe, Covered, AtOrBelow, OnTime, Present, Version,
              LandedVersions, Written
<1>4. QED
  BY <1>1, <1>2, <1>3 DEF Next

(***************************************************************************)
(* The inductive invariant, for any source whose comparison with a         *)
(* checkpoint means something.                                             *)
(***************************************************************************)
THEOREM Invariance ==
    ASSUME Kind # "mongodb"
    PROVE  Spec => []IInv
  BY InitIInv, NextIInv, PTL DEF Spec

(***************************************************************************)
(* For every table source but a MongoDB collection with a checkpoint       *)
(* column that is not a string, and for any number of rows, runs, retries  *)
(* and faults, the saved checkpoint leaves no gap.                         *)
(***************************************************************************)
THEOREM CheckpointLeavesNoGap ==
    ASSUME Kind # "mongodb"
    PROVE  Spec => []NoGap
<1>1. IInv => NoGap
  BY DEF IInv, CheckpointSafe, Safe, NoGap
<1>2. QED
  BY <1>1, Invariance, PTL


-----------------------------------------------------------------------------
(***************************************************************************)
(* Success events.  A run whose event is in the queue is past its write,   *)
(* where its window is fixed and covered.                                  *)
(***************************************************************************)
Published(r) == [run |-> r, status |-> "success"] \in metrics

EventsTruthful ==
    \A r \in Runs : Published(r) =>
        /\ pc[r] \in MetricSteps \cup Ended
        /\ to[r] # None => Covered(to[r])

LEMMA CoveredPersists ==
    ASSUME IInv, [Next]_vars, NEW c \in Nat, AtOrBelow(c, horizon), Covered(c)
    PROVE  Covered(c)'
<1> USE DEF IInv
<1>1. CASE Source
  <2>1. LandedVersions' = LandedVersions
    BY <1>1, SourceFrame DEF LandedVersions
  <2>2. QED
    BY <1>1, <2>1, SourceAddsAbove DEF Covered, Version
<1>2. ASSUME NEW r \in Runs, Trigger(r) \/ Execute(r) PROVE Covered(c)'
  <2>1. LandedVersions \subseteq LandedVersions'
    BY <1>2, RunFrame DEF LandedVersions
  <2>2. QED
    BY <1>2, <2>1, RunFrame DEF Covered, OnTime, Present, Version
<1>3. CASE UNCHANGED vars
  BY <1>3 DEF vars, sysvars, Covered, OnTime, Present, Version, LandedVersions
<1>4. QED
  BY <1>1, <1>2, <1>3 DEF Next

(***************************************************************************)
(* An event enters the queue in a step of its run, after the write, and    *)
(* from then on the run keeps its window.                                  *)
(***************************************************************************)
LEMMA EventStep ==
    ASSUME TypeOK, NEW r \in Runs, Trigger(r) \/ Execute(r), NEW s \in Runs, Published(s)',
           Published(s) => pc[s] \in MetricSteps \cup Ended
    PROVE  /\ to'[s] = to[s]
           /\ pc'[s] \in MetricSteps \cup Ended
           /\ Published(s) \/ Written(s)
<1> DEFINE Goal == /\ to'[s] = to[s]
                   /\ pc'[s] \in MetricSteps \cup Ended
                   /\ Published(s) \/ Written(s)
<1> USE DEF Fail, Succeed, TypeOK, Published, Written
<1>1. CASE Trigger(r) \/ FetchFrom(r) \/ InitFails(r)
  BY <1>1 DEF Trigger, FetchFrom, InitFails
<1>2. ASSUME NEW bound, PushWindow(r, bound) PROVE Goal
  BY <1>2 DEF PushWindow
<1>3. CASE FetchTo(r) \/ FetchToFails(r)
  BY <1>2, <1>3 DEF FetchTo, Capture, FetchToFails
<1>4. CASE SparkRunOperator(r)
  BY <1>4 DEF SparkRunOperator, ReadSource, WriteSink, SparkFails, ReportFailure
<1>5. CASE Publish(r) \/ PublishLost(r) \/ PublishFails(r)
  BY <1>5 DEF Publish, PublishLost, PublishFails, Delivered
<1>6. CASE SaveCheckpoint(r) \/ SaveFails(r)
  BY <1>6 DEF SaveCheckpoint, SaveFails
<1>7. QED
  BY <1>1, <1>3, <1>4, <1>5, <1>6 DEF Execute, InitOperator, MetricPushOperator

LEMMA NextEventsTruthful == IInv /\ EventsTruthful /\ [Next]_vars => EventsTruthful'
<1> SUFFICES ASSUME IInv, EventsTruthful, [Next]_vars, NEW s \in Runs, Published(s)'
             PROVE  /\ pc'[s] \in MetricSteps \cup Ended
                    /\ to'[s] # None => Covered(to[s])'
  BY DEF EventsTruthful
<1>1. /\ to'[s] = to[s]
      /\ pc'[s] \in MetricSteps \cup Ended
      /\ Published(s) \/ Written(s)
  <2>1. CASE Source
    BY <2>1 DEF Source, Commit, Delete, Published, EventsTruthful
  <2>2. ASSUME NEW r \in Runs, Trigger(r) \/ Execute(r) PROVE <1>1
    BY <2>2, EventStep DEF EventsTruthful, IInv
  <2>3. CASE UNCHANGED vars
    BY <2>3 DEF vars, sysvars, Published, EventsTruthful
  <2>4. QED
    BY <2>1, <2>2, <2>3 DEF Next
<1>2. ASSUME to'[s] # None PROVE Covered(to[s])'
  <2>1. PICK c \in Nat : c = to[s] /\ AtOrBelow(c, horizon) /\ Covered(c)
    BY <1>1, <1>2 DEF EventsTruthful, IInv, UpperBoundsSealed, WindowLanded, TypeOK
  <2>2. Covered(c)'
    BY <2>1, CoveredPersists
  <2>3. QED
    BY <1>1, <2>1, <2>2 DEF Covered
<1>3. QED
  BY <1>1, <1>2

(***************************************************************************)
(* Every success event in the queue tells the truth about its window.      *)
(***************************************************************************)
THEOREM SuccessEventsAreTruthful ==
    ASSUME Kind # "mongodb"
    PROVE  Spec => []SuccessIsTruthful
<1>1. Init => EventsTruthful
  BY DEF Init, EventsTruthful, Published
<1>2. EventsTruthful => SuccessIsTruthful
  BY DEF EventsTruthful, SuccessIsTruthful, Published
<1>3. QED
  BY <1>1, <1>2, NextEventsTruthful, Invariance, PTL DEF Spec

-----------------------------------------------------------------------------
(***************************************************************************)
(* Saved checkpoints.  With a queue that raises, the step that saves is    *)
(* only reached through an accepted event.                                 *)
(***************************************************************************)
SavedByPublished ==
    /\ \A r \in Runs : Published(r) => pc[r] \in MetricSteps \cup Ended
    /\ \A r \in Runs : pc[r] = "metric.save" => Published(r)
    /\ SavedIsPublished

LEMMA SaveStep ==
    ASSUME TypeOK, NEW r \in Runs, Trigger(r) \/ Execute(r), MetricType # "kafka_queue"
    PROVE  /\ metrics \subseteq metrics'
           /\ checkpoint' = checkpoint \/ (pc[r] = "metric.save" /\ checkpoint' = to[r])
           /\ \A s \in Runs : pc'[s] = "metric.save" => pc[s] = "metric.save" \/ Published(s)'
<1> USE DEF Fail, Succeed, TypeOK, Published
<1>1. CASE Trigger(r) \/ FetchFrom(r) \/ InitFails(r)
  BY <1>1 DEF Trigger, FetchFrom, InitFails
<1>2. ASSUME NEW bound, PushWindow(r, bound)
      PROVE  /\ metrics \subseteq metrics' /\ checkpoint' = checkpoint
             /\ \A s \in Runs : pc'[s] = "metric.save" => pc[s] = "metric.save"
  BY <1>2 DEF PushWindow
<1>3. CASE FetchTo(r) \/ FetchToFails(r)
  BY <1>2, <1>3 DEF FetchTo, Capture, FetchToFails
<1>4. CASE SparkRunOperator(r)
  BY <1>4 DEF SparkRunOperator, ReadSource, WriteSink, SparkFails, ReportFailure
<1>5. CASE Publish(r) \/ PublishLost(r) \/ PublishFails(r)
  BY <1>5 DEF Publish, PublishLost, PublishFails, Delivered
<1>6. CASE SaveCheckpoint(r) \/ SaveFails(r)
  BY <1>6 DEF SaveCheckpoint, SaveFails, Upserted
<1>7. QED
  BY <1>1, <1>3, <1>4, <1>5, <1>6 DEF Execute, InitOperator, MetricPushOperator

LEMMA RunSavesPublished ==
    ASSUME TypeOK, SavedByPublished, NEW r \in Runs, Trigger(r) \/ Execute(r),
           MetricType # "kafka_queue"
    PROVE  SavedByPublished'
<1>1. ASSUME NEW s \in Runs, Published(s)'
      PROVE  to'[s] = to[s] /\ pc'[s] \in MetricSteps \cup Ended
  BY <1>1, EventStep DEF SavedByPublished
<1>2. ASSUME NEW s \in Runs, Published(s)
      PROVE  Published(s)' /\ to'[s] = to[s]
  BY <1>1, <1>2, SaveStep DEF Published
<1>3. ASSUME NEW s \in Runs, pc'[s] = "metric.save" PROVE Published(s)'
  BY <1>2, <1>3, SaveStep DEF SavedByPublished
<1>4. ASSUME checkpoint' # None
      PROVE  \E s \in Runs : to'[s] = checkpoint' /\ Published(s)'
  <2>1. CASE checkpoint' = checkpoint
    <3>1. PICK s \in Runs : to[s] = checkpoint /\ Published(s)
      BY <1>4, <2>1 DEF SavedByPublished, SavedIsPublished, Published
    <3>2. QED
      BY <1>2, <2>1, <3>1
  <2>2. CASE pc[r] = "metric.save" /\ checkpoint' = to[r]
    BY <1>2, <2>2 DEF SavedByPublished
  <2>3. QED
    BY <2>1, <2>2, SaveStep
<1>5. SavedIsPublished'
  BY <1>4 DEF SavedIsPublished, Published
<1>6. QED
  BY <1>1, <1>3, <1>5 DEF SavedByPublished

(***************************************************************************)
(* With SQS or Redis, for every kind of source, a saved checkpoint has the *)
(* completion event of its run in the queue: the run publishes before it   *)
(* saves, and is started over when the queue refuses.                      *)
(***************************************************************************)
THEOREM SavedCheckpointsArePublished ==
    ASSUME MetricType # "kafka_queue"
    PROVE  Spec => []SavedIsPublished
<1>1. Init => SavedByPublished
  BY DEF Init, SavedByPublished, SavedIsPublished, Published
<1>2. TypeOK /\ SavedByPublished /\ [Next]_vars => SavedByPublished'
  <2> SUFFICES ASSUME TypeOK, SavedByPublished, [Next]_vars
               PROVE  SavedByPublished'
    OBVIOUS
  <2>1. CASE Source
    BY <2>1 DEF Source, Commit, Delete, SavedByPublished, SavedIsPublished, Published
  <2>2. CASE UNCHANGED vars
    BY <2>2 DEF vars, sysvars, SavedByPublished, SavedIsPublished, Published
  <2>3. QED
    BY <2>1, <2>2, RunSavesPublished DEF Next
<1>3. SavedByPublished => SavedIsPublished
  BY DEF SavedByPublished
<1>4. QED
  BY <1>1, <1>2, <1>3, TypeCorrect, PTL DEF Spec

-----------------------------------------------------------------------------
(***************************************************************************)
(* The snapshot of a run: as long as it has not written, the rows that     *)
(* were there at its capture and have not changed are in its window, and,  *)
(* once it has read, in its batch or landed.                               *)
(***************************************************************************)
FreshInWindow ==
    \A r \in Runs : \A row \in fresh[r] :
        row \in Present /\ (to[r] # None => table[row] <= to[r])

FreshInHand ==
    \A r \in Runs : pc[r] = "spark.write" =>
        \A row \in fresh[r] : OnTime(row) => Version(row) \in LandedVersions \cup batch[r]

IsParsedMax(bound) ==
    \E row \in Rows : IsMax(row) /\ bound = ParseCheckpoint(Grain, table[row])

LEMMA FreshFrame ==
    ASSUME TypeOK, NEW r \in Runs, Execute(r) \/ Trigger(r)
    PROVE  /\ \A s \in Runs \ {r} : to'[s] = to[s] /\ fresh'[s] = fresh[s]
           /\ \/ UNCHANGED to /\ fresh'[r] \in {fresh[r], {}}
              \/ \E bound : PushWindow(r, bound) /\ (bound = None \/ IsParsedMax(bound))
<1> USE DEF TypeOK
<1>1. CASE \E bound : PushWindow(r, bound) /\ (bound = None \/ IsParsedMax(bound))
  BY <1>1 DEF PushWindow
<1>2. CASE FetchTo(r) \/ FetchToFails(r)
  <2>1. \E bound : PushWindow(r, bound) /\ (bound = None \/ IsParsedMax(bound))
    BY <1>2 DEF FetchTo, FetchToFails, Capture, IsParsedMax
  <2>2. QED
    BY <1>1, <2>1
<1>3. CASE Trigger(r) \/ FetchFrom(r) \/ InitFails(r) \/ SparkRunOperator(r) \/ MetricPushOperator(r)
  BY <1>3 DEF Trigger, FetchFrom, InitFails, SparkRunOperator, ReadSource, WriteSink, SparkFails,
              MetricPushOperator, Publish, PublishLost, PublishFails, SaveCheckpoint, SaveFails
<1>4. QED
  BY <1>2, <1>3 DEF Execute, InitOperator

LEMMA FreshWindowStep ==
    ASSUME Grain = 1, TypeOK, FreshInWindow, [Next]_vars
    PROVE  FreshInWindow'
<1> SUFFICES ASSUME NEW s \in Runs, NEW row \in fresh'[s]
             PROVE  row \in Present' /\ (to'[s] # None => table'[row] <= to'[s])
  BY DEF FreshInWindow
<1>1. CASE Source
  <2>1. row \in fresh[s] /\ table'[row] = table[row] /\ to' = to
    BY <1>1 DEF Source, Commit, Delete, TypeOK
  <2>2. QED
    BY <2>1 DEF FreshInWindow, Present
<1>2. CASE UNCHANGED vars
  BY <1>2 DEF vars, sysvars, FreshInWindow, Present
<1>3. ASSUME NEW r \in Runs, Trigger(r) \/ Execute(r)
      PROVE  row \in Present' /\ (to'[s] # None => table'[row] <= to'[s])
  <2>1. table' = table /\ Present' = Present
    BY <1>3, RunFrame DEF Present
  <2>2. CASE row \in fresh[s] /\ to'[s] = to[s]
    BY <2>1, <2>2 DEF FreshInWindow
  <2>3. ASSUME NEW bound, PushWindow(r, bound), s = r,
               bound = None \/ IsParsedMax(bound)
        PROVE  row \in Present' /\ (to'[s] # None => table'[row] <= to'[s])
    <3>1. row \in Present /\ to'[s] = bound
      BY <2>3 DEF PushWindow, TypeOK
    <3>2. ASSUME NEW x \in Rows, IsMax(x), bound = ParseCheckpoint(Grain, table[x])
          PROVE  table[row] <= bound
      <4>1. table[x] \in Nat
        BY <3>2 DEF IsMax, Present, TypeOK
      <4>2. bound = table[x]
        BY <3>2, <4>1 DEF ParseCheckpoint
      <4>3. QED
        BY <3>1, <3>2, <4>2 DEF IsMax
    <3>3. QED
      BY <2>1, <2>3, <3>1, <3>2 DEF IsParsedMax
  <2>4. QED
    BY <1>3, <2>2, <2>3, FreshFrame
<1>4. QED
  BY <1>1, <1>2, <1>3 DEF Next

LEMMA FreshHandStep ==
    ASSUME Kind \in {"sql", "nosql"}, IInv, FreshInWindow, FreshInHand, [Next]_vars
    PROVE  FreshInHand'
<1> USE DEF IInv
<1> SUFFICES ASSUME NEW s \in Runs, pc'[s] = "spark.write", NEW row \in fresh'[s], OnTime(row)'
             PROVE  Version(row)' \in LandedVersions' \cup batch'[s]
  BY DEF FreshInHand
<1>1. CASE Source
  <2>1. row \in fresh[s] /\ table'[row] = table[row] /\ late \subseteq late'
        /\ UNCHANGED <<pc, sink, batch>>
    BY <1>1 DEF Source, Commit, Delete, TypeOK
  <2>2. OnTime(row) /\ Version(row)' = Version(row) /\ LandedVersions' = LandedVersions
    BY <2>1 DEF OnTime, Present, Version, LandedVersions
  <2>3. QED
    BY <2>1, <2>2 DEF FreshInHand
<1>2. CASE UNCHANGED vars
  BY <1>2 DEF vars, sysvars, FreshInHand, OnTime, Present, Version, LandedVersions
<1>3. ASSUME NEW r \in Runs, Trigger(r) \/ Execute(r)
      PROVE  Version(row)' \in LandedVersions' \cup batch'[s]
  <2>1. LandedVersions \subseteq LandedVersions' /\ OnTime(row) /\ Version(row)' = Version(row)
    BY <1>3, RunFrame DEF LandedVersions, OnTime, Present, Version
  <2>2. CASE s # r
    BY <1>3, <2>1, <2>2, RunFrame, FreshFrame DEF FreshInHand
  <2>3. CASE s = r
    <3>1. ReadSource(r)
      BY <1>3, <2>3, RunEffect
    <3>2. row \in fresh[r] /\ to[r] \in Value /\ from[r] \in Value /\ table[row] \in Nat
          /\ row \in Present
      BY <2>1, <2>3, <3>1 DEF ReadSource, TypeOK, OnTime, Present
    <3>3. CASE Selects(Kind, from[r], to[r], table[row])
      BY <2>1, <2>3, <3>1, <3>2, <3>3 DEF ReadSource, TypeOK
    <3>4. CASE ~Selects(Kind, from[r], to[r], table[row])
      <4>1. to[r] # None => table[row] <= to[r]
        BY <3>2 DEF FreshInWindow
      <4>2. from[r] # None /\ table[row] <= from[r]
        BY <3>2, <3>4, <4>1, NoneAssumption DEF Selects, SqlSelects, NoSqlSelects, Truthy
      <4>3. Version(row) \in LandedVersions
        BY <2>1, <3>2, <4>2 DEF LowerBoundsSafe, Safe, Covered, Present
      <4>4. QED
        BY <2>1, <4>3
    <3>5. QED
      BY <3>3, <3>4
  <2>4. QED
    BY <2>2, <2>3
<1>4. QED
  BY <1>1, <1>2, <1>3 DEF Next

(***************************************************************************)
(* The write of a run lands its snapshot: whatever else goes on, and also  *)
(* when the MAX query failed and there is no upper bound.  A column with   *)
(* fractions (Grain > 1) is out: what is above the truncated MAX has to    *)
(* wait for the next run.                                                  *)
(***************************************************************************)
THEOREM WritesLandTheSnapshot ==
    ASSUME Kind \in {"sql", "nosql"}, Grain = 1
    PROVE  Spec => SnapshotLanded
<1> DEFINE Landed(r) == \A row \in fresh[r] : OnTime(row) => Version(row) \in LandedVersions'
           Step == \A r \in Runs : pc[r] = "spark.write" /\ pc'[r] = "metric" => Landed(r)
<1>1. Init => FreshInWindow /\ FreshInHand
  BY DEF Init, FreshInWindow, FreshInHand
<1>2. IInv /\ FreshInWindow /\ FreshInHand /\ [Next]_vars => FreshInWindow' /\ FreshInHand'
  BY FreshWindowStep, FreshHandStep DEF IInv
<1>3. IInv /\ FreshInHand /\ [Next]_vars => [Step]_vars
  <2> SUFFICES ASSUME IInv, FreshInHand, [Next]_vars,
                      NEW r \in Runs, pc[r] = "spark.write", pc'[r] = "metric"
               PROVE  Landed(r)
    OBVIOUS
  <2>1. WriteSink(r)
    <3>1. ~Source /\ ~UNCHANGED vars
      BY DEF Source, Commit, Delete, vars, sysvars
    <3>2. PICK s \in Runs : Trigger(s) \/ Execute(s)
      BY <3>1 DEF Next
    <3>3. s = r
      BY <3>2, RunFrame DEF IInv
    <3>4. Written(r)' /\ ~Written(r)
      BY DEF Written
    <3>5. QED
      BY <3>2, <3>3, <3>4, RunEffect DEF IInv
  <2>2. batch[r] \subseteq LandedVersions' /\ LandedVersions \subseteq LandedVersions'
    <3>1. ASSUME NEW v \in batch[r] PROVE v \in LandedVersions'
      <4> DEFINE rec == [run |-> r, version |-> v]
      <4>1. rec \in sink'
        BY <2>1 DEF WriteSink, Append
      <4>2. rec.version = v
        OBVIOUS
      <4> HIDE DEF rec
      <4>3. QED
        BY <4>1, <4>2 DEF LandedVersions
    <3>2. batch[r] \subseteq LandedVersions'
      BY <3>1
    <3>3. sink \subseteq sink'
      BY <2>1 DEF WriteSink, Append
    <3>4. QED
      BY <3>2, <3>3 DEF LandedVersions
  <2>3. QED
    BY <2>2 DEF FreshInHand
<1>4. Kind # "mongodb"
  OBVIOUS
<1>5. QED
  BY <1>1, <1>2, <1>3, <1>4, Invariance, PTL DEF Spec, SnapshotLanded

-----------------------------------------------------------------------------
(***************************************************************************)
(* Refinement: every step of the pipeline is a step of Landing, or a       *)
(* stutter.                                                                *)
(***************************************************************************)
Fetched == UNION {batch[r] : r \in Runs}

LEMMA SourceRefines == TypeOK /\ Source => \E row \in Rows : Promise!Change(row)
<1> SUFFICES ASSUME TypeOK, NEW row \in Rows,
                    (\E ts \in Timestamps : Commit(row, ts)) \/ Delete(row)
             PROVE  Promise!Change(row)
  BY DEF Source
<1>1. ASSUME NEW ts \in Timestamps, Commit(row, ts) PROVE Promise!Change(row)
  <2>1. table'[row] = ts /\ ts \in Nat /\ ts # None
    BY <1>1, TimestampsAssumption, NoneAssumption DEF Commit, TypeOK
  <2>2. QED
    BY <1>1, <2>1 DEF Commit, Promise!Change, Promise!AtOrBelow, AtOrBelow, LandedVersions
<1>2. ASSUME Delete(row) PROVE Promise!Change(row)
  BY <1>2 DEF Delete, TypeOK, Promise!Change, LandedVersions
<1>3. QED
  BY <1>1, <1>2

LEMMA CaptureRefines ==
    ASSUME TypeOK, NEW r \in Runs, NEW row \in Rows, IsMax(row), Capture(r, table[row])
    PROVE  Promise!Seal \/ UNCHANGED Promise!lvars
<1>1. table[row] \in Nat
  BY DEF IsMax, Present, TypeOK
<1>2. PICK v \in Nat : v = ParseCheckpoint(Grain, table[row]) /\ v <= table[row]
  BY <1>1, ParseKeepsLower
<1>3. horizon' = IF AtOrBelow(v, horizon) THEN horizon ELSE v
  BY <1>2 DEF Capture
<1>4. UNCHANGED <<table, batch, sink, checkpoint, late>>
  BY DEF Capture, PushWindow
<1>5. QED
  BY <1>3, <1>4 DEF Promise!Seal, Promise!AtOrBelow, AtOrBelow, Promise!lvars, LandedVersions

LEMMA ReadRefines ==
    ASSUME TypeOK, NEW r \in Runs, ReadSource(r)
    PROVE  Promise!Fetch
<1>1. Fetched' \subseteq Fetched \cup Promise!Current
  <2> SUFFICES ASSUME NEW s \in Runs, NEW v \in batch'[s]
               PROVE  v \in Fetched \cup Promise!Current
    BY DEF Fetched
  <2>1. CASE s = r
    BY <2>1 DEF ReadSource, TypeOK, Present, Version, Promise!Current, Promise!Version
  <2>2. CASE s # r
    BY <2>2 DEF ReadSource, TypeOK, Fetched
  <2>3. QED
    BY <2>1, <2>2
<1>2. QED
  BY <1>1 DEF Promise!Fetch, Fetched, ReadSource, LandedVersions

LEMMA AppendRefines ==
    ASSUME TypeOK, NEW r \in Runs, NEW part \in SUBSET batch[r], Append(r, part),
           batch' = [batch EXCEPT ![r] = {}], UNCHANGED <<table, checkpoint, horizon, late>>
    PROVE  Promise!Land
<1>1. LandedVersions \subseteq LandedVersions'
  BY DEF Append, LandedVersions
<1>2. LandedVersions' \subseteq LandedVersions \cup Fetched
  BY DEF Append, LandedVersions, Fetched
<1>3. Fetched' \subseteq Fetched
  <2> SUFFICES ASSUME NEW s \in Runs, NEW v \in batch'[s] PROVE v \in batch[s]
    BY DEF Fetched
  <2>1. QED
    BY DEF TypeOK
<1>4. QED
  BY <1>1, <1>2, <1>3 DEF Promise!Land, Fetched

LEMMA SaveRefines ==
    ASSUME IInv, NEW r \in Runs, pc[r] = "metric.save", Upserted(r) \/ UNCHANGED checkpoint,
           UNCHANGED <<table, batch, sink, horizon, late>>
    PROVE  Promise!Advance \/ UNCHANGED Promise!lvars
<1>1. UNCHANGED <<table, Fetched, LandedVersions, horizon, late>>
  BY DEF Fetched, LandedVersions
<1>2. CASE UNCHANGED checkpoint
  BY <1>1, <1>2 DEF Promise!lvars, Fetched
<1>3. CASE to[r] # None /\ checkpoint' = to[r]
  <2>1. PICK c \in Nat : c = to[r] /\ AtOrBelow(c, horizon) /\ Covered(c)
    BY <1>3 DEF IInv, TypeOK, UpperBoundsSealed, WindowLanded, Written
  <2>2. Promise!Complete(c)
    BY <2>1 DEF Covered, OnTime, Present, Version, Promise!Complete, Promise!Version
  <2>3. QED
    BY <1>1, <1>3, <2>1, <2>2 DEF Promise!Advance, Promise!AtOrBelow, AtOrBelow, Fetched,
                                  Promise!Complete, Promise!Version
<1>4. QED
  BY <1>2, <1>3 DEF Upserted

LEMMA RunRefines ==
    ASSUME IInv, NEW r \in Runs, Trigger(r) \/ Execute(r)
    PROVE  Promise!LNext \/ UNCHANGED Promise!lvars
<1> DEFINE Goal == Promise!LNext \/ UNCHANGED Promise!lvars
<1> USE DEF IInv
<1>1. CASE UNCHANGED <<table, batch, sink, checkpoint, horizon, late>>
  BY <1>1 DEF Promise!lvars, LandedVersions
<1>2. CASE Trigger(r) \/ FetchFrom(r) \/ FetchToFails(r) \/ InitFails(r)
  BY <1>1, <1>2 DEF Trigger, FetchFrom, FetchToFails, PushWindow, InitFails
<1>3. CASE FetchTo(r)
  <2>1. ASSUME NEW row \in Rows, IsMax(row), Capture(r, table[row]) PROVE Goal
    BY <2>1, CaptureRefines DEF Promise!LNext
  <2>2. ASSUME PushWindow(r, None), UNCHANGED horizon PROVE Goal
    BY <1>1, <2>2 DEF PushWindow
  <2>3. QED
    BY <1>3, <2>1, <2>2 DEF FetchTo
<1>4. CASE ReadSource(r)
  BY <1>4, ReadRefines DEF Promise!LNext
<1>5. CASE WriteSink(r)
  <2>1. Promise!Land
    BY <1>5, AppendRefines DEF WriteSink
  <2>2. QED
    BY <2>1 DEF Promise!LNext
<1>6. CASE SparkFails(r)
  <2>1. Promise!Land
    BY <1>6, AppendRefines DEF SparkFails
  <2>2. QED
    BY <2>1 DEF Promise!LNext
<1>7. CASE Publish(r) \/ PublishLost(r) \/ PublishFails(r)
  BY <1>1, <1>7 DEF Publish, PublishLost, PublishFails
<1>8. CASE SaveCheckpoint(r) \/ SaveFails(r)
  <2>1. Promise!Advance \/ UNCHANGED Promise!lvars
    BY <1>8, SaveRefines DEF SaveCheckpoint, SaveFails
  <2>2. QED
    BY <2>1 DEF Promise!LNext
<1>9. QED
  BY <1>2, <1>3, <1>4, <1>5, <1>6, <1>7, <1>8
     DEF Execute, InitOperator, SparkRunOperator, MetricPushOperator

(***************************************************************************)
(* The pipeline implements Landing: the saved checkpoint is a watermark a  *)
(* consumer can trust, nothing lands that was not read from the source,    *)
(* and nothing landed goes away.                                           *)
(***************************************************************************)
THEOREM PipelineImplementsLanding ==
    ASSUME Kind # "mongodb"
    PROVE  Spec => ImplementsLanding
<1>1. Init => Promise!LInit
  BY DEF Init, Promise!LInit, LandedVersions
<1>2. IInv /\ [Next]_vars => [Promise!LNext]_(Promise!lvars)
  <2> SUFFICES ASSUME IInv, [Next]_vars PROVE Promise!LNext \/ UNCHANGED Promise!lvars
    OBVIOUS
  <2>1. CASE Source
    BY <2>1, SourceRefines DEF IInv, Promise!LNext
  <2>2. ASSUME NEW r \in Runs, Trigger(r) \/ Execute(r)
        PROVE  Promise!LNext \/ UNCHANGED Promise!lvars
    BY <2>2, RunRefines
  <2>3. CASE UNCHANGED vars
    BY <2>3 DEF vars, sysvars, Promise!lvars, LandedVersions
  <2>4. QED
    BY <2>1, <2>2, <2>3 DEF Next
<1>3. QED
  BY <1>1, <1>2, Invariance, PTL DEF Spec, ImplementsLanding, Promise!LSpec

-----------------------------------------------------------------------------
(***************************************************************************)
(* The measure that makes every run end.  It needs no more of the model    *)
(* than that a try is one of the first and Retries further ones.           *)
(***************************************************************************)
TriesBounded == \A r \in Runs : tries[r] <= Retries

LEMMA StepsLeftTable ==
    ASSUME NEW used \in Nat
    PROVE  /\ StepsLeftAt("idle", used) = 6 * Retries + 7
           /\ StepsLeftAt("init", used) = 6 * Retries - 2 * used + 6
           /\ StepsLeftAt("init.to", used) = 6 * Retries - 2 * used + 5
           /\ StepsLeftAt("spark", used) = 4 * Retries - 2 * used + 4
           /\ StepsLeftAt("spark.write", used) = 4 * Retries - 2 * used + 3
           /\ StepsLeftAt("metric", used) = 2 * Retries - 2 * used + 2
           /\ StepsLeftAt("metric.save", used) = 2 * Retries - 2 * used + 1
           /\ StepsLeftAt("done", used) = 0
           /\ StepsLeftAt("failed", used) = 0
  BY RetriesAssumption DEF StepsLeftAt, TaskSteps

(***************************************************************************)
(* Where a step takes a run: to the other step of its task, to the next    *)
(* task, to another try, or to its end.                                    *)
(***************************************************************************)
Within(r) ==
    /\ <<pc[r], pc'[r]>> \in {<<"idle", "init">>, <<"init", "init.to">>,
                             <<"spark", "spark.write">>, <<"metric", "metric.save">>}
    /\ tries'[r] = tries[r]

Onwards(r) ==
    /\ <<pc[r], pc'[r]>> \in {<<"init.to", "spark">>, <<"spark.write", "metric">>,
                             <<"metric.save", "done">>}
    /\ tries'[r] = 0

Again(r) ==
    /\ <<pc[r], pc'[r]>> \in (InitSteps \X {"init"}) \cup (SparkSteps \X {"spark"})
                                \cup (MetricSteps \X {"metric"})
    /\ tries[r] < Retries
    /\ tries'[r] = tries[r] + 1

GivesUp(r) ==
    /\ pc[r] \in InitSteps \cup SparkSteps \cup MetricSteps
    /\ pc'[r] = "failed"
    /\ tries'[r] = tries[r]

LEMMA RunMoves ==
    ASSUME TypeOK, NEW r \in Runs, Trigger(r) \/ Execute(r)
    PROVE  /\ Within(r) \/ Onwards(r) \/ Again(r) \/ GivesUp(r)
           /\ \A other \in Runs \ {r} : pc'[other] = pc[other] /\ tries'[other] = tries[other]
<1> DEFINE Goal ==
        /\ Within(r) \/ Onwards(r) \/ Again(r) \/ GivesUp(r)
        /\ \A other \in Runs \ {r} : pc'[other] = pc[other] /\ tries'[other] = tries[other]
<1> USE DEF TypeOK
<1>1. CASE Trigger(r) \/ FetchFrom(r) \/ ReadSource(r) \/ Publish(r) \/ PublishLost(r)
  BY <1>1 DEF Trigger, FetchFrom, ReadSource, Publish, PublishLost, Within
<1>2. ASSUME NEW bound, PushWindow(r, bound) PROVE Goal
  BY <1>2 DEF PushWindow, Succeed, Onwards
<1>3. CASE FetchTo(r) \/ FetchToFails(r)
  BY <1>2, <1>3 DEF FetchTo, FetchToFails, Capture
<1>4. CASE WriteSink(r) \/ SaveCheckpoint(r)
  BY <1>4 DEF WriteSink, SaveCheckpoint, Succeed, Onwards
<1>5. CASE InitFails(r)
  BY <1>5 DEF InitFails, Fail, Again, GivesUp
<1>6. CASE SparkFails(r)
  BY <1>6 DEF SparkFails, Fail, Again, GivesUp
<1>7. CASE PublishFails(r) \/ SaveFails(r)
  BY <1>7 DEF PublishFails, SaveFails, Fail, Again, GivesUp
<1>8. QED
  BY <1>1, <1>3, <1>4, <1>5, <1>6, <1>7
     DEF Execute, InitOperator, SparkRunOperator, MetricPushOperator

LEMMA MovesCount ==
    ASSUME TypeOK, TriesBounded, NEW r \in Runs,
           Within(r) \/ Onwards(r) \/ Again(r) \/ GivesUp(r)
    PROVE  tries'[r] \in 0..Retries /\ StepsLeft(r)' < StepsLeft(r)
<1>1. tries[r] \in Nat /\ tries[r] <= Retries /\ Retries \in Nat
  BY RetriesAssumption DEF TypeOK, TriesBounded
<1>2. CASE Within(r)
  BY <1>1, <1>2, StepsLeftTable DEF Within, StepsLeft
<1>3. CASE Onwards(r)
  BY <1>1, <1>3, StepsLeftTable DEF Onwards, StepsLeft
<1>4. CASE Again(r)
  BY <1>1, <1>4, StepsLeftTable DEF Again, StepsLeft
<1>5. CASE GivesUp(r)
  BY <1>1, <1>5, StepsLeftTable DEF GivesUp, StepsLeft
<1>6. QED
  BY <1>2, <1>3, <1>4, <1>5

SourceChanges == table' # table /\ \A r \in Runs : StepsLeft(r)' = StepsLeft(r)
RunAdvances ==
    \E r \in Runs :
        /\ StepsLeft(r)' < StepsLeft(r)
        /\ \A other \in Runs \ {r} : StepsLeft(other)' = StepsLeft(other)

LEMMA StepCounts ==
    ASSUME TypeOK, TriesBounded, [Next]_vars
    PROVE  TriesBounded' /\ [SourceChanges \/ RunAdvances]_vars
<1>1. CASE Source
  <2>1. UNCHANGED <<pc, tries>>
    BY <1>1 DEF Source, Commit, Delete
  <2>2. ASSUME NEW row \in Rows, NEW ts \in Timestamps, Commit(row, ts) PROVE table' # table
    <3>1. table'[row] = ts /\ ts \in Nat /\ table[row] \in Nat \cup {None}
      BY <2>2, TimestampsAssumption DEF Commit, TypeOK
    <3>2. table[row] # ts
      BY <2>2, <3>1, NoneAssumption DEF Commit
    <3>3. QED
      BY <3>1, <3>2
  <2>3. ASSUME NEW row \in Rows, Delete(row) PROVE table' # table
    BY <2>3 DEF Delete, TypeOK
  <2>4. QED
    BY <1>1, <2>1, <2>2, <2>3 DEF Source, SourceChanges, TriesBounded, StepsLeft
<1>2. ASSUME NEW r \in Runs, Trigger(r) \/ Execute(r)
      PROVE  TriesBounded' /\ RunAdvances
  <2>1. tries'[r] <= Retries /\ StepsLeft(r)' < StepsLeft(r)
    BY <1>2, RunMoves, MovesCount, RetriesAssumption
  <2>2. \A other \in Runs \ {r} : pc'[other] = pc[other] /\ tries'[other] = tries[other]
    BY <1>2, RunMoves
  <2>3. QED
    BY <2>1, <2>2 DEF TriesBounded, RunAdvances, StepsLeft
<1>3. CASE UNCHANGED vars
  BY <1>3 DEF vars, sysvars, TriesBounded
<1>4. QED
  BY <1>1, <1>2, <1>3 DEF Next

LEMMA TriesAreBounded == Spec => []TriesBounded
<1>1. Init => TriesBounded
  BY RetriesAssumption DEF Init, TriesBounded
<1>2. QED
  BY <1>1, StepCounts, TypeCorrect, PTL DEF Spec

(***************************************************************************)
(* Every step that is not the source's uses up steps that one run had      *)
(* left, and gives none back to another.                                   *)
(***************************************************************************)
THEOREM StepsAreUsedUp == Spec => EveryStepCounts
<1>1. TypeOK /\ TriesBounded /\ [Next]_vars => [SourceChanges \/ RunAdvances]_vars
  BY StepCounts
<1>2. QED
  BY <1>1, TypeCorrect, TriesAreBounded, PTL
     DEF Spec, EveryStepCounts, SourceChanges, RunAdvances

(***************************************************************************)
(* And they are finitely many: a run takes at most six steps in each of    *)
(* its Retries + 1 tries, and the one that starts it.                      *)
(***************************************************************************)
THEOREM RunsAreFinite == Spec => [](\A r \in Runs : StepsLeft(r) \in 0..(6 * (Retries + 1) + 1))
<1>1. ASSUME TypeOK, TriesBounded, NEW r \in Runs
      PROVE  StepsLeft(r) \in 0..(6 * (Retries + 1) + 1)
  <2> DEFINE used == tries[r]
  <2>1. used \in Nat /\ used <= Retries /\ Retries \in Nat /\ pc[r] \in Steps
    BY <1>1, RetriesAssumption DEF TypeOK, TriesBounded
  <2>2. StepsLeft(r) = StepsLeftAt(pc[r], used)
    BY DEF StepsLeft
  <2> HIDE DEF used
  <2>3. CASE pc[r] \in {"idle", "init", "init.to"}
    BY <2>1, <2>2, <2>3, StepsLeftTable
  <2>4. CASE pc[r] \in {"spark", "spark.write", "metric"}
    BY <2>1, <2>2, <2>4, StepsLeftTable
  <2>5. CASE pc[r] \in {"metric.save", "done", "failed"}
    BY <2>1, <2>2, <2>5, StepsLeftTable
  <2>6. QED
    BY <2>1, <2>3, <2>4, <2>5
<1>2. TypeOK /\ TriesBounded => \A r \in Runs : StepsLeft(r) \in 0..(6 * (Retries + 1) + 1)
  BY <1>1
<1>3. QED
  BY <1>2, TypeCorrect, TriesAreBounded, PTL

=============================================================================
