------------------------- MODULE KafkaWindow_proofs -------------------------
(***************************************************************************)
(* Theorems about KafkaWindow, for every value of its constants: any       *)
(* number of partitions, messages, runs, retries and faults.               *)
(***************************************************************************)
EXTENDS KafkaWindow, FiniteSetTheorems, TLAPS

USE OffsetAssumption, RetriesAssumption, MaxFaultsAssumption
USE DEF Steps, Ended

-----------------------------------------------------------------------------
(***************************************************************************)
(* Type correctness.                                                       *)
(***************************************************************************)
LEMMA OffsetMapFacts ==
    ASSUME NEW c \in OffsetMap
    PROVE  /\ DOMAIN c \in SUBSET Partitions
           /\ \A p \in DOMAIN c : c[p] \in Offset
  BY DEF OffsetMap

LEMMA EndOffsetsType ==
    ASSUME TypeOK
    PROVE  EndOffsets \in OffsetMap
<1>1. EndOffsets \in [partitions -> Offset]
  BY DEF EndOffsets, TypeOK
<1>2. QED
  BY <1>1 DEF OffsetMap, TypeOK

LEMMA FailTypes ==
    ASSUME TypeOK, NEW r \in Runs, NEW begin \in Steps, Fail(r, begin)
    PROVE  pc' \in [Runs -> Steps] /\ tries' \in [Runs -> 0..Retries]
  BY DEF TypeOK, Fail

LEMMA FaultTypes == TypeOK /\ Fault => faults' \in 0..MaxFaults
  BY DEF TypeOK, Fault

LEMMA SucceedTypes ==
    ASSUME TypeOK, NEW r \in Runs, NEW next \in Steps, Succeed(r, next)
    PROVE  pc' \in [Runs -> Steps] /\ tries' \in [Runs -> 0..Retries]
  BY DEF TypeOK, Succeed

LEMMA AppendTypes ==
    ASSUME TypeOK, NEW r \in Runs, NEW ms \in SUBSET Message, Append(r, ms)
    PROVE  sink' \subseteq SinkRecord
  BY DEF TypeOK, Append, SinkRecord

LEMMA AppendLands ==
    ASSUME NEW r \in Runs, NEW ms, Append(r, ms)
    PROVE  Landed' = Landed \cup ms
<1>1. ms \subseteq Landed'
  <2> SUFFICES ASSUME NEW m \in ms PROVE m \in Landed'
    OBVIOUS
  <2>1. [run |-> r, message |-> m] \in sink'
    BY DEF Append
  <2>2. QED
    BY <2>1 DEF Landed
<1>2. Landed \subseteq Landed' /\ Landed' \subseteq Landed \cup ms
  BY DEF Append, Landed
<1>3. QED
  BY <1>1, <1>2

LEMMA InitTypeOK == Init => TypeOK
  BY DEF Init, TypeOK, Offset

LEMMA BrokerTypeOK == TypeOK /\ Broker => TypeOK'
<1> SUFFICES ASSUME TypeOK, NEW p \in Partitions, Produce(p) \/ Expire(p) \/ AddPartition(p)
             PROVE  TypeOK'
  BY DEF Broker
<1>1. CASE Produce(p)
  BY <1>1 DEF Produce, TypeOK, Offset
<1>2. CASE Expire(p)
  BY <1>2 DEF Expire, TypeOK, Offset
<1>3. CASE AddPartition(p)
  BY <1>3 DEF AddPartition, TypeOK
<1>4. QED
  BY <1>1, <1>2, <1>3

LEMMA InitOperatorTypeOK ==
    ASSUME TypeOK, NEW r \in Runs, InitOperator(r)
    PROVE  TypeOK'
<1>1. CASE RejectSource(r)
  BY <1>1, FailTypes DEF RejectSource, topic, TypeOK
<1>2. CASE FetchFrom(r)
  BY <1>2 DEF FetchFrom, topic, TypeOK
<1>3. CASE CaptureOffsets(r)
  BY <1>3, SucceedTypes, FaultTypes, EndOffsetsType DEF CaptureOffsets, topic, TypeOK
<1>4. CASE InitFails(r)
  BY <1>4, FailTypes, FaultTypes DEF InitFails, topic, TypeOK
<1>5. QED
  BY <1>1, <1>2, <1>3, <1>4 DEF InitOperator

LEMMA SparkRunTypeOK ==
    ASSUME TypeOK, NEW r \in Runs, SparkRunOperator(r)
    PROVE  TypeOK'
<1>1. CASE ReadSource(r)
  BY <1>1 DEF ReadSource, topic, TypeOK, Available
<1>2. CASE ReadRefused(r)
  BY <1>2, FailTypes DEF ReadRefused, topic, TypeOK
<1>3. CASE WriteSink(r)
  BY <1>3, SucceedTypes, AppendTypes DEF WriteSink, topic, TypeOK
<1>4. CASE SparkFails(r)
  <2>1. batch[r] \in SUBSET Message
    BY DEF TypeOK
  <2>2. sink' \subseteq SinkRecord
    BY <1>4, <2>1, AppendTypes DEF SparkFails
  <2>3. QED
    BY <1>4, <2>2, FailTypes, FaultTypes DEF SparkFails, topic, TypeOK
<1>5. QED
  BY <1>1, <1>2, <1>3, <1>4 DEF SparkRunOperator

LEMMA MetricPushTypeOK ==
    ASSUME TypeOK, NEW r \in Runs, MetricPushOperator(r)
    PROVE  TypeOK'
<1>1. Upserted(r) => checkpoint' \in OffsetMap \cup {None}
  BY DEF Upserted, TypeOK
<1>2. CASE SaveCheckpoint(r)
  BY <1>1, <1>2, SucceedTypes DEF SaveCheckpoint, topic, TypeOK
<1>3. CASE MetricFails(r)
  BY <1>1, <1>3, FailTypes, FaultTypes DEF MetricFails, topic, TypeOK
<1>4. QED
  BY <1>2, <1>3 DEF MetricPushOperator

LEMMA NextTypeOK == TypeOK /\ [Next]_vars => TypeOK'
<1> SUFFICES ASSUME TypeOK, [Next]_vars PROVE TypeOK'
  OBVIOUS
<1>1. CASE Broker
  BY <1>1, BrokerTypeOK
<1>2. ASSUME NEW r \in Runs, Trigger(r) PROVE TypeOK'
  BY <1>2 DEF Trigger, topic, TypeOK
<1>3. ASSUME NEW r \in Runs, InitOperator(r) \/ SparkRunOperator(r) \/ MetricPushOperator(r)
      PROVE  TypeOK'
  BY <1>3, InitOperatorTypeOK, SparkRunTypeOK, MetricPushTypeOK
<1>4. CASE UNCHANGED vars
  BY <1>4 DEF vars, topic, TypeOK
<1>5. QED
  BY <1>1, <1>2, <1>3, <1>4 DEF Next

(***************************************************************************)
(* The variables keep their types, whatever the code and the broker do.    *)
(***************************************************************************)
THEOREM TypeCorrect == Spec => []TypeOK
  BY InitTypeOK, NextTypeOK, PTL DEF Spec

-----------------------------------------------------------------------------
(***************************************************************************)
(* Gapless is not inductive: that the saved offsets leave no gap follows   *)
(* from what the run has landed, hence from its batch and from both ends   *)
(* of its window.  An end is sealed when nothing can appear below it any   *)
(* more, safe when moreover everything below it has been landed.           *)
(***************************************************************************)
Below(c, m) == m[1] \in DOMAIN c /\ m[2] < c[m[1]]
Sealed(c) == \A p \in DOMAIN c : p \in partitions /\ c[p] <= end[p]
Covered(c) == \A m \in Available : Below(c, m) => m \in Landed
Safe(c) == Sealed(c) /\ Covered(c)

UnknownIsEmpty == \A p \in Partitions : p \notin partitions => end[p] = 0
CheckpointSafe == checkpoint # None => Safe(checkpoint)
LowerBoundsSafe == \A r \in Runs : from[r] # None => Safe(from[r])
UpperBoundsSealed == \A r \in Runs : to[r] # None => Sealed(to[r])

(***************************************************************************)
(* Between read and write, what the window promises is landed or in hand.  *)
(***************************************************************************)
BatchComplete ==
    \A r \in Runs : pc[r] = "spark.write" /\ to[r] # None =>
        \A m \in Available : Below(to[r], m) => m \in Landed \cup batch[r]

WindowLanded == \A r \in Runs : pc[r] = "metric" /\ to[r] # None => Covered(to[r])

IInv ==
    /\ TypeOK
    /\ UnknownIsEmpty
    /\ CheckpointSafe
    /\ LowerBoundsSafe
    /\ UpperBoundsSealed
    /\ BatchComplete
    /\ WindowLanded

LEMMA InitIInv == Init => IInv
<1> SUFFICES ASSUME Init PROVE IInv
  OBVIOUS
<1>1. TypeOK
  BY InitTypeOK
<1>2. QED
  BY <1>1 DEF Init, IInv, UnknownIsEmpty, CheckpointSafe, LowerBoundsSafe,
              UpperBoundsSealed, BatchComplete, WindowLanded

(***************************************************************************)
(* What the broker does leaves sealed ends sealed and covered ones covered.*)
(***************************************************************************)
LEMMA BrokerAddsAbove ==
    ASSUME TypeOK, Broker, NEW c \in OffsetMap, Sealed(c)
    PROVE  /\ Sealed(c)'
           /\ \A m \in Available' : Below(c, m) => m \in Available
<1>1. \A p \in Partitions : start[p] \in Offset /\ end[p] \in Offset
  BY DEF TypeOK
<1>2. \A p \in DOMAIN c : p \in Partitions /\ c[p] \in Offset
  BY OffsetMapFacts
<1> SUFFICES ASSUME NEW q \in Partitions, Produce(q) \/ Expire(q) \/ AddPartition(q)
             PROVE  /\ Sealed(c)'
                    /\ \A m \in Available' : Below(c, m) => m \in Available
  BY DEF Broker
<1>3. CASE Produce(q)
  <2>1. \A p \in Partitions : end[p] <= end'[p] /\ start'[p] = start[p]
    BY <1>1, <1>3 DEF Produce, TypeOK, Offset
  <2>2. Sealed(c)'
    BY <1>1, <1>2, <1>3, <2>1 DEF Produce, Sealed, TypeOK, Offset
  <2>3. ASSUME NEW m \in Available', Below(c, m) PROVE m \in Available
    <3>1. m \in Message /\ start[m[1]] <= m[2] /\ m[2] < c[m[1]] /\ c[m[1]] <= end[m[1]]
      BY <1>1, <1>2, <2>1, <2>3 DEF Available, Below, Sealed, Message
    <3>2. m[2] < end[m[1]]
      BY <1>1, <1>2, <2>3, <3>1 DEF Message, Offset, Below
    <3>3. QED
      BY <3>1, <3>2 DEF Available
  <2>4. QED
    BY <2>2, <2>3
<1>4. CASE Expire(q)
  <2>1. Sealed(c)'
    BY <1>4 DEF Expire, Sealed
  <2>2. \A p \in Partitions : start[p] <= start'[p] /\ end'[p] = end[p]
    BY <1>1, <1>4 DEF Expire, TypeOK, Offset
  <2>3. ASSUME NEW m \in Available' PROVE m \in Available
    <3>1. m \in Message /\ start'[m[1]] <= m[2] /\ m[2] < end[m[1]]
      BY <2>2, <2>3 DEF Available, Message
    <3>2. start'[m[1]] \in Nat
      BY <1>1, <1>4, <3>1 DEF Expire, TypeOK, Message, Offset
    <3>3. start[m[1]] <= m[2]
      BY <1>1, <2>2, <3>1, <3>2 DEF Message, Offset
    <3>4. QED
      BY <3>1, <3>3 DEF Available
  <2>4. QED
    BY <2>1, <2>3
<1>5. CASE AddPartition(q)
  BY <1>5 DEF AddPartition, Sealed, Available
<1>6. QED
  BY <1>3, <1>4, <1>5

LEMMA BrokerIInv == IInv /\ Broker => IInv'
<1> SUFFICES ASSUME IInv, Broker PROVE IInv'
  OBVIOUS
<1> USE DEF IInv
<1>1. TypeOK'
  BY BrokerTypeOK
<1>2. UNCHANGED <<checkpoint, pc, from, to, batch, sink>>
  BY DEF Broker, Produce, Expire, AddPartition
<1>3. UnknownIsEmpty'
  BY DEF UnknownIsEmpty, Broker, Produce, Expire, AddPartition, TypeOK
<1>4. ASSUME NEW c \in OffsetMap, Sealed(c) PROVE Sealed(c)'
  BY <1>4, BrokerAddsAbove
<1>5. ASSUME NEW c \in OffsetMap, Safe(c) PROVE Safe(c)'
  BY <1>2, <1>5, BrokerAddsAbove DEF Safe, Covered, Landed
<1>6. CheckpointSafe'
  BY <1>2, <1>5 DEF CheckpointSafe, TypeOK
<1>7. LowerBoundsSafe'
  BY <1>2, <1>5 DEF LowerBoundsSafe, TypeOK
<1>8. UpperBoundsSealed'
  BY <1>2, <1>4 DEF UpperBoundsSealed, TypeOK
<1>9. BatchComplete'
  <2> SUFFICES ASSUME NEW r \in Runs, pc[r] = "spark.write", to[r] # None,
                      NEW m \in Available', Below(to[r], m)
               PROVE  m \in Landed \cup batch[r]
    BY <1>2 DEF BatchComplete, Landed
  <2>1. to[r] \in OffsetMap /\ Sealed(to[r])
    BY DEF UpperBoundsSealed, TypeOK
  <2>2. m \in Available
    BY <2>1, BrokerAddsAbove
  <2>3. QED
    BY <2>2 DEF BatchComplete
<1>10. WindowLanded'
  <2> SUFFICES ASSUME NEW r \in Runs, pc[r] = "metric", to[r] # None
               PROVE  Covered(to[r])'
    BY <1>2 DEF WindowLanded
  <2>1. to[r] \in OffsetMap /\ Sealed(to[r]) /\ Covered(to[r])
    BY DEF UpperBoundsSealed, WindowLanded, TypeOK
  <2>2. QED
    BY <1>2, <1>5, <2>1 DEF Safe
<1>11. QED
  BY <1>1, <1>3, <1>6, <1>7, <1>8, <1>9, <1>10

(***************************************************************************)
(* The steps of the tasks leave the topic alone, and only add to the sink. *)
(***************************************************************************)
LEMMA SinkGrows ==
    ASSUME sink \subseteq sink', UNCHANGED topic
    PROVE  /\ UnknownIsEmpty => UnknownIsEmpty'
           /\ \A c : Sealed(c) => Sealed(c)'
           /\ \A c : Safe(c) => Safe(c)'
           /\ \A c : Covered(c) => Covered(c)'
           /\ Landed \subseteq Landed'
           /\ Available' = Available
  BY DEF topic, UnknownIsEmpty, Sealed, Safe, Covered, Landed, Available

LEMMA EndOffsetsSealed == TypeOK => Sealed(EndOffsets)
  BY DEF Sealed, EndOffsets, TypeOK, Offset

LEMMA InitOperatorIInv ==
    ASSUME IInv, NEW r \in Runs, InitOperator(r)
    PROVE  IInv'
<1> USE DEF IInv
<1>1. TypeOK'
  BY InitOperatorTypeOK
<1>2. UNCHANGED <<topic, sink, checkpoint, batch>> /\ sink \subseteq sink'
  BY DEF InitOperator, RejectSource, FetchFrom, CaptureOffsets, InitFails
<1>3. UnknownIsEmpty' /\ CheckpointSafe'
  BY <1>2, SinkGrows DEF CheckpointSafe
<1>4. LowerBoundsSafe'
  <2>1. \A s \in Runs : from'[s] \in {None, from[s], checkpoint}
    BY DEF InitOperator, RejectSource, FetchFrom, CaptureOffsets, InitFails, TypeOK
  <2>2. QED
    BY <1>2, <2>1, SinkGrows DEF LowerBoundsSafe, CheckpointSafe
<1>5. UpperBoundsSealed'
  <2>1. \A s \in Runs : to'[s] \in {None, to[s], EndOffsets}
    BY DEF InitOperator, RejectSource, FetchFrom, CaptureOffsets, InitFails, TypeOK
  <2>2. QED
    BY <1>2, <2>1, SinkGrows, EndOffsetsSealed DEF UpperBoundsSealed
<1>6. \A s \in Runs : pc'[s] \in {"spark.write", "metric"} => pc'[s] = pc[s] /\ to'[s] = to[s]
  BY DEF InitOperator, RejectSource, FetchFrom, CaptureOffsets, InitFails, Fail, Succeed, TypeOK
<1>7. BatchComplete'
  BY <1>2, <1>6, SinkGrows DEF BatchComplete
<1>8. WindowLanded'
  BY <1>2, <1>6, SinkGrows DEF WindowLanded
<1>9. QED
  BY <1>1, <1>3, <1>4, <1>5, <1>7, <1>8

(***************************************************************************)
(* What is below the window of a run but not in it is below its lower end. *)
(***************************************************************************)
LEMMA WindowCompletes ==
    ASSUME IInv, NEW r \in Runs, to[r] # None, NEW m \in Available, Below(to[r], m),
           ~Within(r, m[1], m[2])
    PROVE  m \in Landed
<1>1. from[r] # None /\ m[1] \in DOMAIN from[r] /\ ~(from[r][m[1]] <= m[2])
  BY DEF Within, Below
<1>2. from[r] \in OffsetMap /\ Covered(from[r])
  BY <1>1 DEF IInv, LowerBoundsSafe, Safe, TypeOK
<1>3. from[r][m[1]] \in Nat /\ m[2] \in Nat
  BY <1>1, <1>2, OffsetMapFacts DEF Available, Message, Offset
<1>4. QED
  BY <1>1, <1>2, <1>3 DEF Covered, Below

LEMMA SparkRunIInv ==
    ASSUME IInv, NEW r \in Runs, SparkRunOperator(r)
    PROVE  IInv'
<1> USE DEF IInv
<1>1. TypeOK'
  BY SparkRunTypeOK
<1>2. UNCHANGED <<topic, checkpoint, from, to>> /\ sink \subseteq sink'
  BY DEF SparkRunOperator, ReadSource, ReadRefused, WriteSink, SparkFails, Append
<1>3. UnknownIsEmpty' /\ CheckpointSafe' /\ LowerBoundsSafe' /\ UpperBoundsSealed'
  BY <1>2, SinkGrows DEF CheckpointSafe, LowerBoundsSafe, UpperBoundsSealed
<1>4. \A s \in Runs \ {r} : pc'[s] = pc[s] /\ batch'[s] = batch[s]
  BY DEF SparkRunOperator, ReadSource, ReadRefused, WriteSink, SparkFails, Fail, Succeed, TypeOK
<1>5. BatchComplete'
  <2> SUFFICES ASSUME NEW s \in Runs, pc'[s] = "spark.write", to[s] # None,
                      NEW m \in Available, Below(to[s], m)
               PROVE  m \in Landed \cup batch'[s]
    BY <1>2, SinkGrows DEF BatchComplete
  <2>1. CASE s # r
    BY <1>4, <2>1 DEF BatchComplete
  <2>2. CASE s = r
    <3>1. ReadSource(r)
      BY <2>2 DEF SparkRunOperator, ReadRefused, WriteSink, SparkFails, Fail, Succeed, TypeOK
    <3>2. batch'[r] = {x \in Available : Within(r, x[1], x[2])}
      BY <3>1 DEF ReadSource, TypeOK
    <3>3. QED
      BY <2>2, <3>2, WindowCompletes
  <2>3. QED
    BY <2>1, <2>2
<1>6. WindowLanded'
  <2> SUFFICES ASSUME NEW s \in Runs, pc'[s] = "metric", to[s] # None
               PROVE  Covered(to[s])'
    BY <1>2 DEF WindowLanded
  <2>1. CASE s # r
    BY <1>2, <1>4, <2>1, SinkGrows DEF WindowLanded
  <2>2. CASE s = r
    <3>1. WriteSink(r)
      BY <2>2 DEF SparkRunOperator, ReadSource, ReadRefused, SparkFails, Fail, TypeOK
    <3>2. Landed' = Landed \cup batch[r]
      BY <3>1, AppendLands DEF WriteSink
    <3>3. \A m \in Available : Below(to[r], m) => m \in Landed'
      BY <2>2, <3>1, <3>2 DEF WriteSink, BatchComplete
    <3>4. QED
      BY <1>2, <2>2, <3>3, SinkGrows DEF Covered
  <2>3. QED
    BY <2>1, <2>2
<1>7. QED
  BY <1>1, <1>3, <1>5, <1>6

LEMMA MetricPushIInv ==
    ASSUME IInv, NEW r \in Runs, MetricPushOperator(r)
    PROVE  IInv'
<1> USE DEF IInv
<1>1. TypeOK'
  BY MetricPushTypeOK
<1>2. UNCHANGED <<topic, from, to, batch, sink>> /\ sink \subseteq sink'
  BY DEF MetricPushOperator, SaveCheckpoint, MetricFails
<1>3. UnknownIsEmpty' /\ LowerBoundsSafe' /\ UpperBoundsSealed'
  BY <1>2, SinkGrows DEF LowerBoundsSafe, UpperBoundsSealed
<1>4. CheckpointSafe'
  <2>1. pc[r] = "metric" /\ checkpoint' \in {checkpoint, to[r]}
        /\ (checkpoint' # checkpoint => to[r] # None)
    BY DEF MetricPushOperator, SaveCheckpoint, MetricFails, Upserted
  <2>2. to[r] # None => Safe(to[r])
    BY <2>1 DEF WindowLanded, UpperBoundsSealed, Safe
  <2>3. QED
    BY <1>2, <2>1, <2>2, SinkGrows DEF CheckpointSafe
<1>5. \A s \in Runs : pc'[s] \in {"spark.write", "metric"} => pc'[s] = pc[s]
  BY DEF MetricPushOperator, SaveCheckpoint, MetricFails, Fail, Succeed, TypeOK
<1>6. BatchComplete' /\ WindowLanded'
  BY <1>2, <1>5, SinkGrows DEF BatchComplete, WindowLanded
<1>7. QED
  BY <1>1, <1>3, <1>4, <1>6

LEMMA NextIInv == IInv /\ [Next]_vars => IInv'
<1> SUFFICES ASSUME IInv, [Next]_vars PROVE IInv'
  OBVIOUS
<1>1. CASE Broker
  BY <1>1, BrokerIInv
<1>2. ASSUME NEW r \in Runs, Trigger(r) PROVE IInv'
  <2>1. TypeOK'
    BY <1>2, NextTypeOK DEF Next, IInv
  <2>2. UNCHANGED <<topic, checkpoint, from, to, batch, sink>>
        /\ \A s \in Runs : pc'[s] \in {"spark.write", "metric"} => pc'[s] = pc[s]
    BY <1>2 DEF Trigger, IInv, TypeOK
  <2>3. QED
    BY <2>1, <2>2, SinkGrows DEF IInv, CheckpointSafe, LowerBoundsSafe, UpperBoundsSealed,
                                 BatchComplete, WindowLanded
<1>3. ASSUME NEW r \in Runs, InitOperator(r) \/ SparkRunOperator(r) \/ MetricPushOperator(r)
      PROVE  IInv'
  BY <1>3, InitOperatorIInv, SparkRunIInv, MetricPushIInv
<1>4. CASE UNCHANGED vars
  <2>1. TypeOK'
    BY NextTypeOK DEF IInv
  <2>2. QED
    BY <1>4, <2>1, SinkGrows DEF vars, IInv, CheckpointSafe, LowerBoundsSafe, UpperBoundsSealed,
                                 BatchComplete, WindowLanded
<1>5. QED
  BY <1>1, <1>2, <1>3, <1>4 DEF Next

(***************************************************************************)
(* The inductive invariant of the offset windows.                          *)
(***************************************************************************)
THEOREM Invariance == Spec => []IInv
  BY InitIInv, NextIInv, PTL DEF Spec

(***************************************************************************)
(* "Gapless", with any overlap of runs and any faults: what is below the   *)
(* saved offsets and still in the topic has been landed.                   *)
(***************************************************************************)
THEOREM OffsetsLeaveNoGap == Spec => []Gapless
<1>1. IInv => Gapless
  BY DEF IInv, CheckpointSafe, Safe, Covered, Below, Gapless
<1>2. QED
  BY <1>1, Invariance, PTL

-----------------------------------------------------------------------------
(***************************************************************************)
(* A window that does not name a partition never will: once refused, a     *)
(* run stays refusable.                                                    *)
(***************************************************************************)
LEMMA ReadableOnlyShrinks ==
    ASSUME IInv, partitions \subseteq partitions', NEW c \in OffsetMap \cup {None},
           c # None => Sealed(c), ~Readable(c)
    PROVE  ~Readable(c)'
<1>1. c # None /\ DOMAIN c \subseteq partitions /\ DOMAIN c # partitions
  BY DEF Readable, Sealed
<1>2. QED
  BY <1>1 DEF Readable

LEMMA Monotone ==
    ASSUME TypeOK, [Next]_vars
    PROVE  /\ accepted' = accepted
           /\ faults' = 0 => faults = 0
           /\ partitions \subseteq partitions'
<1>1. CASE Broker \/ UNCHANGED vars
  BY <1>1 DEF Broker, Produce, Expire, AddPartition, vars, topic
<1>2. ASSUME NEW r \in Runs, Trigger(r) \/ InitOperator(r)
      PROVE  /\ UNCHANGED <<accepted, partitions>>
             /\ faults' = 0 => faults = 0
  BY <1>2 DEF topic, Trigger, InitOperator, RejectSource, FetchFrom, CaptureOffsets, InitFails,
              Fault, TypeOK
<1>3. ASSUME NEW r \in Runs, SparkRunOperator(r) \/ MetricPushOperator(r)
      PROVE  /\ UNCHANGED <<accepted, partitions>>
             /\ faults' = 0 => faults = 0
  BY <1>3 DEF topic, SparkRunOperator, ReadSource, ReadRefused, WriteSink, SparkFails,
              MetricPushOperator, SaveCheckpoint, MetricFails, Fault, TypeOK
<1>4. QED
  BY <1>1, <1>2, <1>3 DEF Next

LEMMA FailuresStep == IInv /\ OnlyGrowthFailsRuns /\ [Next]_vars => OnlyGrowthFailsRuns'
<1> SUFFICES ASSUME IInv, OnlyGrowthFailsRuns, [Next]_vars, faults' = 0, accepted',
                    NEW s \in Runs, pc'[s] = "failed"
             PROVE  ~Readable(from[s])' \/ ~Readable(to[s])'
  BY DEF OnlyGrowthFailsRuns
<1> USE DEF IInv
<1>1. accepted /\ faults = 0 /\ partitions \subseteq partitions'
  BY Monotone
<1>2. /\ from[s] \in OffsetMap \cup {None} /\ to[s] \in OffsetMap \cup {None}
      /\ from[s] # None => Sealed(from[s])
      /\ to[s] # None => Sealed(to[s])
  BY DEF TypeOK, LowerBoundsSafe, UpperBoundsSealed, Safe
<1>3. UNCHANGED <<from[s], to[s]>> /\ (~Readable(from[s]) \/ ~Readable(to[s]))
  <2>1. CASE Broker \/ UNCHANGED vars
    BY <1>1, <2>1 DEF Broker, Produce, Expire, AddPartition, vars, OnlyGrowthFailsRuns
  <2>2. ASSUME NEW r \in Runs, Trigger(r) \/ FetchFrom(r) \/ CaptureOffsets(r)
                                \/ ReadSource(r) \/ WriteSink(r) \/ SaveCheckpoint(r)
        PROVE  pc[s] = "failed" /\ UNCHANGED <<from[s], to[s]>>
    BY <2>2 DEF Trigger, FetchFrom, CaptureOffsets, ReadSource, WriteSink, SaveCheckpoint,
                Succeed, TypeOK
  <2>3. ASSUME NEW r \in Runs, ReadRefused(r)
        PROVE  UNCHANGED <<from[s], to[s]>> /\ (~Readable(from[s]) \/ ~Readable(to[s]))
    BY <1>1, <2>3 DEF ReadRefused, Fail, TypeOK, OnlyGrowthFailsRuns
  <2>4. ASSUME NEW r \in Runs
        PROVE  ~RejectSource(r) /\ ~InitFails(r) /\ ~SparkFails(r) /\ ~MetricFails(r)
    BY <1>1 DEF RejectSource, InitFails, SparkFails, MetricFails, Fault, TypeOK
  <2>5. QED
    BY <1>1, <2>1, <2>2, <2>3, <2>4
       DEF Next, InitOperator, SparkRunOperator, MetricPushOperator, OnlyGrowthFailsRuns
<1>4. QED
  BY <1>1, <1>2, <1>3, ReadableOnlyShrinks DEF Readable

(***************************************************************************)
(* Without a fault of the environment only a partition that was added      *)
(* makes a run fail.                                                       *)
(***************************************************************************)
THEOREM NoGrowthNoFailure == Spec => []OnlyGrowthFailsRuns
<1>1. Init => OnlyGrowthFailsRuns
  BY DEF Init, OnlyGrowthFailsRuns
<1>2. QED
  BY <1>1, FailuresStep, Invariance, PTL DEF Spec

-----------------------------------------------------------------------------
(***************************************************************************)
(* No duplicates, when Airflow has one run of the DAG in flight at a time. *)
(* Then the windows of the runs that end well are ordered: what such a run *)
(* captured is at or below the checkpoint, so at or below the lower end of *)
(* each later window; and a run lands nothing outside its window.          *)
(***************************************************************************)
AtMost(a, b) == b # None /\ \A p \in DOMAIN a : p \in DOMAIN b /\ a[p] <= b[p]
Saved(r) == pc[r] = "done" /\ to[r] # None

OneAtATime == \A r, s \in Active : r = s

NothingYet ==
    \A r \in Runs : pc[r] \in {"idle", "init", "init.to"} =>
        batch[r] = {} /\ LandedBy(r) = {}

WithinWindow ==
    \A r \in Runs : to[r] # None =>
        \A m \in batch[r] \cup LandedBy(r) : Below(to[r], m) /\ Within(r, m[1], m[2])

SavedIsBelow == \A r \in Runs : Saved(r) => AtMost(to[r], checkpoint)

SavedBeforeActive ==
    \A r \in Runs, s \in Active : Saved(r) /\ pc[s] # "init" => AtMost(to[r], from[s])

CapturedIsAhead ==
    \A s \in Runs :
        pc[s] \in {"spark", "spark.write", "metric"} /\ to[s] # None /\ checkpoint # None =>
            AtMost(checkpoint, to[s])

SavedAreOrdered ==
    \A r, s \in Runs : r # s /\ Saved(r) /\ Saved(s) =>
        AtMost(to[r], from[s]) \/ AtMost(to[s], from[r])

SerialInv ==
    /\ OneAtATime
    /\ NothingYet
    /\ WithinWindow
    /\ SavedIsBelow
    /\ SavedBeforeActive
    /\ CapturedIsAhead
    /\ SavedAreOrdered

LEMMA AtMostTransitive ==
    ASSUME NEW a \in OffsetMap, NEW b \in OffsetMap, NEW c \in OffsetMap,
           AtMost(a, b), AtMost(b, c)
    PROVE  AtMost(a, c)
  BY OffsetMapFacts DEF AtMost, Offset

LEMMA AtMostItself ==
    ASSUME NEW a \in OffsetMap, a # None
    PROVE  AtMost(a, a)
  BY OffsetMapFacts DEF AtMost, Offset

LEMMA AppendLandsBy ==
    ASSUME NEW r \in Runs, NEW ms, Append(r, ms)
    PROVE  /\ LandedBy(r)' \subseteq LandedBy(r) \cup ms
           /\ \A s \in Runs \ {r} : LandedBy(s)' = LandedBy(s)
  BY DEF Append, LandedBy

(***************************************************************************)
(* Whatever leaves the windows, the batches, the sink and the checkpoint   *)
(* alone, and takes no run further, preserves the invariant.               *)
(***************************************************************************)
LEMMA SerialFrame ==
    ASSUME SerialInv, UNCHANGED <<checkpoint, pc, from, to, batch, sink>>
    PROVE  SerialInv'
<1> USE DEF SerialInv
<1>1. Active' = Active
  BY DEF Active
<1>2. UNCHANGED <<OneAtATime, NothingYet, WithinWindow>>
  BY <1>1 DEF OneAtATime, NothingYet, WithinWindow, LandedBy, Below, Within
<1>3. UNCHANGED <<SavedIsBelow, SavedBeforeActive, CapturedIsAhead, SavedAreOrdered>>
  BY <1>1 DEF SavedIsBelow, SavedBeforeActive, CapturedIsAhead, SavedAreOrdered, Saved, AtMost
<1>4. QED
  BY <1>2, <1>3

LEMMA TriggerSerial ==
    ASSUME MaxActive = 1, TypeOK, SerialInv, NEW r \in Runs, Trigger(r)
    PROVE  SerialInv'
<1> USE DEF SerialInv
<1>1. Active = {}
  <2> SUFFICES ASSUME NEW s \in Active PROVE FALSE
    OBVIOUS
  <2>1. Active = {s}
    BY DEF OneAtATime
  <2>2. Cardinality(Active) = 1
    BY <2>1, FS_Singleton
  <2>3. QED
    BY <2>2 DEF Trigger
<1>2. /\ pc'[r] = "init" /\ \A s \in Runs \ {r} : pc'[s] = pc[s]
      /\ pc[r] = "idle"
      /\ UNCHANGED <<checkpoint, from, to, batch, sink>>
  BY DEF Trigger, TypeOK
<1>3. Active' = {r}
  BY <1>1, <1>2 DEF Active
<1>4. OneAtATime'
  BY <1>3 DEF OneAtATime
<1>5. NothingYet' /\ WithinWindow'
  BY <1>2 DEF NothingYet, WithinWindow, LandedBy, Below, Within
<1>6. SavedBeforeActive'
  BY <1>2, <1>3 DEF SavedBeforeActive
<1>7. SavedIsBelow' /\ CapturedIsAhead' /\ SavedAreOrdered'
  BY <1>2 DEF SavedIsBelow, CapturedIsAhead, SavedAreOrdered, Saved, AtMost
<1>8. QED
  BY <1>4, <1>5, <1>6, <1>7

(***************************************************************************)
(* The step of a task is that of the one active run.                       *)
(***************************************************************************)
LEMMA OneActive ==
    ASSUME TypeOK, OneAtATime, NEW r \in Active,
           \A s \in Runs \ {r} : pc'[s] = pc[s]
    PROVE  OneAtATime' /\ \A s \in Active' : s = r
  BY DEF OneAtATime, Active

LEMMA InitOperatorSerial ==
    ASSUME IInv, SerialInv, NEW r \in Runs, InitOperator(r)
    PROVE  SerialInv'
<1> USE DEF SerialInv
<1>1. /\ pc[r] \in {"init", "init.to"} /\ pc'[r] \in {"init", "init.to", "spark", "failed"}
      /\ \A s \in Runs \ {r} : pc'[s] = pc[s] /\ from'[s] = from[s] /\ to'[s] = to[s]
      /\ UNCHANGED <<checkpoint, batch, sink>>
  BY DEF InitOperator, RejectSource, FetchFrom, CaptureOffsets, InitFails, Fail, Succeed, IInv,
         TypeOK
<1>2. OneAtATime' /\ \A s \in Active' : s = r
  BY <1>1, OneActive DEF IInv, Active
<1>3. LandedBy(r) = {} /\ batch[r] = {} /\ \A s \in Runs : LandedBy(s)' = LandedBy(s)
  BY <1>1 DEF NothingYet, LandedBy
<1>4. NothingYet'
  BY <1>1, <1>3 DEF NothingYet
<1>5. WithinWindow'
  BY <1>1, <1>3 DEF WithinWindow, Below, Within
<1>6. SavedIsBelow'
  BY <1>1 DEF SavedIsBelow, Saved, AtMost
<1>7. SavedBeforeActive'
  <2> SUFFICES ASSUME NEW q \in Runs, Saved(q)', r \in Active', pc'[r] # "init"
               PROVE  AtMost(to[q], from'[r])
    BY <1>1, <1>2 DEF SavedBeforeActive, Saved, AtMost, Active
  <2>1. q # r /\ Saved(q)
    BY <1>1 DEF Saved
  <2>2. CASE FetchFrom(r)
    BY <2>1, <2>2 DEF FetchFrom, SavedIsBelow, IInv, TypeOK
  <2>3. CASE CaptureOffsets(r)
    BY <2>1, <2>3 DEF CaptureOffsets, SavedBeforeActive, Active
  <2>4. CASE RejectSource(r) \/ InitFails(r)
    BY <2>4 DEF RejectSource, InitFails, Fail, Active, IInv, TypeOK
  <2>5. QED
    BY <2>2, <2>3, <2>4 DEF InitOperator
<1>8. CapturedIsAhead'
  <2> SUFFICES ASSUME pc'[r] = "spark", to'[r] # None, checkpoint # None
               PROVE  AtMost(checkpoint, to'[r])
    BY <1>1 DEF CapturedIsAhead, AtMost
  <2>1. to'[r] = EndOffsets
    BY DEF InitOperator, RejectSource, FetchFrom, CaptureOffsets, InitFails, Fail, Succeed, IInv,
           TypeOK
  <2>2. Sealed(checkpoint)
    BY DEF IInv, CheckpointSafe, Safe
  <2>3. QED
    BY <2>1, <2>2 DEF AtMost, Sealed, EndOffsets
<1>9. SavedAreOrdered'
  BY <1>1 DEF SavedAreOrdered, Saved, AtMost
<1>10. QED
  BY <1>2, <1>4, <1>5, <1>6, <1>7, <1>8, <1>9

(***************************************************************************)
(* What a run reads is in its window: Spark has refused a window that does *)
(* not name every partition with messages.                                 *)
(***************************************************************************)
LEMMA ReadsWithinWindow ==
    ASSUME IInv, NEW r \in Runs, ReadSource(r), to[r] # None, NEW m \in batch'[r]
    PROVE  Below(to[r], m) /\ Within(r, m[1], m[2])
<1>1. m \in Available /\ Within(r, m[1], m[2])
  BY DEF ReadSource, IInv, TypeOK
<1>2. m[1] \in Partitions /\ m[2] \in Nat /\ m[2] < end[m[1]]
  BY <1>1 DEF Available, Message, Offset
<1>3. m[1] \in partitions
  BY <1>2 DEF IInv, UnknownIsEmpty
<1>4. m[1] \in DOMAIN to[r]
  BY <1>3 DEF ReadSource, Readable
<1>5. QED
  BY <1>1, <1>4 DEF Below, Within

LEMMA SparkRunSerial ==
    ASSUME IInv, SerialInv, NEW r \in Runs, SparkRunOperator(r)
    PROVE  SerialInv'
<1> USE DEF SerialInv
<1>1. /\ pc[r] \in {"spark", "spark.write"}
      /\ pc'[r] \in {"spark", "spark.write", "metric", "failed"}
      /\ \A s \in Runs \ {r} : pc'[s] = pc[s] /\ batch'[s] = batch[s]
      /\ UNCHANGED <<checkpoint, from, to>>
  BY DEF SparkRunOperator, ReadSource, ReadRefused, WriteSink, SparkFails, Fail, Succeed, IInv,
         TypeOK
<1>2. OneAtATime' /\ \A s \in Active' : s = r
  BY <1>1, OneActive DEF IInv, Active
<1>3. /\ LandedBy(r)' \subseteq LandedBy(r) \cup batch[r]
      /\ \A s \in Runs \ {r} : LandedBy(s)' = LandedBy(s)
  <2>1. CASE ReadSource(r) \/ ReadRefused(r)
    BY <2>1 DEF ReadSource, ReadRefused, LandedBy
  <2>2. CASE WriteSink(r)
    BY <2>2, AppendLandsBy DEF WriteSink
  <2>3. CASE SparkFails(r)
    BY <2>3, AppendLandsBy DEF SparkFails
  <2>4. QED
    BY <2>1, <2>2, <2>3 DEF SparkRunOperator
<1>4. NothingYet'
  BY <1>1, <1>3 DEF NothingYet
<1>5. WithinWindow'
  <2> SUFFICES ASSUME NEW s \in Runs, to[s] # None, NEW m \in batch'[s] \cup LandedBy(s)'
               PROVE  Below(to[s], m) /\ Within(s, m[1], m[2])
    BY <1>1 DEF WithinWindow, Below, Within
  <2>1. CASE m \in batch[s] \cup LandedBy(s)
    BY <2>1 DEF WithinWindow
  <2>2. CASE m \notin batch[s] \cup LandedBy(s)
    <3>1. s = r /\ m \in batch'[r] /\ m \notin batch[r]
      BY <1>1, <1>3, <2>2
    <3>2. ReadSource(r)
      BY <3>1 DEF SparkRunOperator, ReadRefused, WriteSink, SparkFails, IInv, TypeOK
    <3>3. QED
      BY <3>1, <3>2, ReadsWithinWindow
  <2>3. QED
    BY <2>1, <2>2
<1>6. SavedIsBelow' /\ SavedAreOrdered'
  BY <1>1 DEF SavedIsBelow, SavedAreOrdered, Saved, AtMost
<1>7. SavedBeforeActive'
  BY <1>1, <1>2 DEF SavedBeforeActive, Saved, AtMost, Active
<1>8. CapturedIsAhead'
  BY <1>1 DEF CapturedIsAhead, AtMost
<1>9. QED
  BY <1>2, <1>4, <1>5, <1>6, <1>7, <1>8

LEMMA MetricPushSerial ==
    ASSUME IInv, SerialInv, NEW r \in Runs, MetricPushOperator(r)
    PROVE  SerialInv'
<1> USE DEF SerialInv
<1>1. /\ pc[r] = "metric" /\ pc'[r] \in {"metric", "done", "failed"}
      /\ \A s \in Runs \ {r} : pc'[s] = pc[s]
      /\ UNCHANGED <<from, to, batch, sink>>
  BY DEF MetricPushOperator, SaveCheckpoint, MetricFails, Fail, Succeed, IInv, TypeOK
<1>2. OneAtATime' /\ \A s \in Active' : s = r
  BY <1>1, OneActive DEF IInv, Active
<1>3. NothingYet' /\ WithinWindow'
  BY <1>1 DEF NothingYet, WithinWindow, LandedBy, Below, Within
<1>4. checkpoint' = checkpoint \/ (checkpoint' = to[r] /\ to[r] # None)
  BY DEF MetricPushOperator, SaveCheckpoint, MetricFails, Upserted
<1>5. /\ checkpoint \in OffsetMap \cup {None} /\ from[r] \in OffsetMap \cup {None}
      /\ \A q \in Runs : to[q] \in OffsetMap \cup {None}
  BY DEF IInv, TypeOK
<1>6. ASSUME NEW q \in Runs, Saved(q) PROVE AtMost(to[q], checkpoint')
  <2>1. AtMost(to[q], checkpoint) /\ to[q] \in OffsetMap
    BY <1>5, <1>6 DEF SavedIsBelow, Saved
  <2>2. checkpoint \in OffsetMap /\ checkpoint # None
    BY <1>5, <2>1 DEF AtMost
  <2>3. to[r] # None => AtMost(checkpoint, to[r])
    BY <1>1, <2>2 DEF CapturedIsAhead
  <2>4. QED
    BY <1>4, <1>5, <2>1, <2>2, <2>3, AtMostTransitive
<1>7. SavedIsBelow'
  <2> SUFFICES ASSUME NEW q \in Runs, Saved(q)', ~Saved(q)
               PROVE  AtMost(to[q], checkpoint')
    BY <1>1, <1>6 DEF SavedIsBelow, AtMost
  <2>1. q = r /\ pc'[r] = "done" /\ to[r] # None
    BY <1>1 DEF Saved
  <2>2. checkpoint' = to[r]
    BY <2>1 DEF MetricPushOperator, SaveCheckpoint, MetricFails, Fail, Upserted, IInv, TypeOK
  <2>3. QED
    BY <1>5, <2>1, <2>2, AtMostItself
<1>8. SavedBeforeActive'
  BY <1>1, <1>2 DEF SavedBeforeActive, Saved, AtMost, Active
<1>9. CapturedIsAhead'
  <2> SUFFICES ASSUME pc'[r] = "metric", to[r] # None, checkpoint' # None
               PROVE  AtMost(checkpoint', to[r])
    <3>1. ASSUME NEW s \in Runs \ {r} PROVE pc'[s] \notin {"spark", "spark.write", "metric"}
      BY <1>2 DEF Active, IInv, TypeOK
    <3>2. QED
      BY <1>1, <3>1 DEF CapturedIsAhead, AtMost
  <2>1. QED
    BY <1>1, <1>4, <1>5, AtMostItself DEF CapturedIsAhead
<1>10. SavedAreOrdered'
  <2>1. ASSUME NEW q \in Runs, q # r, Saved(q) PROVE AtMost(to[q], from[r])
    BY <1>1, <2>1 DEF SavedBeforeActive, Active
  <2>2. QED
    BY <1>1, <2>1 DEF SavedAreOrdered, Saved, AtMost
<1>11. QED
  BY <1>2, <1>3, <1>7, <1>8, <1>9, <1>10

LEMMA NextSerial ==
    ASSUME MaxActive = 1, IInv, SerialInv, [Next]_vars
    PROVE  SerialInv'
<1>1. CASE Broker \/ UNCHANGED vars
  BY <1>1, SerialFrame DEF Broker, Produce, Expire, AddPartition, vars
<1>2. ASSUME NEW r \in Runs,
             Trigger(r) \/ InitOperator(r) \/ SparkRunOperator(r) \/ MetricPushOperator(r)
      PROVE  SerialInv'
  BY <1>2, TriggerSerial, InitOperatorSerial, SparkRunSerial, MetricPushSerial DEF IInv
<1>3. QED
  BY <1>1, <1>2 DEF Next

LEMMA SerialInvMeansNoDuplicates ==
    ASSUME IInv, SerialInv
    PROVE  NoDuplicates
<1>1. ASSUME NEW r \in Runs, NEW s \in Runs, Saved(r), Saved(s), AtMost(to[r], from[s]),
             NEW m \in LandedBy(r), m \in LandedBy(s)
      PROVE  FALSE
  <2>1. m[1] \in DOMAIN to[r] /\ m[2] < to[r][m[1]] /\ Within(s, m[1], m[2])
    BY <1>1 DEF SerialInv, WithinWindow, Below, Saved
  <2>2. from[s] # None /\ m[1] \in DOMAIN from[s]
        /\ to[r][m[1]] <= from[s][m[1]] /\ from[s][m[1]] <= m[2]
    BY <1>1, <2>1 DEF AtMost, Within
  <2>3. to[r] \in OffsetMap /\ from[s] \in OffsetMap
    BY <1>1, <2>2 DEF IInv, TypeOK, Saved
  <2>4. to[r][m[1]] \in Nat /\ from[s][m[1]] \in Nat
    BY <2>1, <2>2, <2>3, OffsetMapFacts DEF Offset
  <2>5. m[2] \in Nat
    BY <1>1 DEF LandedBy, IInv, TypeOK, SinkRecord, Message, Offset
  <2>6. QED
    BY <2>1, <2>2, <2>4, <2>5
<1>2. QED
  BY <1>1 DEF SerialInv, SavedAreOrdered, Saved, NoDuplicates

(***************************************************************************)
(* With one run at a time the windows are ordered, whatever else happens.  *)
(***************************************************************************)
THEOREM SerialInvariance ==
    ASSUME MaxActive = 1
    PROVE  Spec => []SerialInv
<1>1. Init => SerialInv
  BY DEF Init, SerialInv, OneAtATime, NothingYet, WithinWindow, SavedIsBelow, SavedBeforeActive,
         CapturedIsAhead, SavedAreOrdered, Saved, Active, LandedBy
<1>2. IInv /\ SerialInv /\ [Next]_vars => SerialInv'
  BY NextSerial
<1>3. QED
  BY <1>1, <1>2, Invariance, PTL DEF Spec

(***************************************************************************)
(* "No duplicates": with one run at a time, two runs that captured their   *)
(* end offsets and ended well landed no message twice.                     *)
(***************************************************************************)
THEOREM SerialRunsShareNothing ==
    ASSUME MaxActive = 1
    PROVE  Spec => []NoDuplicates
<1>1. IInv /\ SerialInv => NoDuplicates
  BY SerialInvMeansNoDuplicates
<1>2. QED
  BY <1>1, Invariance, SerialInvariance, PTL

LEMMA CheckpointStep ==
    ASSUME IInv, SerialInv, [Next]_vars, checkpoint' # checkpoint, checkpoint # None
    PROVE  AtMost(checkpoint, checkpoint')
<1>1. PICK r \in Runs : MetricPushOperator(r)
  BY DEF Next, vars, Broker, Produce, Expire, AddPartition, Trigger, InitOperator, RejectSource,
         FetchFrom, CaptureOffsets, InitFails, SparkRunOperator, ReadSource, ReadRefused,
         WriteSink, SparkFails
<1>2. pc[r] = "metric" /\ to[r] # None /\ checkpoint' = to[r]
  BY <1>1 DEF MetricPushOperator, SaveCheckpoint, MetricFails, Upserted
<1>3. QED
  BY <1>2 DEF SerialInv, CapturedIsAhead, AtMost

(***************************************************************************)
(* The unconditional upsert never lowers a saved offset, nor forgets a     *)
(* partition, with one run at a time: what a run captured is ahead of what *)
(* was saved before.                                                       *)
(***************************************************************************)
THEOREM SavedOffsetsGrow ==
    ASSUME MaxActive = 1
    PROVE  Spec => OffsetsNeverMoveBack
<1>1. IInv /\ SerialInv /\ [Next]_vars =>
        [checkpoint # None =>
            /\ checkpoint' # None
            /\ \A p \in DOMAIN checkpoint :
                p \in DOMAIN checkpoint' /\ checkpoint[p] <= checkpoint'[p]]_checkpoint
  BY CheckpointStep DEF AtMost
<1>2. QED
  BY <1>1, Invariance, SerialInvariance, PTL DEF Spec, OffsetsNeverMoveBack

-----------------------------------------------------------------------------
(***************************************************************************)
(* Saved windows are contiguous: until it saves, the one active run holds  *)
(* the checkpoint it fetched, and Spark has read its window only if both   *)
(* ends named the partitions there were.                                   *)
(***************************************************************************)
FromIsSaved ==
    \A r \in Active :
        pc[r] # "init" => \/ from[r] = checkpoint
                          \/ pc[r] = "metric" /\ to[r] # None /\ checkpoint = to[r]

SamePartitions ==
    \A r \in Runs :
        pc[r] \in {"spark.write", "metric"} /\ from[r] # None /\ to[r] # None =>
            DOMAIN from[r] = DOMAIN to[r]

ContiguousInv == FromIsSaved /\ SamePartitions

LEMMA InitOperatorContiguous ==
    ASSUME TypeOK, ContiguousInv, NEW r \in Runs, Trigger(r) \/ InitOperator(r)
    PROVE  ContiguousInv'
<1>1. /\ UNCHANGED checkpoint
      /\ \A s \in Runs \ {r} : pc'[s] = pc[s] /\ from'[s] = from[s] /\ to'[s] = to[s]
      /\ pc'[r] \in {"init", "init.to", "spark", "failed"}
  BY DEF Trigger, InitOperator, RejectSource, FetchFrom, CaptureOffsets, InitFails, Fail, Succeed,
         TypeOK
<1>2. pc'[r] \in {"init.to", "spark"} => from'[r] = checkpoint
  <2>1. CASE FetchFrom(r)
    BY <2>1 DEF FetchFrom, TypeOK
  <2>2. CASE CaptureOffsets(r)
    BY <2>2 DEF CaptureOffsets, ContiguousInv, FromIsSaved, Active
  <2>3. CASE Trigger(r) \/ RejectSource(r) \/ InitFails(r)
    BY <2>3 DEF Trigger, RejectSource, InitFails, Fail, TypeOK
  <2>4. QED
    BY <2>1, <2>2, <2>3 DEF InitOperator
<1>3. FromIsSaved'
  BY <1>1, <1>2 DEF ContiguousInv, FromIsSaved, Active
<1>4. SamePartitions'
  BY <1>1 DEF ContiguousInv, SamePartitions
<1>5. QED
  BY <1>3, <1>4 DEF ContiguousInv

LEMMA SparkRunContiguous ==
    ASSUME TypeOK, ContiguousInv, NEW r \in Runs, SparkRunOperator(r)
    PROVE  ContiguousInv'
<1>1. /\ UNCHANGED <<checkpoint, from, to>>
      /\ \A s \in Runs \ {r} : pc'[s] = pc[s]
      /\ pc[r] \in {"spark", "spark.write"}
      /\ pc'[r] \in {"spark", "spark.write", "metric", "failed"}
  BY DEF SparkRunOperator, ReadSource, ReadRefused, WriteSink, SparkFails, Fail, Succeed, TypeOK
<1>2. FromIsSaved'
  BY <1>1 DEF ContiguousInv, FromIsSaved, Active
<1>3. SamePartitions'
  <2> SUFFICES ASSUME pc'[r] \in {"spark.write", "metric"}, from[r] # None, to[r] # None
               PROVE  DOMAIN from[r] = DOMAIN to[r]
    BY <1>1 DEF ContiguousInv, SamePartitions
  <2>1. CASE ReadSource(r)
    BY <2>1 DEF ReadSource, Readable
  <2>2. CASE pc[r] = "spark.write"
    BY <2>2 DEF ContiguousInv, SamePartitions
  <2>3. QED
    BY <2>1, <2>2 DEF SparkRunOperator, ReadRefused, WriteSink, SparkFails, Fail, TypeOK
<1>4. QED
  BY <1>2, <1>3 DEF ContiguousInv

LEMMA MetricPushContiguous ==
    ASSUME TypeOK, OneAtATime, ContiguousInv, NEW r \in Runs, MetricPushOperator(r)
    PROVE  ContiguousInv'
<1>1. /\ pc[r] = "metric" /\ pc'[r] \in {"metric", "done", "failed"}
      /\ \A s \in Runs \ {r} : pc'[s] = pc[s]
      /\ UNCHANGED <<from, to>>
      /\ checkpoint' = checkpoint \/ (to[r] # None /\ checkpoint' = to[r])
  BY DEF MetricPushOperator, SaveCheckpoint, MetricFails, Upserted, Fail, Succeed, TypeOK
<1>2. \A s \in Active' : s = r
  BY <1>1, OneActive DEF Active
<1>3. FromIsSaved'
  BY <1>1, <1>2 DEF ContiguousInv, FromIsSaved, Active
<1>4. SamePartitions'
  BY <1>1 DEF ContiguousInv, SamePartitions
<1>5. QED
  BY <1>3, <1>4 DEF ContiguousInv

LEMMA NextContiguous ==
    ASSUME TypeOK, OneAtATime, ContiguousInv, [Next]_vars
    PROVE  ContiguousInv'
<1>1. CASE Broker \/ UNCHANGED vars
  BY <1>1 DEF Broker, Produce, Expire, AddPartition, vars, ContiguousInv, FromIsSaved,
              SamePartitions, Active
<1>2. QED
  BY <1>1, InitOperatorContiguous, SparkRunContiguous, MetricPushContiguous DEF Next

LEMMA SavesContiguous ==
    ASSUME ContiguousInv, [Next]_vars, checkpoint' # checkpoint, checkpoint # None
    PROVE  \E r \in Runs : /\ from[r] = checkpoint /\ to[r] = checkpoint'
                           /\ DOMAIN checkpoint' = DOMAIN checkpoint
<1>1. PICK r \in Runs : MetricPushOperator(r)
  BY DEF Next, vars, Broker, Produce, Expire, AddPartition, Trigger, InitOperator, RejectSource,
         FetchFrom, CaptureOffsets, InitFails, SparkRunOperator, ReadSource, ReadRefused,
         WriteSink, SparkFails
<1>2. pc[r] = "metric" /\ to[r] # None /\ checkpoint' = to[r]
  BY <1>1 DEF MetricPushOperator, SaveCheckpoint, MetricFails, Upserted
<1>3. from[r] = checkpoint
  BY <1>2 DEF ContiguousInv, FromIsSaved, Active
<1>4. QED
  BY <1>2, <1>3 DEF ContiguousInv, SamePartitions

(***************************************************************************)
(* With one run at a time, saved windows follow one another end to end and *)
(* never name other partitions than the first did.                         *)
(***************************************************************************)
THEOREM SavedWindowsFollow ==
    ASSUME MaxActive = 1
    PROVE  Spec => SavedWindowsAreContiguous
<1>1. Init => ContiguousInv
  BY DEF Init, ContiguousInv, FromIsSaved, SamePartitions, Active
<1>2. TypeOK /\ SerialInv /\ ContiguousInv /\ [Next]_vars => ContiguousInv'
  BY NextContiguous DEF SerialInv
<1>3. ContiguousInv /\ [Next]_vars =>
        [checkpoint # None =>
            \E r \in Runs :
                /\ from[r] = checkpoint /\ to[r] = checkpoint'
                /\ DOMAIN checkpoint' = DOMAIN checkpoint]_checkpoint
  BY SavesContiguous
<1>4. QED
  BY <1>1, <1>2, <1>3, TypeCorrect, SerialInvariance, PTL DEF Spec, SavedWindowsAreContiguous

-----------------------------------------------------------------------------
(***************************************************************************)
(* Each partition implements Landing.  The horizon of a partition is the   *)
(* highest end that was captured of it: it exists, since offsets are few,  *)
(* and no message appears below it, since a captured end was the end then. *)
(***************************************************************************)
LEMMA MaxOfOffsets ==
    ASSUME NEW S \in SUBSET Offset, S # {}
    PROVE  Max(S) \in S /\ \A x \in S : x <= Max(S)
<1> DEFINE Above(x) == {y \in Offset : x < y}
           T == {Above(x) : x \in S}
<1>1. IsFiniteSet(Offset)
  BY FS_Interval DEF Offset
<1>2. T \subseteq FiniteSubsetsOf(Offset) /\ T # {}
  <2>1. FiniteSubsetsOf(Offset) = SUBSET Offset
    BY <1>1, FS_FiniteSubsetsOfFinite
  <2>2. \A x \in S : Above(x) \in SUBSET Offset
    OBVIOUS
  <2>3. T \subseteq SUBSET Offset
    BY <2>2
  <2>4. T # {}
    OBVIOUS
  <2>5. QED
    BY <2>1, <2>3, <2>4
<1>3. PICK least \in T : \A U \in T : ~(<<U, least>> \in StrictSubsetOrdering(Offset))
  BY <1>2, FS_StrictSubsetOrderingWellFounded, WFMin
<1>4. PICK top \in S : least = Above(top)
  OBVIOUS
<1>5. ASSUME NEW x \in S, ~(x <= top) PROVE FALSE
  <2>1. top < x
    BY <1>5 DEF Offset
  <2>2. Above(x) \subseteq Above(top)
    BY <2>1 DEF Offset
  <2>3. x \in Above(top) /\ x \notin Above(x)
    BY <2>1 DEF Offset
  <2>4. <<Above(x), Above(top)>> \in StrictSubsetOrdering(Offset)
    BY <2>2, <2>3 DEF StrictSubsetOrdering
  <2>5. QED
    BY <1>3, <1>4, <2>4
<1>6. QED
  BY <1>5 DEF Max, Offset

NotCaptured == \A r \in Runs : pc[r] \in {"idle", "init", "init.to"} => to[r] = None

LEMMA CapturedOnce == TypeOK /\ NotCaptured /\ [Next]_vars => NotCaptured'
<1> SUFFICES ASSUME TypeOK, NotCaptured, [Next]_vars PROVE NotCaptured'
  OBVIOUS
<1> USE DEF NotCaptured, TypeOK
<1>1. CASE Broker \/ UNCHANGED vars
  BY <1>1 DEF Broker, Produce, Expire, AddPartition, vars
<1>2. ASSUME NEW r \in Runs, Trigger(r) \/ InitOperator(r) PROVE NotCaptured'
  BY <1>2 DEF Trigger, InitOperator, RejectSource, FetchFrom, CaptureOffsets, InitFails, Fail,
              Succeed
<1>3. ASSUME NEW r \in Runs, SparkRunOperator(r) \/ MetricPushOperator(r) PROVE NotCaptured'
  BY <1>3 DEF SparkRunOperator, ReadSource, ReadRefused, WriteSink, SparkFails,
              MetricPushOperator, SaveCheckpoint, MetricFails, Fail, Succeed
<1>4. QED
  BY <1>1, <1>2, <1>3 DEF Next

LEMMA HorizonIsCaptured ==
    ASSUME IInv, NEW p \in Partitions
    PROVE  /\ CapturedOf(p) \in SUBSET Offset
           /\ \A x \in CapturedOf(p) : x <= end[p]
           /\ \A x \in CapturedOf(p) : HorizonOf(p) \in Offset /\ x <= HorizonOf(p)
           /\ HorizonOf(p) # None => HorizonOf(p) \in CapturedOf(p)
<1>1. ASSUME NEW r \in Runs, Names(to[r], p) PROVE to[r][p] \in Offset /\ to[r][p] <= end[p]
  <2>1. to[r] \in OffsetMap /\ p \in DOMAIN to[r] /\ Sealed(to[r])
    BY <1>1 DEF Names, IInv, UpperBoundsSealed, TypeOK
  <2>2. QED
    BY <2>1, OffsetMapFacts DEF Sealed
<1>2. CapturedOf(p) \in SUBSET Offset /\ \A x \in CapturedOf(p) : x <= end[p]
  BY <1>1 DEF CapturedOf
<1>3. QED
  BY <1>2, MaxOfOffsets DEF HorizonOf

LEMMA PartitionFrame ==
    ASSUME UNCHANGED <<Available, Landed, checkpoint, to, batch>>, NEW p \in Partitions
    PROVE  UNCHANGED Promise(p)!lvars
  BY DEF Promise!lvars, TableOf, MessagesOf, InFlight, WatermarkOf, HorizonOf, CapturedOf, Names

(***************************************************************************)
(* The broker: a message appears above the horizon, or goes away.          *)
(***************************************************************************)
LEMMA ProduceRefines ==
    ASSUME IInv, NEW p \in Partitions, Produce(p)
    PROVE  Promise(p)!Change(end[p])
<1>1. end[p] \in Offset
  BY DEF Produce, IInv, TypeOK, Offset
<1>2. ASSUME NEW o \in Offset, o # end[p]
      PROVE  <<p, o>> \in Available' <=> <<p, o>> \in Available
  BY <1>1, <1>2 DEF Produce, Available, Message, IInv, TypeOK, Offset
<1>3. TableOf(p)' = [TableOf(p) EXCEPT ![end[p]] = TableOf(p)'[end[p]]]
  BY <1>2 DEF TableOf
<1>4. TableOf(p)'[end[p]] \in {None, end[p] + 1}
  BY <1>1 DEF TableOf
<1>5. ~Promise(p)!AtOrBelow(end[p] + 1, HorizonOf(p))
  <2>1. HorizonOf(p) # None => HorizonOf(p) \in Nat /\ HorizonOf(p) <= end[p]
    BY HorizonIsCaptured DEF Offset
  <2>2. QED
    BY <1>1, <2>1 DEF Promise!AtOrBelow, Offset
<1>6. UNCHANGED <<MessagesOf(p, InFlight), MessagesOf(p, Landed), WatermarkOf(p), HorizonOf(p)>>
  BY DEF Produce, MessagesOf, InFlight, Landed, WatermarkOf, HorizonOf, CapturedOf, Names
<1>7. QED
  BY <1>1, <1>3, <1>4, <1>5, <1>6 DEF Promise!Change, Offset

LEMMA ExpireRefines ==
    ASSUME IInv, NEW p \in Partitions, Expire(p)
    PROVE  Promise(p)!Change(start[p])
<1>1. start[p] \in Offset
  BY DEF IInv, TypeOK
<1>2. ASSUME NEW o \in Offset, o # start[p]
      PROVE  <<p, o>> \in Available' <=> <<p, o>> \in Available
  BY <1>1, <1>2 DEF Expire, Available, Message, IInv, TypeOK, Offset
<1>3. <<p, start[p]>> \notin Available'
  BY <1>1 DEF Expire, Available, Message, IInv, TypeOK, Offset
<1>4. TableOf(p)' = [TableOf(p) EXCEPT ![start[p]] = TableOf(p)'[start[p]]]
  BY <1>2 DEF TableOf
<1>5. TableOf(p)'[start[p]] = None
  BY <1>1, <1>3 DEF TableOf
<1>6. UNCHANGED <<MessagesOf(p, InFlight), MessagesOf(p, Landed), WatermarkOf(p), HorizonOf(p)>>
  BY DEF Expire, MessagesOf, InFlight, Landed, WatermarkOf, HorizonOf, CapturedOf, Names
<1>7. QED
  BY <1>4, <1>5, <1>6 DEF Promise!Change

LEMMA BrokerRefines ==
    ASSUME IInv, Broker, NEW p \in Partitions
    PROVE  (\E o \in Offset : Promise(p)!Change(o)) \/ UNCHANGED Promise(p)!lvars
<1>1. CASE Produce(p)
  BY <1>1, ProduceRefines DEF Produce, IInv, TypeOK, Offset
<1>2. CASE Expire(p)
  BY <1>2, ExpireRefines DEF IInv, TypeOK
<1>3. ASSUME NEW q \in Partitions, q # p, Produce(q) \/ Expire(q)
      PROVE  UNCHANGED Promise(p)!lvars
  <2>1. UNCHANGED <<start[p], end[p], checkpoint, to, batch, sink>>
    BY <1>3 DEF Produce, Expire, IInv, TypeOK
  <2>2. \A o \in Offset : <<p, o>> \in Available' <=> <<p, o>> \in Available
    BY <2>1 DEF Available, Message
  <2>3. QED
    BY <2>1, <2>2 DEF Promise!lvars, TableOf, MessagesOf, InFlight, Landed, WatermarkOf, HorizonOf,
                      CapturedOf, Names
<1>4. ASSUME NEW q \in Partitions, AddPartition(q) PROVE UNCHANGED Promise(p)!lvars
  BY <1>4, PartitionFrame DEF AddPartition, Available, Landed
<1>5. QED
  BY <1>1, <1>2, <1>3, <1>4 DEF Broker

(***************************************************************************)
(* A capture seals the end of a partition that the topic has.              *)
(***************************************************************************)
LEMMA CaptureRefines ==
    ASSUME IInv, NotCaptured, NEW r \in Runs, CaptureOffsets(r), NEW p \in Partitions
    PROVE  Promise(p)!Seal \/ UNCHANGED Promise(p)!lvars
<1>1. to[r] = None
  BY DEF CaptureOffsets, NotCaptured
<1>2. UNCHANGED <<Available, Landed, checkpoint, batch>>
  BY DEF CaptureOffsets, topic, Available, Landed
<1>3. CASE to'[r] # None /\ p \in partitions
  <2>1. to' = [to EXCEPT ![r] = EndOffsets]
    BY <1>3 DEF CaptureOffsets, IInv, TypeOK
  <2>2. CapturedOf(p)' = CapturedOf(p) \cup {end[p]}
    <3>1. ASSUME NEW q \in Runs, q # r PROVE to'[q] = to[q]
      BY <2>1, <3>1 DEF IInv, TypeOK
    <3>2. to'[r][p] = end[p] /\ Names(to'[r], p) /\ ~Names(to[r], p)
      BY <1>1, <1>3, <2>1 DEF EndOffsets, Names, IInv, TypeOK
    <3>3. QED
      BY <3>1, <3>2 DEF CapturedOf
  <2>3. end[p] \in Offset /\ \A x \in CapturedOf(p) : x <= end[p]
    BY HorizonIsCaptured DEF IInv, TypeOK
  <2>4. CapturedOf(p)' \in SUBSET Offset /\ CapturedOf(p)' # {}
    BY <2>2, <2>3, HorizonIsCaptured
  <2>5. HorizonOf(p)' = end[p]
    <3>1. HorizonOf(p)' \in CapturedOf(p)' /\ end[p] <= HorizonOf(p)'
      BY <2>2, <2>4, MaxOfOffsets DEF HorizonOf
    <3>2. QED
      BY <2>2, <2>3, <2>4, <3>1 DEF Offset
  <2>6. CASE HorizonOf(p) = end[p]
    BY <1>2, <2>5, <2>6 DEF Promise!lvars, TableOf, MessagesOf, InFlight, WatermarkOf
  <2>7. CASE HorizonOf(p) # end[p]
    <3>1. ~Promise(p)!AtOrBelow(end[p], HorizonOf(p))
      <4>1. HorizonOf(p) # None =>
              HorizonOf(p) \in Nat /\ HorizonOf(p) <= end[p] /\ end[p] \in Nat
        BY <2>3, HorizonIsCaptured DEF Offset
      <4>2. QED
        BY <2>7, <4>1 DEF Promise!AtOrBelow
    <3>2. UNCHANGED <<TableOf(p), MessagesOf(p, InFlight), MessagesOf(p, Landed), WatermarkOf(p)>>
      BY <1>2 DEF TableOf, MessagesOf, InFlight, WatermarkOf
    <3>3. QED
      BY <2>3, <2>5, <3>1, <3>2 DEF Promise!Seal, Offset
  <2>8. QED
    BY <2>6, <2>7
<1>4. CASE to'[r] = None \/ p \notin partitions
  <2>1. ~Names(to'[r], p) /\ ~Names(to[r], p)
    BY <1>1, <1>4 DEF CaptureOffsets, EndOffsets, Names, IInv, TypeOK
  <2>2. ASSUME NEW q \in Runs, q # r PROVE to'[q] = to[q]
    BY <2>2 DEF CaptureOffsets, IInv, TypeOK
  <2>3. CapturedOf(p)' = CapturedOf(p)
    BY <2>1, <2>2 DEF CapturedOf
  <2>4. QED
    BY <1>2, <2>3 DEF Promise!lvars, TableOf, MessagesOf, InFlight, WatermarkOf, HorizonOf
<1>5. QED
  BY <1>3, <1>4

LEMMA InitOperatorRefines ==
    ASSUME IInv, NotCaptured, NEW r \in Runs, InitOperator(r), NEW p \in Partitions
    PROVE  Promise(p)!Seal \/ UNCHANGED Promise(p)!lvars
<1>1. CASE CaptureOffsets(r)
  BY <1>1, CaptureRefines
<1>2. CASE RejectSource(r) \/ FetchFrom(r) \/ InitFails(r)
  BY <1>2, PartitionFrame DEF RejectSource, FetchFrom, InitFails, topic, Available, Landed
<1>3. QED
  BY <1>1, <1>2 DEF InitOperator

(***************************************************************************)
(* Spark reads messages that are there, and lands some of those in hand.   *)
(***************************************************************************)
LEMMA ReadRefines ==
    ASSUME IInv, NEW r \in Runs, ReadSource(r), NEW p \in Partitions
    PROVE  Promise(p)!Fetch
<1>1. ASSUME NEW m \in InFlight', m \notin InFlight PROVE m \in Available
  <2>1. PICK q \in Runs : m \in batch'[q]
    BY <1>1 DEF InFlight
  <2>2. q = r
    BY <1>1, <2>1 DEF ReadSource, InFlight, IInv, TypeOK
  <2>3. QED
    BY <2>1, <2>2 DEF ReadSource, IInv, TypeOK
<1>2. ASSUME NEW m \in Available, m[1] = p PROVE <<m[2], m[2] + 1>> \in Promise(p)!Current
  <2>1. m[2] \in Offset /\ m[2] + 1 # None /\ m = <<p, m[2]>>
    BY <1>2, NoneAssumption DEF Available, Message, Offset
  <2>2. TableOf(p)[m[2]] = m[2] + 1
    BY <1>2, <2>1 DEF TableOf
  <2>3. QED
    BY <2>1, <2>2 DEF Promise!Current, Promise!Version
<1>3. MessagesOf(p, InFlight)' \subseteq MessagesOf(p, InFlight) \cup Promise(p)!Current
  BY <1>1, <1>2 DEF MessagesOf
<1>4. UNCHANGED <<TableOf(p), MessagesOf(p, Landed), WatermarkOf(p), HorizonOf(p)>>
  BY DEF ReadSource, topic, TableOf, Available, MessagesOf, Landed, WatermarkOf, HorizonOf,
         CapturedOf, Names
<1>5. QED
  BY <1>3, <1>4 DEF Promise!Fetch

LEMMA AppendRefines ==
    ASSUME IInv, NEW r \in Runs, NEW part \in SUBSET batch[r], Append(r, part),
           batch' = [batch EXCEPT ![r] = {}], UNCHANGED <<topic, checkpoint, to>>,
           NEW p \in Partitions
    PROVE  Promise(p)!Land
<1>1. Landed' = Landed \cup part /\ part \subseteq InFlight
  BY AppendLands DEF InFlight
<1>2. InFlight' \subseteq InFlight
  BY DEF InFlight, IInv, TypeOK
<1>3. /\ MessagesOf(p, Landed) \subseteq MessagesOf(p, Landed)'
      /\ MessagesOf(p, Landed)' \subseteq MessagesOf(p, Landed) \cup MessagesOf(p, InFlight)
      /\ MessagesOf(p, InFlight)' \subseteq MessagesOf(p, InFlight)
  BY <1>1, <1>2 DEF MessagesOf
<1>4. UNCHANGED <<TableOf(p), WatermarkOf(p), HorizonOf(p)>>
  BY DEF topic, TableOf, Available, WatermarkOf, HorizonOf, CapturedOf, Names
<1>5. QED
  BY <1>3, <1>4 DEF Promise!Land

LEMMA SparkRunRefines ==
    ASSUME IInv, NEW r \in Runs, SparkRunOperator(r), NEW p \in Partitions
    PROVE  Promise(p)!Fetch \/ Promise(p)!Land \/ UNCHANGED Promise(p)!lvars
<1>1. CASE ReadSource(r)
  BY <1>1, ReadRefines
<1>2. CASE ReadRefused(r)
  BY <1>2, PartitionFrame DEF ReadRefused, topic, Available, Landed
<1>3. CASE WriteSink(r)
  BY <1>3, AppendRefines DEF WriteSink
<1>4. CASE SparkFails(r)
  BY <1>4, AppendRefines DEF SparkFails
<1>5. QED
  BY <1>1, <1>2, <1>3, <1>4 DEF SparkRunOperator

(***************************************************************************)
(* The offsets that are saved, if they name the partition, are sealed and  *)
(* complete; if they do not, its watermark is gone.                        *)
(***************************************************************************)
LEMMA SaveRefines ==
    ASSUME IInv, NEW r \in Runs, MetricPushOperator(r), NEW p \in Partitions
    PROVE  Promise(p)!Advance \/ Promise(p)!Withdraw \/ UNCHANGED Promise(p)!lvars
<1>1. pc[r] = "metric" /\ UNCHANGED <<Available, Landed, to, batch>>
  BY DEF MetricPushOperator, SaveCheckpoint, MetricFails, topic, Available, Landed
<1>2. UNCHANGED <<TableOf(p), MessagesOf(p, InFlight), MessagesOf(p, Landed), HorizonOf(p)>>
  BY <1>1 DEF TableOf, MessagesOf, InFlight, HorizonOf, CapturedOf, Names
<1>3. CASE UNCHANGED checkpoint
  BY <1>1, <1>3, PartitionFrame
<1>4. CASE to[r] # None /\ checkpoint' = to[r] /\ ~Names(to[r], p)
  <2>1. WatermarkOf(p)' = None
    BY <1>4 DEF WatermarkOf
  <2>2. QED
    BY <1>2, <2>1 DEF Promise!Withdraw
<1>5. CASE to[r] # None /\ checkpoint' = to[r] /\ Names(to[r], p)
  <2>1. WatermarkOf(p)' = to[r][p] /\ to[r][p] \in CapturedOf(p)
    BY <1>5 DEF WatermarkOf, CapturedOf
  <2>2. to[r][p] \in Nat /\ Promise(p)!AtOrBelow(to[r][p], HorizonOf(p))
    BY <2>1, HorizonIsCaptured, NoneAssumption DEF Promise!AtOrBelow, Offset
  <2>3. ASSUME NEW o \in Offset, TableOf(p)[o] # None, TableOf(p)[o] <= to[r][p]
        PROVE  <<o, TableOf(p)[o]>> \in MessagesOf(p, Landed)
    <3>1. <<p, o>> \in Available /\ TableOf(p)[o] = o + 1
      BY <2>3 DEF TableOf
    <3>2. Below(to[r], <<p, o>>)
      BY <1>5, <2>2, <2>3, <3>1 DEF Below, Names, Offset
    <3>3. <<p, o>> \in Landed
      BY <1>1, <1>5, <3>1, <3>2 DEF IInv, WindowLanded, Covered
    <3>4. QED
      BY <3>1, <3>3 DEF MessagesOf
  <2>4. Promise(p)!Complete(to[r][p])
    BY <2>3 DEF Promise!Complete, Promise!Version
  <2>5. QED
    BY <1>2, <2>1, <2>2, <2>4 DEF Promise!Advance
<1>6. QED
  BY <1>3, <1>4, <1>5 DEF MetricPushOperator, SaveCheckpoint, MetricFails, Upserted

LEMMA PartitionStep ==
    ASSUME IInv, NotCaptured, [Next]_vars, NEW p \in Partitions
    PROVE  [Promise(p)!LNext]_(Promise(p)!lvars)
<1>1. CASE Broker
  BY <1>1, BrokerRefines DEF Promise!LNext
<1>2. ASSUME NEW r \in Runs, Trigger(r) PROVE UNCHANGED Promise(p)!lvars
  BY <1>2, PartitionFrame DEF Trigger, topic, Available, Landed
<1>3. ASSUME NEW r \in Runs, InitOperator(r) \/ SparkRunOperator(r) \/ MetricPushOperator(r)
      PROVE  [Promise(p)!LNext]_(Promise(p)!lvars)
  BY <1>3, InitOperatorRefines, SparkRunRefines, SaveRefines DEF Promise!LNext
<1>4. CASE UNCHANGED vars
  BY <1>4, PartitionFrame DEF vars, topic, Available, Landed
<1>5. QED
  BY <1>1, <1>2, <1>3, <1>4 DEF Next

LEMMA PartitionInit ==
    ASSUME Init, NEW p \in Partitions
    PROVE  Promise(p)!LInit
<1>1. Available = {} /\ Landed = {} /\ InFlight = {}
  BY DEF Init, Available, Message, Offset, Landed, InFlight
<1>2. CapturedOf(p) = {} /\ WatermarkOf(p) = None
  BY DEF Init, CapturedOf, Names, WatermarkOf
<1>3. QED
  BY <1>1, <1>2 DEF Promise!LInit, TableOf, MessagesOf, HorizonOf

LEMMA CaptureInvariance == Spec => []NotCaptured
<1>1. Init => NotCaptured
  BY DEF Init, NotCaptured
<1>2. QED
  BY <1>1, CapturedOnce, TypeCorrect, PTL DEF Spec

(***************************************************************************)
(* Each partition of the topic keeps the promise of Landing, with any      *)
(* overlap of runs, any faults and a broker that drops what is old.        *)
(***************************************************************************)
THEOREM KafkaImplementsLanding == Spec => PartitionsImplementLanding
<1>1. Init => \A p \in Partitions : Promise(p)!LInit
  BY PartitionInit
<1>2. IInv /\ NotCaptured /\ [Next]_vars =>
        [\A p \in Partitions : [Promise(p)!LNext]_(Promise(p)!lvars)]_vars
  BY PartitionStep
<1>3. QED
  BY <1>1, <1>2, Invariance, CaptureInvariance, PTL DEF Spec, PartitionsImplementLanding

(***************************************************************************)
(* The same as a theorem about one partition, in the form of Landing's own *)
(* specification, so that what Landing_proofs shows of it applies.         *)
(***************************************************************************)
THEOREM EachPartitionImplementsLanding ==
    ASSUME NEW p \in Partitions
    PROVE  Spec => Promise(p)!LSpec
<1>1. Init => Promise(p)!LInit
  BY PartitionInit
<1>2. IInv /\ NotCaptured /\ [Next]_vars => [Promise(p)!LNext]_(Promise(p)!lvars)
  BY PartitionStep
<1>3. QED
  BY <1>1, <1>2, Invariance, CaptureInvariance, PTL DEF Spec, Promise!LSpec

=============================================================================
