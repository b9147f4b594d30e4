---------------------------- MODULE KafkaWindow ----------------------------
(***************************************************************************)
(* The offset windows of a Kafka source: InitOperator._max_kafka captures  *)
(* the end offsets of the topic, SourceKafkaAdapter reads between the      *)
(* saved offsets and those, and they are saved in turn.                    *)
(*                                                                         *)
(* The repository has both halves and unit tests of both, but as it stands *)
(* SinkConfigFactory rejects a Kafka source before either is reached: that *)
(* is `accepted` = FALSE.  With TRUE the module is about the promise the   *)
(* two halves make together: "deterministic, gapless, no duplicates".  The *)
(* operators around them are those of the other sources, in less detail:   *)
(* no events, and no failing MAX query but that of Kafka.                  *)
(*                                                                         *)
(* Meanwhile the topic grows at its end, retention removes its oldest      *)
(* messages, and partitions are added.                                     *)
(***************************************************************************)
EXTENDS Naturals, FiniteSetsExt

CONSTANTS
    Partitions,  \* partitions the topic may come to have
    Runs,        \* the DAG runs
    MaxActive,   \* Airflow's max_active_runs for the DAG
    Retries,     \* "retries" of the DAG's default_args
    MaxOffset,   \* bound: messages per partition
    MaxFaults,   \* bound: faults of the environment
    None

ASSUME NoneAssumption == None \notin Nat
ASSUME OffsetAssumption == MaxOffset \in Nat
ASSUME RetriesAssumption == Retries \in Nat
ASSUME MaxFaultsAssumption == MaxFaults \in Nat

VARIABLES
    accepted,    \* does SinkConfigFactory take a Kafka source? never changes
    partitions,  \* partitions the topic has
    start, end,  \* partition -> its first offset, and the one after its last
    checkpoint,  \* the DAG's row in public.checkpoints: offsets, or None
    pc,          \* run -> the step it is at
    tries,       \* run -> retries its current task has used
    from, to,    \* run -> the offsets in its RunContext, or None
    batch,       \* run -> messages the DataFrame holds
    sink,        \* records under the sink's root path
    faults

topic == <<partitions, start, end>>
vars == <<accepted, topic, checkpoint, pc, tries, from, to, batch, sink, faults>>

Offset == 0..MaxOffset
Message == Partitions \X Offset
SinkRecord == [run : Runs, message : Message]

(***************************************************************************)
(* The JSON offset map of Spark: each partition it names has an offset.    *)
(***************************************************************************)
OffsetMap == UNION {[named -> Offset] : named \in (SUBSET Partitions) \ {{}}}

Ended == {"done", "failed"}
Steps == {"idle", "init", "init.to", "spark", "spark.write", "metric"} \cup Ended
Active == {r \in Runs : pc[r] \notin {"idle"} \cup Ended}

Init ==
    /\ accepted \in BOOLEAN
    /\ partitions \in (SUBSET Partitions) \ {{}}
    /\ start = [p \in Partitions |-> 0]
    /\ end = [p \in Partitions |-> 0]
    /\ checkpoint = None
    /\ pc = [r \in Runs |-> "idle"]
    /\ tries = [r \in Runs |-> 0]
    /\ from = [r \in Runs |-> None]
    /\ to = [r \in Runs |-> None]
    /\ batch = [r \in Runs |-> {}]
    /\ sink = {}
    /\ faults = 0

-----------------------------------------------------------------------------
(***************************************************************************)
(* The broker.                                                             *)
(***************************************************************************)
Produce(p) ==
    /\ p \in partitions
    /\ end[p] < MaxOffset
    /\ end' = [end EXCEPT ![p] = @ + 1]
    /\ UNCHANGED <<accepted, partitions, start, checkpoint, pc, tries, from, to, batch, sink, faults>>

Expire(p) ==
    /\ start[p] < end[p]
    /\ start' = [start EXCEPT ![p] = @ + 1]
    /\ UNCHANGED <<accepted, partitions, end, checkpoint, pc, tries, from, to, batch, sink, faults>>

AddPartition(p) ==
    /\ p \notin partitions
    /\ partitions' = partitions \cup {p}
    /\ UNCHANGED <<accepted, start, end, checkpoint, pc, tries, from, to, batch, sink, faults>>

-----------------------------------------------------------------------------
Succeed(r, next) ==
    /\ pc' = [pc EXCEPT ![r] = next]
    /\ tries' = [tries EXCEPT ![r] = 0]

Fail_MutantOneTooMany(r, begin) ==
    \/ /\ tries[r] <= Retries
       /\ tries' = [tries EXCEPT ![r] = @ + 1]
       /\ pc' = [pc EXCEPT ![r] = begin]
    \/ /\ tries[r] > Retries
       /\ pc' = [pc EXCEPT ![r] = "failed"]
       /\ UNCHANGED tries

(***************************************************************************)
(* Airflow runs a failed task again from its start, or fails the run.      *)
(***************************************************************************)
Fail(r, begin) ==
    \/ /\ tries[r] < Retries
       /\ tries' = [tries EXCEPT ![r] = @ + 1]
       /\ pc' = [pc EXCEPT ![r] = begin]
    \/ /\ tries[r] >= Retries
       /\ pc' = [pc EXCEPT ![r] = "failed"]
       /\ UNCHANGED tries

Fault == faults < MaxFaults /\ faults' = faults + 1

Trigger_MutantUnlimited(r) ==
    /\ pc[r] = "idle"
    /\ pc' = [pc EXCEPT ![r] = "init"]
    /\ UNCHANGED <<accepted, topic, checkpoint, tries, from, to, batch, sink, faults>>

Trigger(r) ==
    /\ pc[r] = "idle"
    /\ Cardinality(Active) < MaxActive
    /\ pc' = [pc EXCEPT ![r] = "init"]
    /\ UNCHANGED <<accepted, topic, checkpoint, tries, from, to, batch, sink, faults>>

(***************************************************************************)
(* SinkConfigFactory._validate takes a table or a path source config and   *)
(* raises TypeError for any other, whatever the environment does.          *)
(***************************************************************************)
RejectSource(r) ==
    /\ pc[r] = "init"
    /\ ~accepted
    /\ Fail(r, "init")
    /\ UNCHANGED <<accepted, topic, checkpoint, from, to, batch, sink, faults>>

(***************************************************************************)
(* The offsets are JSON text in the checkpoint row: _parse_checkpoint      *)
(* takes it neither for a number nor for a date, and returns it as it is.  *)
(***************************************************************************)
FetchFrom(r) ==
    /\ pc[r] = "init"
    /\ accepted
    /\ from' = [from EXCEPT ![r] = checkpoint]
    /\ pc' = [pc EXCEPT ![r] = "init.to"]
    /\ UNCHANGED <<accepted, topic, checkpoint, tries, to, batch, sink, faults>>

(***************************************************************************)
(* _max_kafka: end_offsets of the partitions the topic has.                *)
(***************************************************************************)
EndOffsets == [p \in partitions |-> end[p]]

(***************************************************************************)
(* A failing _max_kafka is logged, and leaves checkpoint_to None.          *)
(***************************************************************************)
CaptureOffsets(r) ==
    /\ pc[r] = "init.to"
    /\ \/ to' = [to EXCEPT ![r] = EndOffsets] /\ UNCHANGED faults
       \/ to' = [to EXCEPT ![r] = None] /\ Fault
    /\ Succeed(r, "spark")
    /\ UNCHANGED <<accepted, topic, checkpoint, from, batch, sink>>

InitFails(r) ==
    /\ pc[r] \in {"init", "init.to"}
    /\ from' = [from EXCEPT ![r] = None]
    /\ Fail(r, "init")
    /\ Fault
    /\ UNCHANGED <<accepted, topic, checkpoint, to, batch, sink>>

-----------------------------------------------------------------------------
Readable_MutantNewFromEarliest(offsets) == offsets # None => DOMAIN offsets \subseteq partitions

(***************************************************************************)
(* What Spark makes of startingOffsets or endingOffsets: "earliest" or     *)
(* "latest" always work, a map must name every partition of the topic.     *)
(***************************************************************************)
Readable(offsets) == offsets # None => DOMAIN offsets = partitions

Within_MutantExclusiveStart(r, p, o) ==
    /\ from[r] # None /\ p \in DOMAIN from[r] => from[r][p] < o
    /\ to[r] # None /\ p \in DOMAIN to[r] => o < to[r][p]

Within_MutantInclusiveEnd(r, p, o) ==
    /\ from[r] # None /\ p \in DOMAIN from[r] => from[r][p] <= o
    /\ to[r] # None /\ p \in DOMAIN to[r] => o <= to[r][p]

(***************************************************************************)
(* The window of run r.                                                    *)
(***************************************************************************)
Within(r, p, o) ==
    /\ from[r] # None /\ p \in DOMAIN from[r] => from[r][p] <= o
    /\ to[r] # None /\ p \in DOMAIN to[r] => o < to[r][p]

Available == {m \in Message : start[m[1]] <= m[2] /\ m[2] < end[m[1]]}

(***************************************************************************)
(* failOnDataLoss is "false": offsets of the window that retention has     *)
(* removed are passed over.                                                *)
(***************************************************************************)
ReadSource(r) ==
    /\ pc[r] = "spark"
    /\ Readable(from[r]) /\ Readable(to[r])
    /\ batch' = [batch EXCEPT ![r] = {m \in Available : Within(r, m[1], m[2])}]
    /\ pc' = [pc EXCEPT ![r] = "spark.write"]
    /\ UNCHANGED <<accepted, topic, checkpoint, tries, from, to, sink, faults>>

ReadRefused_MutantDataLoss(r) ==
    /\ pc[r] = "spark"
    /\ \/ ~Readable(from[r]) \/ ~Readable(to[r])
       \/ from[r] # None /\ \E p \in DOMAIN from[r] : from[r][p] < start[p]
    /\ Fail(r, "spark")
    /\ UNCHANGED <<accepted, topic, checkpoint, from, to, batch, sink, faults>>

ReadRefused(r) ==
    /\ pc[r] = "spark"
    /\ ~Readable(from[r]) \/ ~Readable(to[r])
    /\ Fail(r, "spark")
    /\ UNCHANGED <<accepted, topic, checkpoint, from, to, batch, sink, faults>>

Append(r, messages) == sink' = sink \cup {[run |-> r, message |-> m] : m \in messages}

WriteSink(r) ==
    /\ pc[r] = "spark.write"
    /\ Append(r, batch[r])
    /\ batch' = [batch EXCEPT ![r] = {}]
    /\ Succeed(r, "metric")
    /\ UNCHANGED <<accepted, topic, checkpoint, from, to, faults>>

(***************************************************************************)
(* As for a table: any part of the batch may have been written.            *)
(***************************************************************************)
SparkFails(r) ==
    /\ pc[r] \in {"spark", "spark.write"}
    /\ \E part \in SUBSET batch[r] : Append(r, part)
    /\ batch' = [batch EXCEPT ![r] = {}]
    /\ Fail(r, "spark")
    /\ Fault
    /\ UNCHANGED <<accepted, topic, checkpoint, from, to>>

-----------------------------------------------------------------------------
Upserted(r) == checkpoint' = IF to[r] # None THEN to[r] ELSE checkpoint

SaveCheckpoint(r) ==
    /\ pc[r] = "metric"
    /\ Upserted(r)
    /\ Succeed(r, "done")
    /\ UNCHANGED <<accepted, topic, from, to, batch, sink, faults>>

MetricFails(r) ==
    /\ pc[r] = "metric"
    /\ Upserted(r) \/ UNCHANGED checkpoint
    /\ Fail(r, "metric")
    /\ Fault
    /\ UNCHANGED <<accepted, topic, from, to, batch, sink>>

-----------------------------------------------------------------------------
Broker == \E p \in Partitions : Produce(p) \/ Expire(p) \/ AddPartition(p)
InitOperator(r) == RejectSource(r) \/ FetchFrom(r) \/ CaptureOffsets(r) \/ InitFails(r)
SparkRunOperator(r) == ReadSource(r) \/ ReadRefused(r) \/ WriteSink(r) \/ SparkFails(r)
MetricPushOperator(r) == SaveCheckpoint(r) \/ MetricFails(r)

Next ==
    \/ Broker
    \/ \E r \in Runs :
        Trigger(r) \/ InitOperator(r) \/ SparkRunOperator(r) \/ MetricPushOperator(r)

Spec == Init /\ [][Next]_vars

-----------------------------------------------------------------------------
(***************************************************************************)
(* Offsets are maps over some partitions, a batch holds messages.          *)
(***************************************************************************)
TypeOK ==
    /\ accepted \in BOOLEAN
    /\ partitions \in (SUBSET Partitions) \ {{}}
    /\ start \in [Partitions -> Offset] /\ end \in [Partitions -> Offset]
    /\ checkpoint \in OffsetMap \cup {None}
    /\ pc \in [Runs -> Steps]
    /\ tries \in [Runs -> 0..Retries]
    /\ from \in [Runs -> OffsetMap \cup {None}]
    /\ to \in [Runs -> OffsetMap \cup {None}]
    /\ batch \in [Runs -> SUBSET Message]
    /\ sink \subseteq SinkRecord
    /\ faults \in 0..MaxFaults

Landed == {rec.message : rec \in sink}

(***************************************************************************)
(* "Gapless": each message below the saved offsets that the broker still   *)
(* has is in the sink, although no run will ask for it again: also the     *)
(* first ones of a partition that was added.                               *)
(***************************************************************************)
Gapless ==
    checkpoint # None =>
        \A m \in Available :
            m[1] \in DOMAIN checkpoint /\ m[2] < checkpoint[m[1]] => m \in Landed

(***************************************************************************)
(* "No duplicates", for runs that follow one another: two of them that     *)
(* captured their end offsets and end well land no message twice.          *)
(***************************************************************************)
LandedBy(r) == {rec.message : rec \in {x \in sink : x.run = r}}

NoDuplicates ==
    \A r, s \in Runs :
        r # s /\ pc[r] = "done" /\ pc[s] = "done" /\ to[r] # None /\ to[s] # None
            => LandedBy(r) \cap LandedBy(s) = {}

(***************************************************************************)
(* Each partition of the topic by itself keeps the promise of Landing: its *)
(* messages are the rows, the message at offset o with the value o + 1, so *)
(* that end offsets, which are exclusive, serve as bounds.  With runs that *)
(* overlap, offsets saved later may name fewer partitions: those of the    *)
(* others are withdrawn.                                                   *)
(***************************************************************************)
MessagesOf(p, messages) == {<<m[2], m[2] + 1>> : m \in {x \in messages : x[1] = p}}
InFlight == UNION {batch[r] : r \in Runs}
TableOf(p) == [o \in Offset |-> IF <<p, o>> \in Available THEN o + 1 ELSE None]
Names(offsets, p) == offsets # None /\ p \in DOMAIN offsets
WatermarkOf(p) == IF Names(checkpoint, p) THEN checkpoint[p] ELSE None
CapturedOf(p) == {to[r][p] : r \in {x \in Runs : Names(to[x], p)}}
HorizonOf(p) == IF CapturedOf(p) = {} THEN None ELSE Max(CapturedOf(p))

Promise(p) == INSTANCE Landing WITH
    Rows <- Offset,
    MayWithdraw <- TRUE,
    table <- TableOf(p),
    fetched <- MessagesOf(p, InFlight),
    landed <- MessagesOf(p, Landed),
    watermark <- WatermarkOf(p),
    sealed <- HorizonOf(p),
    late <- {}

PartitionsImplementLanding ==
    /\ \A p \in Partitions : Promise(p)!LInit
    /\ [][\A p \in Partitions : [Promise(p)!LNext]_(Promise(p)!lvars)]_vars

(***************************************************************************)
(* With one run at a time the saved offsets never move back, and no saved  *)
(* partition is forgotten, although the upsert compares nothing.           *)
(***************************************************************************)
OffsetsNeverMoveBack ==
    [][checkpoint # None =>
        /\ checkpoint' # None
        /\ \A p \in DOMAIN checkpoint :
            p \in DOMAIN checkpoint' /\ checkpoint[p] <= checkpoint'[p]]_checkpoint

(***************************************************************************)
(* With one run at a time a saved window begins where the one saved before *)
(* it ended, whatever failed in between, and over the same partitions: so  *)
(* once the topic has a partition that the saved offsets do not name, no   *)
(* run of the DAG saves again.                                             *)
(***************************************************************************)
SavedWindowsAreContiguous ==
    [][checkpoint # None =>
        \E r \in Runs :
            /\ from[r] = checkpoint /\ to[r] = checkpoint'
            /\ DOMAIN checkpoint' = DOMAIN checkpoint]_checkpoint

(***************************************************************************)
(* What the configuration of the Kafka demonstration pipeline says, that   *)
(* it "lands the raw messages": without a fault of the environment no run  *)
(* fails before it has the window that Spark is to read.                   *)
(***************************************************************************)
ReachesTheSource ==
    faults = 0 => \A r \in Runs : pc[r] = "failed" => to[r] # None

(***************************************************************************)
(* Without a fault of the environment a run fails only if the topic got a  *)
(* partition that one end of its window does not name; never because the   *)
(* topic is idle or retention was faster than the runs.                    *)
(***************************************************************************)
OnlyGrowthFailsRuns ==
    faults = 0 /\ accepted =>
        \A r \in Runs : pc[r] = "failed" => ~Readable(from[r]) \/ ~Readable(to[r])

=============================================================================
