------------------------ MODULE IngestionProperties ------------------------
(***************************************************************************)
(* What IngestionPipeline is expected to satisfy.                          *)
(***************************************************************************)
EXTENDS IngestionPipeline

(***************************************************************************)
(* The variables have their types: the checkpoint row holds a number or is *)
(* absent, a batch holds versions, the sink only records of known runs.    *)
(***************************************************************************)
TypeOK ==
    /\ table \in [Rows -> Value]
    /\ checkpoint \in Value
    /\ pc \in [Runs -> Steps]
    /\ tries \in [Runs -> Nat]
    /\ from \in [Runs -> Value]
    /\ to \in [Runs -> Value]
    /\ batch \in [Runs -> SUBSET Versions]
    /\ sink \subseteq SinkRecord
    /\ metrics \subseteq Event
    /\ faults \in Nat
    /\ horizon \in Value
    /\ late \subseteq Versions
    /\ fresh \in [Runs -> SUBSET Rows]

-----------------------------------------------------------------------------
(***************************************************************************)
(* Every version in the source at or below c is in the sink, but for the   *)
(* late ones: committed at or below a checkpoint_to after its capture.     *)
(***************************************************************************)
OnTime(row) == row \in Present /\ Version(row) \notin late

Covered(c) ==
    \A row \in Rows : OnTime(row) /\ table[row] <= c => Version(row) \in LandedVersions

(***************************************************************************)
(* The saved checkpoint leaves no gap: since the next run reads only above *)
(* it, whatever is at or below it and on time has been landed, by whatever *)
(* interleaving of runs, retries and crashes it came to be saved.          *)
(***************************************************************************)
NoGap == checkpoint # None => Covered(checkpoint)

(***************************************************************************)
(* A "success" event is truthful: the window of its run is in the sink     *)
(* when the event is in the queue, also when the run fails afterwards      *)
(* (MetricPushOperator publishes before it saves).                         *)
(***************************************************************************)
SuccessIsTruthful ==
    \A r \in Runs :
        [run |-> r, status |-> "success"] \in metrics /\ to[r] # None => Covered(to[r])

(***************************************************************************)
(* When the write of a run succeeds, what the run set out to land is in    *)
(* the sink: each row that was there when the run captured checkpoint_to,  *)
(* unless the row has changed since or was late.                           *)
(***************************************************************************)
SnapshotLanded ==
    [][\A r \in Runs :
        pc[r] = "spark.write" /\ pc'[r] = "metric" =>
            \A row \in fresh[r] : OnTime(row) => Version(row) \in LandedVersions']_vars

(***************************************************************************)
(* The checkpoint row vouches for a run whose completion event is in the   *)
(* queue: publish comes first, and raises when SQS or Redis refuse.        *)
(***************************************************************************)
SavedIsPublished ==
    checkpoint # None =>
        \E r \in Runs :
            to[r] = checkpoint /\ [run |-> r, status |-> "success"] \in metrics

(***************************************************************************)
(* Nothing withdraws a saved checkpoint: not an empty table, whose MAX is  *)
(* NULL, nor a MAX that failed.  And although the upsert compares nothing, *)
(* it moves back only behind the save of another run: no run that fetched  *)
(* the checkpoint it replaces saves a lower one (for a source that does    *)
(* not delete).                                                            *)
(***************************************************************************)
BackOnlyByOverlap ==
    [][checkpoint # None =>
        /\ checkpoint' # None
        /\ checkpoint' < checkpoint =>
            \E r \in Runs : to[r] = checkpoint' /\ from[r] # checkpoint]_checkpoint

-----------------------------------------------------------------------------
(***************************************************************************)
(* Two incremental runs that end well land no version twice, when the DAG  *)
(* allows one run at a time and the source does not delete: the upper end  *)
(* of one window is at or below the excluded lower end of each later one,  *)
(* and no retry leaves rows of another window.                             *)
(***************************************************************************)
Incremental(r) == from[r] # None /\ to[r] # None
LandedBy(r) == {rec.version : rec \in {x \in sink : x.run = r}}

DisjointWindows ==
    \A r, s \in Runs :
        /\ r # s
        /\ pc[r] = "done" /\ pc[s] = "done"
        /\ Incremental(r) /\ Incremental(s)
        => LandedBy(r) \cap LandedBy(s) = {}

(***************************************************************************)
(* The upsert is unconditional, yet with one run at a time, and a source   *)
(* that does not delete, no step lowers the checkpoint.                    *)
(***************************************************************************)
NeverMovesBack == [][checkpoint # None => checkpoint' >= checkpoint]_checkpoint

(***************************************************************************)
(* Every run that is triggered ends: a task that keeps failing exhausts    *)
(* its retries, and no run waits for another.                              *)
(***************************************************************************)
RunsEnd == \A r \in Runs : pc[r] = "init" ~> pc[r] \in Ended

(***************************************************************************)
(* The steps a run may still take: two in each try of a task, in Retries + *)
(* 1 tries of each of three tasks, after the one that starts it.           *)
(***************************************************************************)
TaskSteps == 2 * Retries + 2
StepsLeftAt(step, used) ==
    LET more == 2 * Retries - 2 * used
    IN  CASE step = "idle"        -> 3 * TaskSteps + 1
          [] step = "init"        -> 2 * TaskSteps + more + 2
          [] step = "init.to"     -> 2 * TaskSteps + more + 1
          [] step = "spark"       -> TaskSteps + more + 2
          [] step = "spark.write" -> TaskSteps + more + 1
          [] step = "metric"      -> more + 2
          [] step = "metric.save" -> more + 1
          [] step \in Ended       -> 0

StepsLeft(r) == StepsLeftAt(pc[r], tries[r])

(***************************************************************************)
(* Whatever happens, be it the same fault over and over, either the source *)
(* has changed or some run has used up steps it had left, and no step of   *)
(* one run gives another a step back.  So RunsEnd asks no more of the      *)
(* scheduler than to go on with a task that it has started.                *)
(***************************************************************************)
EveryStepCounts ==
    [][\/ table' # table /\ \A r \in Runs : StepsLeft(r)' = StepsLeft(r)
       \/ \E r \in Runs :
            /\ StepsLeft(r)' < StepsLeft(r)
            /\ \A other \in Runs \ {r} : StepsLeft(other)' = StepsLeft(other)]_vars

-----------------------------------------------------------------------------
(***************************************************************************)
(* The pipeline keeps the promise of Landing: the saved checkpoint is the  *)
(* watermark, the checkpoint_to captured highest is what is sealed, the    *)
(* DataFrames in flight hold what was fetched.  A watermark, once there,   *)
(* is never withdrawn.                                                     *)
(***************************************************************************)
Promise == INSTANCE Landing WITH
    MayWithdraw <- FALSE,
    fetched <- UNION {batch[r] : r \in Runs},
    landed <- LandedVersions,
    watermark <- checkpoint,
    sealed <- horizon

ImplementsLanding == Promise!LSpec

=============================================================================
