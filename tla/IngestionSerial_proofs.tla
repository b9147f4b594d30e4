----------------------- MODULE IngestionSerial_proofs -----------------------
(***************************************************************************)
(* Theorems about IngestionPipeline when the source does not delete: what  *)
(* moves the checkpoint back is the save of an overlapping run; and when   *)
(* Airflow has one run of the DAG in flight at a time, it never moves      *)
(* back, and the windows of the runs that end well do not overlap.         *)
(***************************************************************************)
EXTENDS IngestionPipeline_proofs, FiniteSetTheorems

USE DEF Value, Steps, InitSteps, SparkSteps, MetricSteps, Ended

(***************************************************************************)
(* Dropping the fraction keeps the order.                                  *)
(***************************************************************************)
LEMMA Division ==
    ASSUME NEW g \in Nat \ {0}, NEW u \in Nat
    PROVE  /\ u = g * (u \div g) + (u % g)
           /\ u \div g \in Nat /\ u % g \in Nat /\ u % g < g
  OBVIOUS

LEMMA CancelFactor ==
    ASSUME NEW g \in Nat \ {0}, NEW m \in Nat, NEW n \in Nat, g * m < g * (n + 1)
    PROVE  g * m <= g * n
<1>1. CASE m <= n
  BY <1>1
<1>2. CASE n + 1 <= m
  <2>1. g * (n + 1) <= g * m
    BY <1>2
  <2>2. QED
    BY <2>1
<1>3. QED
  BY <1>1, <1>2

LEMMA ParseKeepsOrder ==
    ASSUME NEW g \in Nat \ {0}, NEW u \in Nat, NEW v \in Nat, u <= v
    PROVE  ParseCheckpoint(g, u) <= ParseCheckpoint(g, v)
<1>1. PICK m \in Nat : u = g * m + (u % g) /\ u % g \in Nat
  BY Division
<1>2. PICK n \in Nat : v = g * n + (v % g) /\ v % g \in Nat /\ v % g < g
  BY Division
<1>3. g * m \in Nat /\ g * n \in Nat /\ g * (n + 1) = g * n + g
  OBVIOUS
<1>4. g * m < g * (n + 1)
  BY <1>1, <1>2, <1>3
<1>5. g * m <= g * n
  BY <1>4, CancelFactor
<1>6. QED
  BY <1>1, <1>2, <1>3, <1>5 DEF ParseCheckpoint

-----------------------------------------------------------------------------
(***************************************************************************)
(* The checkpoint never moves back: what was captured stays within reach   *)
(* of the MAX as long as rows only grow, so a later capture is no lower;   *)
(* and with one run at a time each run captures after the checkpoint it    *)
(* will replace was saved.                                                 *)
(***************************************************************************)
Reached(c) == \E row \in Present : c <= ParseCheckpoint(Grain, table[row])

StillReached ==
    /\ checkpoint # None => Reached(checkpoint)
    /\ \A r \in Runs : to[r] # None => Reached(to[r])

OneAtATime == \A r, s \in Active : r = s

CapturedIsAhead ==
    \A r \in Runs :
        pc[r] \in SparkSteps \cup MetricSteps /\ to[r] # None /\ checkpoint # None =>
            checkpoint <= to[r]

OrderInv == OneAtATime /\ StillReached /\ CapturedIsAhead

LEMMA SourceKeepsReach ==
    ASSUME TypeOK, ~HardDeletes, Source, NEW c \in Nat, Reached(c)
    PROVE  Reached(c)'
<1>1. PICK row \in Present : c <= ParseCheckpoint(Grain, table[row])
  BY DEF Reached
<1>2. row \in Present' /\ table'[row] \in Nat /\ table[row] \in Nat /\ table[row] <= table'[row]
  BY TimestampsAssumption, NoneAssumption DEF Source, Commit, Delete, Present, TypeOK
<1>3. ParseCheckpoint(Grain, table[row]) <= ParseCheckpoint(Grain, table'[row])
  BY <1>2, ParseKeepsOrder, GrainAssumption
<1>4. /\ ParseCheckpoint(Grain, table[row]) \in Nat
      /\ ParseCheckpoint(Grain, table'[row]) \in Nat
  BY <1>2, ParseKeepsLower
<1>5. c <= ParseCheckpoint(Grain, table'[row])
  BY <1>1, <1>3, <1>4
<1>6. QED
  BY <1>2, <1>5 DEF Reached

LEMMA CapturedIsReached ==
    ASSUME TypeOK, NEW c, IsParsedMax(c)
    PROVE  c \in Nat /\ Reached(c) /\ \A d \in Nat : Reached(d) => d <= c
<1>1. PICK row \in Rows : IsMax(row) /\ c = ParseCheckpoint(Grain, table[row])
  BY DEF IsParsedMax
<1>2. row \in Present /\ \A x \in Present : table[x] \in Nat /\ table[x] <= table[row]
  BY <1>1 DEF IsMax, Present, TypeOK
<1>3. c \in Nat /\ Reached(c)
  BY <1>1, <1>2, ParseKeepsLower DEF Reached
<1>4. ASSUME NEW d \in Nat, NEW x \in Present, d <= ParseCheckpoint(Grain, table[x])
      PROVE  d <= c
  <2>1. ParseCheckpoint(Grain, table[x]) <= c
    BY <1>1, <1>2, ParseKeepsOrder, GrainAssumption
  <2>2. ParseCheckpoint(Grain, table[x]) \in Nat
    BY <1>2, ParseKeepsLower
  <2>3. QED
    BY <1>3, <1>4, <2>1, <2>2
<1>5. QED
  BY <1>3, <1>4 DEF Reached

(***************************************************************************)
(* What a step of run r does to the windows and the checkpoint, by task.   *)
(***************************************************************************)
LEMMA NoneActive ==
    ASSUME MaxActive = 1, OneAtATime, NEW r \in Runs, Trigger(r)
    PROVE  Active = {}
<1> SUFFICES ASSUME NEW s \in Active PROVE FALSE
  OBVIOUS
<1>1. Active = {s}
  BY DEF OneAtATime
<1>2. Cardinality(Active) = 1
  BY <1>1, FS_Singleton
<1>3. QED
  BY <1>2 DEF Trigger

LEMMA TriggerFacts ==
    ASSUME TypeOK, NEW r \in Runs, Trigger(r)
    PROVE  /\ pc[r] = "idle" /\ pc'[r] = "init" /\ \A s \in Runs \ {r} : pc'[s] = pc[s]
           /\ UNCHANGED <<table, checkpoint, from, to, batch, sink>>
  BY DEF Trigger, TypeOK

LEMMA OneStaysActive ==
    ASSUME TypeOK, OneAtATime, NEW r \in Active, \A s \in Runs \ {r} : pc'[s] = pc[s]
    PROVE  OneAtATime' /\ \A s \in Active' : s = r
  BY DEF OneAtATime, Active

LEMMA InitFacts ==
    ASSUME TypeOK, NEW r \in Runs, InitOperator(r)
    PROVE  /\ pc[r] \in InitSteps /\ pc'[r] \in InitSteps \cup {"spark", "failed"}
           /\ \A s \in Runs \ {r} : pc'[s] = pc[s] /\ from'[s] = from[s] /\ to'[s] = to[s]
           /\ UNCHANGED <<table, checkpoint, batch, sink>>
           /\ \/ pc[r] = "init" /\ pc'[r] = "init.to" /\ from'[r] = checkpoint /\ UNCHANGED to
              \/ /\ pc[r] = "init.to" /\ pc'[r] = "spark" /\ UNCHANGED from
                 /\ to'[r] = None \/ IsParsedMax(to'[r])
              \/ pc'[r] \in {"init", "failed"} /\ from'[r] = None /\ UNCHANGED to
<1> USE DEF TypeOK
<1>1. CASE FetchFrom(r)
  BY <1>1 DEF FetchFrom
<1>2. CASE FetchTo(r) \/ FetchToFails(r)
  <2>1. PICK bound : PushWindow(r, bound) /\ (bound = None \/ IsParsedMax(bound))
    BY <1>2 DEF FetchTo, FetchToFails, Capture, IsParsedMax
  <2>2. QED
    BY <2>1 DEF PushWindow, Succeed
<1>3. CASE InitFails(r)
  BY <1>3 DEF InitFails, Fail
<1>4. QED
  BY <1>1, <1>2, <1>3 DEF InitOperator

LEMMA SparkFacts ==
    ASSUME TypeOK, NEW r \in Runs, SparkRunOperator(r)
    PROVE  /\ pc[r] \in SparkSteps /\ pc'[r] \in SparkSteps \cup {"metric", "failed"}
           /\ \A s \in Runs \ {r} : pc'[s] = pc[s]
           /\ UNCHANGED <<table, checkpoint, from, to>>
  BY DEF SparkRunOperator, ReadSource, WriteSink, SparkFails, Fail, Succeed, TypeOK

LEMMA MetricFacts ==
    ASSUME TypeOK, NEW r \in Runs, MetricPushOperator(r)
    PROVE  /\ pc[r] \in MetricSteps /\ pc'[r] \in MetricSteps \cup {"done", "failed"}
           /\ \A s \in Runs \ {r} : pc'[s] = pc[s]
           /\ UNCHANGED <<table, from, to, batch, sink>>
           /\ checkpoint' = checkpoint \/ (CheckpointConn /\ to[r] # None /\ checkpoint' = to[r])
           /\ pc'[r] = "done" /\ to[r] # None /\ CheckpointConn => checkpoint' = to[r]
  BY DEF MetricPushOperator, Publish, PublishLost, PublishFails, SaveCheckpoint, SaveFails,
         Upserted, Fail, Succeed, TypeOK

-----------------------------------------------------------------------------
LEMMA SourceOrder ==
    ASSUME ~HardDeletes, TypeOK, OrderInv, Source
    PROVE  OrderInv'
<1>1. UNCHANGED <<checkpoint, pc, to>>
  BY SourceFrame
<1>2. StillReached'
  BY <1>1, SourceKeepsReach DEF OrderInv, StillReached, TypeOK
<1>3. OneAtATime' /\ CapturedIsAhead'
  BY <1>1 DEF OrderInv, OneAtATime, Active, CapturedIsAhead
<1>4. QED
  BY <1>2, <1>3 DEF OrderInv

LEMMA TriggerOrder ==
    ASSUME MaxActive = 1, TypeOK, OrderInv, NEW r \in Runs, Trigger(r)
    PROVE  OrderInv'
<1>1. OneAtATime'
  BY NoneActive, TriggerFacts DEF OrderInv, OneAtATime, Active
<1>2. StillReached' /\ CapturedIsAhead'
  BY TriggerFacts DEF OrderInv, StillReached, Reached, Present, CapturedIsAhead
<1>3. QED
  BY <1>1, <1>2 DEF OrderInv

LEMMA InitOrder ==
    ASSUME TypeOK, OrderInv, NEW r \in Runs, InitOperator(r)
    PROVE  OrderInv'
<1> USE InitFacts DEF OrderInv
<1>1. OneAtATime'
  BY OneStaysActive DEF Active
<1>2. to'[r] \in {to[r], None} \/ IsParsedMax(to'[r])
  OBVIOUS
<1>3. StillReached'
  BY <1>2, CapturedIsReached DEF StillReached, Reached, Present
<1>4. CapturedIsAhead'
  <2> SUFFICES ASSUME pc'[r] = "spark", to'[r] # None, checkpoint # None
               PROVE  checkpoint <= to'[r]
    BY DEF CapturedIsAhead
  <2>1. IsParsedMax(to'[r])
    OBVIOUS
  <2>2. Reached(checkpoint) /\ checkpoint \in Nat
    BY DEF StillReached, TypeOK
  <2>3. QED
    BY <2>1, <2>2, CapturedIsReached
<1>5. QED
  BY <1>1, <1>3, <1>4

LEMMA SparkOrder ==
    ASSUME TypeOK, OrderInv, NEW r \in Runs, SparkRunOperator(r)
    PROVE  OrderInv'
<1> USE SparkFacts DEF OrderInv
<1>1. OneAtATime'
  BY OneStaysActive DEF Active
<1>2. StillReached' /\ CapturedIsAhead'
  BY DEF StillReached, Reached, Present, CapturedIsAhead
<1>3. QED
  BY <1>1, <1>2

LEMMA MetricOrder ==
    ASSUME TypeOK, OrderInv, NEW r \in Runs, MetricPushOperator(r)
    PROVE  OrderInv'
<1> USE MetricFacts DEF OrderInv
<1>1. OneAtATime' /\ \A s \in Active' : s = r
  BY OneStaysActive DEF Active
<1>2. StillReached'
  BY DEF StillReached, Reached, Present
<1>3. CapturedIsAhead'
  <2>1. ASSUME NEW s \in Runs \ {r} PROVE pc'[s] \notin SparkSteps \cup MetricSteps
    BY <1>1 DEF Active, TypeOK
  <2>2. to[r] # None => to[r] \in Nat
    BY DEF TypeOK
  <2>3. QED
    BY <2>1, <2>2 DEF CapturedIsAhead
<1>4. QED
  BY <1>1, <1>2, <1>3

LEMMA NextOrder ==
    ASSUME MaxActive = 1, ~HardDeletes, TypeOK, OrderInv, [Next]_vars
    PROVE  OrderInv'
<1>1. CASE UNCHANGED vars
  BY <1>1 DEF vars, sysvars, OrderInv, OneAtATime, Active, StillReached, Reached, Present,
              CapturedIsAhead
<1>2. ASSUME NEW r \in Runs, Trigger(r) \/ Execute(r) PROVE OrderInv'
  BY <1>2, TriggerOrder, InitOrder, SparkOrder, MetricOrder DEF Execute
<1>3. QED
  BY <1>1, <1>2, SourceOrder DEF Next

LEMMA OrderNeverMovesBack ==
    ASSUME TypeOK, OrderInv, [Next]_vars, checkpoint # None
    PROVE  checkpoint' >= checkpoint
<1>1. CASE Source \/ UNCHANGED vars
  BY <1>1, SourceFrame DEF vars, sysvars, TypeOK
<1>2. ASSUME NEW r \in Runs, Trigger(r) \/ Execute(r) PROVE checkpoint' >= checkpoint
  <2>1. CASE MetricPushOperator(r)
    BY <2>1, MetricFacts DEF OrderInv, CapturedIsAhead, TypeOK
  <2>2. CASE Trigger(r) \/ InitOperator(r) \/ SparkRunOperator(r)
    BY <2>2, TriggerFacts, InitFacts, SparkFacts DEF TypeOK
  <2>3. QED
    BY <1>2, <2>1, <2>2 DEF Execute
<1>3. QED
  BY <1>1, <1>2 DEF Next

(***************************************************************************)
(* No step lowers the checkpoint, although the upsert compares nothing,    *)
(* with one run at a time and a source that keeps its rows: for every kind *)
(* of table source, also with a column whose fraction is dropped.          *)
(***************************************************************************)
THEOREM CheckpointNeverMovesBack ==
    ASSUME MaxActive = 1, ~HardDeletes
    PROVE  Spec => NeverMovesBack
<1>1. Init => OrderInv
  BY DEF Init, OrderInv, OneAtATime, Active, StillReached, CapturedIsAhead
<1>2. TypeOK /\ OrderInv /\ [Next]_vars => OrderInv'
  BY NextOrder
<1>3. TypeOK /\ OrderInv /\ [Next]_vars =>
          [checkpoint # None => checkpoint' >= checkpoint]_checkpoint
  BY OrderNeverMovesBack
<1>4. QED
  BY <1>1, <1>2, <1>3, TypeCorrect, PTL DEF Spec, NeverMovesBack

-----------------------------------------------------------------------------
(***************************************************************************)
(* Overlapping runs.  Whatever was captured stays within reach of the MAX, *)
(* also the lower bound a run has fetched; so the run captures no less.    *)
(***************************************************************************)
WindowsReached == StillReached /\ \A r \in Runs : from[r] # None => Reached(from[r])

WindowsForward ==
    \A r \in Runs :
        pc[r] \in SparkSteps \cup MetricSteps /\ from[r] # None /\ to[r] # None =>
            from[r] <= to[r]

OverlapInv == WindowsReached /\ WindowsForward

LEMMA SourceOverlap ==
    ASSUME ~HardDeletes, TypeOK, OverlapInv, Source
    PROVE  OverlapInv'
<1> USE SourceFrame DEF OverlapInv
<1>1. WindowsReached'
  BY SourceKeepsReach DEF WindowsReached, StillReached, TypeOK
<1>2. WindowsForward'
  BY DEF WindowsForward
<1>3. QED
  BY <1>1, <1>2

LEMMA RunOverlap ==
    ASSUME TypeOK, OverlapInv, NEW r \in Runs, Trigger(r) \/ Execute(r)
    PROVE  OverlapInv'
<1> USE DEF OverlapInv
<1>1. table' = table /\ \A c : Reached(c)' <=> Reached(c)
  BY TriggerFacts, InitFacts, SparkFacts, MetricFacts DEF Execute, Reached, Present
<1>2. CASE Trigger(r)
  BY <1>1, <1>2, TriggerFacts DEF WindowsReached, StillReached, WindowsForward
<1>3. CASE InitOperator(r)
  <2>1. to'[r] \in {to[r], None} \/ IsParsedMax(to'[r])
    BY <1>3, InitFacts
  <2>2. from'[r] \in {from[r], None, checkpoint} /\ checkpoint' = checkpoint
    BY <1>3, InitFacts
  <2>3. \A s \in Runs \ {r} : pc'[s] = pc[s] /\ from'[s] = from[s] /\ to'[s] = to[s]
    BY <1>3, InitFacts
  <2>4. WindowsReached'
    BY <1>1, <2>1, <2>2, <2>3, CapturedIsReached DEF WindowsReached, StillReached
  <2>5. ASSUME pc'[r] \in SparkSteps \cup MetricSteps, from'[r] # None, to'[r] # None
        PROVE  from'[r] <= to'[r]
    <3>1. UNCHANGED from /\ IsParsedMax(to'[r])
      BY <1>3, <2>5, InitFacts
    <3>2. from[r] \in Nat /\ Reached(from[r])
      BY <2>5, <3>1 DEF WindowsReached, TypeOK
    <3>3. QED
      BY <3>1, <3>2, CapturedIsReached
  <2>6. WindowsForward'
    BY <2>3, <2>5 DEF WindowsForward
  <2>7. QED
    BY <2>4, <2>6
<1>4. CASE SparkRunOperator(r)
  BY <1>1, <1>4, SparkFacts DEF WindowsReached, StillReached, WindowsForward
<1>5. CASE MetricPushOperator(r)
  BY <1>1, <1>5, MetricFacts DEF WindowsReached, StillReached, WindowsForward
<1>6. QED
  BY <1>2, <1>3, <1>4, <1>5 DEF Execute

LEMMA OverlapMovesBack ==
    ASSUME TypeOK, OverlapInv, [Next]_vars, checkpoint # None
    PROVE  /\ checkpoint' # None
           /\ checkpoint' < checkpoint =>
                \E r \in Runs : to[r] = checkpoint' /\ from[r] # checkpoint
<1>1. checkpoint \in Nat
  BY DEF TypeOK
<1>2. CASE checkpoint' = checkpoint
  BY <1>1, <1>2
<1>3. ASSUME NEW r \in Runs, MetricPushOperator(r), to[r] # None, checkpoint' = to[r]
      PROVE  /\ checkpoint' # None
             /\ checkpoint' < checkpoint => to[r] = checkpoint' /\ from[r] # checkpoint
  <2>1. pc[r] \in MetricSteps /\ to[r] \in Nat
    BY <1>3, MetricFacts DEF TypeOK
  <2>2. from[r] # None => from[r] <= to[r]
    BY <1>3, <2>1 DEF OverlapInv, WindowsForward
  <2>3. QED
    BY <1>1, <1>3, <2>1, <2>2
<1>4. \/ checkpoint' = checkpoint
      \/ \E r \in Runs : MetricPushOperator(r) /\ to[r] # None /\ checkpoint' = to[r]
  BY SourceFrame, TriggerFacts, InitFacts, SparkFacts, MetricFacts DEF Next, Execute, vars, sysvars
<1>5. QED
  BY <1>2, <1>3, <1>4

(***************************************************************************)
(* However many runs overlap, a saved checkpoint is never withdrawn, and   *)
(* no run that fetched it saves a lower one: only a run that fetched its   *)
(* lower bound before another saved moves the checkpoint back.  For every  *)
(* kind of table source that does not delete.                              *)
(***************************************************************************)
THEOREM CheckpointBackOnlyByOverlap ==
    ASSUME ~HardDeletes
    PROVE  Spec => BackOnlyByOverlap
<1>1. Init => OverlapInv
  BY DEF Init, OverlapInv, WindowsReached, StillReached, WindowsForward
<1>2. TypeOK /\ OverlapInv /\ [Next]_vars => OverlapInv'
  <2>1. OverlapInv /\ UNCHANGED vars => OverlapInv'
    BY DEF vars, sysvars, OverlapInv, WindowsReached, StillReached, Reached, Present,
           WindowsForward
  <2>2. QED
    BY <2>1, SourceOverlap, RunOverlap DEF Next
<1>3. TypeOK /\ OverlapInv /\ [Next]_vars =>
        [checkpoint # None =>
            /\ checkpoint' # None
            /\ checkpoint' < checkpoint =>
                \E r \in Runs : to[r] = checkpoint' /\ from[r] # checkpoint]_checkpoint
  BY OverlapMovesBack
<1>4. QED
  BY <1>1, <1>2, <1>3, TypeCorrect, PTL DEF Spec, BackOnlyByOverlap

-----------------------------------------------------------------------------
(***************************************************************************)
(* The windows of a table read over JDBC.  A run lands nothing outside its *)
(* window; and the windows of the runs that saved theirs are ordered: what *)
(* such a run captured is at or below the checkpoint, so at or below the   *)
(* lower end of each later window.                                         *)
(***************************************************************************)
Saved(r) == pc[r] = "done" /\ to[r] # None /\ CheckpointConn

NothingYet ==
    \A r \in Runs : pc[r] \in {"idle", "init", "init.to"} => batch[r] = {} /\ LandedBy(r) = {}

InWindow(r, v) == from[r] < v[2] /\ v[2] <= to[r]

WithinWindow ==
    \A r \in Runs : Incremental(r) => \A v \in batch[r] \cup LandedBy(r) : InWindow(r, v)

SavedIsBelow == \A r \in Runs : Saved(r) => AtOrBelow(to[r], checkpoint)

SavedBeforeActive ==
    \A r \in Runs, s \in Active : Saved(r) /\ pc[s] # "init" => AtOrBelow(to[r], from[s])

SavedAreOrdered ==
    \A r, s \in Runs : r # s /\ Saved(r) /\ Saved(s) =>
        AtOrBelow(to[r], from[s]) \/ AtOrBelow(to[s], from[r])

NothingStored ==
    CheckpointConn \/ (checkpoint = None /\ \A r \in Runs : from[r] = None)

WindowInv ==
    /\ NothingYet
    /\ WithinWindow
    /\ SavedIsBelow
    /\ SavedBeforeActive
    /\ SavedAreOrdered
    /\ NothingStored

LEMMA AppendLandsBy ==
    ASSUME NEW r \in Runs, NEW vs, Append(r, vs)
    PROVE  /\ LandedBy(r)' \subseteq LandedBy(r) \cup vs
           /\ \A s \in Runs \ {r} : LandedBy(s)' = LandedBy(s)
  BY DEF Append, LandedBy

LEMMA SourceWindow ==
    ASSUME WindowInv, Source
    PROVE  WindowInv'
<1> USE SourceFrame DEF WindowInv
<1>1. NothingYet' /\ WithinWindow' /\ NothingStored'
  BY DEF NothingYet, WithinWindow, LandedBy, Incremental, InWindow, NothingStored
<1>2. SavedIsBelow' /\ SavedBeforeActive' /\ SavedAreOrdered'
  BY DEF SavedIsBelow, SavedBeforeActive, SavedAreOrdered, Saved, AtOrBelow, Active
<1>3. QED
  BY <1>1, <1>2

LEMMA TriggerWindow ==
    ASSUME MaxActive = 1, TypeOK, OneAtATime, WindowInv, NEW r \in Runs, Trigger(r)
    PROVE  WindowInv'
<1> USE TriggerFacts DEF WindowInv
<1>1. Active' = {r}
  BY NoneActive DEF Active
<1>2. NothingYet' /\ WithinWindow' /\ NothingStored'
  BY DEF NothingYet, WithinWindow, LandedBy, Incremental, InWindow, NothingStored
<1>3. SavedBeforeActive'
  BY <1>1 DEF SavedBeforeActive
<1>4. SavedIsBelow' /\ SavedAreOrdered'
  BY DEF SavedIsBelow, SavedAreOrdered, Saved, AtOrBelow
<1>5. QED
  BY <1>2, <1>3, <1>4

LEMMA InitWindow ==
    ASSUME TypeOK, OneAtATime, WindowInv, NEW r \in Runs, InitOperator(r)
    PROVE  WindowInv'
<1> USE InitFacts DEF WindowInv
<1>1. \A s \in Active' : s = r
  BY OneStaysActive DEF Active
<1>2. batch[r] = {} /\ LandedBy(r) = {} /\ \A s \in Runs : LandedBy(s)' = LandedBy(s)
  BY DEF NothingYet, LandedBy
<1>3. NothingYet' /\ NothingStored'
  BY <1>2 DEF NothingYet, NothingStored
<1>4. WithinWindow'
  BY <1>2 DEF WithinWindow, Incremental, InWindow
<1>5. \A q \in Runs : Saved(q)' => q # r /\ Saved(q) /\ to'[q] = to[q] /\ from'[q] = from[q]
  BY DEF Saved
<1>6. SavedIsBelow' /\ SavedAreOrdered'
  BY <1>5 DEF SavedIsBelow, SavedAreOrdered, AtOrBelow
<1>7. SavedBeforeActive'
  <2> SUFFICES ASSUME NEW q \in Runs, Saved(q)', r \in Active', pc'[r] # "init"
               PROVE  AtOrBelow(to[q], from'[r])
    BY <1>1, <1>5 DEF SavedBeforeActive, AtOrBelow
  <2>1. CASE from'[r] = checkpoint
    BY <1>5, <2>1 DEF SavedIsBelow
  <2>2. CASE pc[r] = "init.to" /\ UNCHANGED from
    BY <1>5, <2>2 DEF SavedBeforeActive, Active
  <2>3. QED
    BY <2>1, <2>2 DEF Active
<1>8. QED
  BY <1>3, <1>4, <1>6, <1>7

LEMMA SparkWindow ==
    ASSUME Kind = "sql", TypeOK, OneAtATime, WindowInv, NEW r \in Runs, SparkRunOperator(r)
    PROVE  WindowInv'
<1> USE SparkFacts DEF WindowInv
<1>1. \A s \in Active' : s = r
  BY OneStaysActive DEF Active
<1>2. /\ LandedBy(r)' \subseteq LandedBy(r) \cup batch[r]
      /\ \A s \in Runs \ {r} : LandedBy(s)' = LandedBy(s) /\ batch'[s] = batch[s]
  <2>1. CASE ReadSource(r)
    BY <2>1 DEF ReadSource, LandedBy, TypeOK
  <2>2. CASE WriteSink(r)
    BY <2>2, AppendLandsBy DEF WriteSink, TypeOK
  <2>3. CASE SparkFails(r)
    BY <2>3, AppendLandsBy DEF SparkFails, TypeOK
  <2>4. QED
    BY <2>1, <2>2, <2>3 DEF SparkRunOperator
<1>3. NothingYet' /\ NothingStored'
  BY <1>2 DEF NothingYet, NothingStored
<1>4. WithinWindow'
  <2> SUFFICES ASSUME NEW s \in Runs, Incremental(s), NEW v \in batch'[s] \cup LandedBy(s)'
               PROVE  InWindow(s, v)
    BY DEF WithinWindow, Incremental, InWindow
  <2>1. CASE v \in batch[s] \cup LandedBy(s)
    BY <2>1 DEF WithinWindow
  <2>2. CASE v \notin batch[s] \cup LandedBy(s)
    <3>1. s = r /\ v \in batch'[r] /\ v \notin batch[r]
      BY <1>2, <2>2
    <3>2. ReadSource(r)
      BY <3>1 DEF SparkRunOperator, WriteSink, SparkFails, TypeOK
    <3>3. PICK row \in Present : v = Version(row) /\ Selects(Kind, from[r], to[r], table[row])
      BY <3>1, <3>2 DEF ReadSource, TypeOK
    <3>4. v[2] = table[row]
      BY <3>3 DEF Version
    <3>5. from[r] # None /\ to[r] # None
      BY <3>1 DEF Incremental
    <3>6. QED
      BY <3>1, <3>3, <3>4, <3>5 DEF Selects, SqlSelects, InWindow
  <2>3. QED
    BY <2>1, <2>2
<1>5. SavedIsBelow' /\ SavedAreOrdered'
  BY DEF SavedIsBelow, SavedAreOrdered, Saved, AtOrBelow
<1>6. SavedBeforeActive'
  BY <1>1 DEF SavedBeforeActive, Saved, AtOrBelow, Active
<1>7. QED
  BY <1>3, <1>4, <1>5, <1>6

LEMMA MetricWindow ==
    ASSUME TypeOK, OrderInv, WindowInv, NEW r \in Runs, MetricPushOperator(r)
    PROVE  WindowInv'
<1> USE MetricFacts DEF WindowInv
<1>1. \A s \in Active' : s = r
  BY OneStaysActive DEF OrderInv, Active
<1>2. NothingYet' /\ WithinWindow' /\ NothingStored'
  BY DEF NothingYet, WithinWindow, LandedBy, Incremental, InWindow, NothingStored
<1>3. ASSUME NEW q \in Runs, Saved(q) PROVE AtOrBelow(to[q], checkpoint')
  <2>1. AtOrBelow(to[q], checkpoint) /\ to[q] \in Nat /\ checkpoint \in Nat
    BY <1>3 DEF SavedIsBelow, Saved, AtOrBelow, TypeOK
  <2>2. CASE checkpoint' = checkpoint
    BY <2>1, <2>2
  <2>3. CASE to[r] # None /\ checkpoint' = to[r]
    <3>1. checkpoint <= to[r] /\ to[r] \in Nat
      BY <2>1, <2>3, NoneAssumption DEF OrderInv, CapturedIsAhead, TypeOK
    <3>2. QED
      BY <2>1, <2>3, <3>1 DEF AtOrBelow
  <2>4. QED
    BY <2>2, <2>3
<1>4. SavedIsBelow'
  <2> SUFFICES ASSUME NEW q \in Runs, Saved(q)', ~Saved(q)
               PROVE  AtOrBelow(to[q], checkpoint')
    BY <1>3 DEF SavedIsBelow, AtOrBelow
  <2>1. q = r /\ checkpoint' = to[r] /\ to[r] \in Nat
    BY DEF Saved, TypeOK
  <2>2. QED
    BY <2>1, NoneAssumption DEF AtOrBelow
<1>5. SavedBeforeActive'
  BY <1>1 DEF SavedBeforeActive, Saved, AtOrBelow, Active
<1>6. SavedAreOrdered'
  <2>1. \A q \in Runs \ {r} : Saved(q)' => Saved(q) /\ AtOrBelow(to[q], from[r])
    BY DEF SavedBeforeActive, Saved, Active
  <2>2. QED
    BY <2>1 DEF SavedAreOrdered, Saved, AtOrBelow
<1>7. QED
  BY <1>2, <1>4, <1>5, <1>6

LEMMA NextWindow ==
    ASSUME Kind = "sql", MaxActive = 1, TypeOK, OrderInv, WindowInv, [Next]_vars
    PROVE  WindowInv'
<1>1. CASE UNCHANGED vars
  <2> USE <1>1 DEF vars, sysvars, WindowInv
  <2>1. NothingYet' /\ WithinWindow' /\ NothingStored'
    BY DEF NothingYet, WithinWindow, LandedBy, Incremental, InWindow, NothingStored
  <2>2. SavedIsBelow' /\ SavedBeforeActive' /\ SavedAreOrdered'
    BY DEF SavedIsBelow, SavedBeforeActive, SavedAreOrdered, Saved, AtOrBelow, Active
  <2>3. QED
    BY <2>1, <2>2
<1>2. ASSUME NEW r \in Runs, Trigger(r) \/ Execute(r) PROVE WindowInv'
  BY <1>2, TriggerWindow, InitWindow, SparkWindow, MetricWindow DEF Execute, OrderInv
<1>3. QED
  BY <1>1, <1>2, SourceWindow DEF Next

LEMMA WindowInvMeansDisjoint ==
    ASSUME TypeOK, WindowInv
    PROVE  DisjointWindows
<1>1. ASSUME NEW r \in Runs, NEW s \in Runs, Incremental(r), Incremental(s),
             AtOrBelow(to[r], from[s]), NEW v \in LandedBy(r), v \in LandedBy(s)
      PROVE  FALSE
  <2>1. InWindow(r, v) /\ InWindow(s, v)
    BY <1>1 DEF WindowInv, WithinWindow
  <2>2. to[r] \in Nat /\ from[s] \in Nat /\ v[2] \in Nat
    BY <1>1 DEF Incremental, LandedBy, TypeOK, SinkRecord, Versions
  <2>3. QED
    BY <1>1, <2>1, <2>2 DEF InWindow, AtOrBelow
<1>2. \A r \in Runs : pc[r] = "done" /\ Incremental(r) => Saved(r)
  BY DEF WindowInv, NothingStored, Incremental, Saved
<1>3. QED
  BY <1>1, <1>2 DEF WindowInv, SavedAreOrdered, DisjointWindows

(***************************************************************************)
(* Two incremental runs over a JDBC table that end well land no version    *)
(* twice, whatever fails and is tried again in between.                    *)
(***************************************************************************)
THEOREM SerialWindowsAreDisjoint ==
    ASSUME Kind = "sql", MaxActive = 1, ~HardDeletes
    PROVE  Spec => []DisjointWindows
<1>1. Init => OrderInv /\ WindowInv
  <2> SUFFICES ASSUME Init PROVE OrderInv /\ WindowInv
    OBVIOUS
  <2>1. OrderInv
    BY DEF Init, OrderInv, OneAtATime, Active, StillReached, CapturedIsAhead
  <2>2. NothingYet /\ WithinWindow /\ NothingStored
    BY DEF Init, NothingYet, WithinWindow, LandedBy, Incremental, NothingStored
  <2>3. SavedIsBelow /\ SavedBeforeActive /\ SavedAreOrdered
    BY DEF Init, SavedIsBelow, SavedBeforeActive, SavedAreOrdered, Saved, Active
  <2>4. QED
    BY <2>1, <2>2, <2>3 DEF WindowInv
<1>2. TypeOK /\ OrderInv /\ WindowInv /\ [Next]_vars => OrderInv' /\ WindowInv'
  BY NextOrder, NextWindow
<1>3. TypeOK /\ WindowInv => DisjointWindows
  BY WindowInvMeansDisjoint
<1>4. QED
  BY <1>1, <1>2, <1>3, TypeCorrect, PTL DEF Spec

=============================================================================
