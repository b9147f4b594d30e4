------------------------- MODULE FileLanding_proofs -------------------------
(***************************************************************************)
(* Theorems about FileLanding, for any set of files and any number of      *)
(* runs, retries, faults and changes of the source directory.              *)
(***************************************************************************)
EXTENDS FileLanding, TLAPS

USE NoneAssumption, ReadTypesAssumption, BoundsAssumption
USE DEF Steps, CopySteps, Ended, Time

-----------------------------------------------------------------------------
(***************************************************************************)
(* Type correctness.                                                       *)
(***************************************************************************)
LEMMA FailTypes ==
    ASSUME TypeOK, NEW begin \in Steps, Fail(begin)
    PROVE  pc' \in Steps /\ tries' \in 0..Retries
  BY DEF TypeOK, Fail

LEMMA FaultTypes == TypeOK /\ Fault => faults' \in 0..MaxFaults
  BY DEF TypeOK, Fault

LEMMA CopyTypes ==
    ASSUME TypeOK, NEW f \in Present, NEW whole \in BOOLEAN
    PROVE  Copy(f, whole) \subseteq Copies
<1>1. mtime[f] \in Time /\ f \in Files /\ target \in {"root", "nested"}
  BY DEF TypeOK, Present
<1>2. [dir |-> target, file |-> f, mtime |-> mtime[f], whole |-> whole] \in Copies
  BY <1>1 DEF Copies
<1>3. QED
  BY <1>2 DEF Copy, TypeOK

LEMMA InitTypeOK == Init => TypeOK
<1> SUFFICES ASSUME Init PROVE TypeOK
  OBVIOUS
<1>1. /\ mtime \in [Files -> Time \cup {None}] /\ dest \subseteq Copies
      /\ vanished \in BOOLEAN /\ unlisted \subseteq Files /\ standing \subseteq Files
  BY DEF Init
<1>2. runs \in 1..MaxRuns
  BY DEF Init
<1>3. QED
  BY <1>1, <1>2 DEF Init, TypeOK

LEMMA SourceTypeOK ==
    ASSUME TypeOK, NEW f \in Files, Put(f) \/ Remove(f)
    PROVE  TypeOK'
<1>1. clock' \in Time /\ mtime' \in [Files -> Time \cup {None}] /\ dirTime' \in Time
  BY DEF Put, Remove, TypeOK
<1>2. /\ UNCHANGED <<readType, window, pc, tries, copying, faults>>
      /\ vanished' \in BOOLEAN /\ standing' \subseteq Files
  BY DEF Put, Remove, TypeOK
<1>3. QED
  BY <1>1, <1>2 DEF window, copying, TypeOK

(***************************************************************************)
(* The newest of the times listed so far is a time, and none is newer.     *)
(***************************************************************************)
LEMMA NewerIsNewest ==
    ASSUME TypeOK, NEW page \in SUBSET Files, Newer(page)
    PROVE  /\ latest' \in Time \cup {None}
           /\ latest # None => latest' # None /\ latest <= latest'
           /\ \A f \in page \cap Present : latest' # None /\ mtime[f] <= latest'
           /\ latest' # None => \/ latest' = latest
                               \/ \E f \in Present : latest' = mtime[f]
<1> DEFINE times == {mtime[f] : f \in page \cap Present} \cup ({latest} \ {None})
<1>1. times \subseteq Time
  BY DEF TypeOK, Present
<1>2. CASE times = {}
  <2>1. latest' = None /\ latest = None /\ page \cap Present = {}
    BY <1>2 DEF Newer
  <2>2. QED
    BY <2>1
<1>3. CASE times # {}
  <2>1. latest' \in times /\ \A u \in times : u <= latest'
    BY <1>3 DEF Newer, Newest
  <2>2. QED
    BY <1>1, <2>1
<1>4. QED
  BY <1>2, <1>3

LEMMA InitOperatorTypeOK ==
    ASSUME TypeOK, InitOperator
    PROVE  TypeOK'
<1>1. CASE StatPath
  BY <1>1 DEF StatPath, source, copying, history, TypeOK
<1>2. CASE StartListing
  <2>1. standing' \subseteq Files /\ unlisted' \subseteq Files
    BY <1>2 DEF StartListing, Present
  <2>2. QED
    BY <1>2, <2>1 DEF StartListing, source, copying, TypeOK
<1>3. CASE ListPage
  <2>1. latest' \in Time \cup {None} /\ unlisted' \subseteq Files
    BY <1>3, NewerIsNewest DEF ListPage, TypeOK
  <2>2. QED
    BY <1>3, <2>1 DEF ListPage, source, copying, history, TypeOK
<1>4. CASE CaptureLatest
  BY <1>4 DEF CaptureLatest, source, copying, history, TypeOK
<1>5. CASE MaxFileFails
  <2>1. unlisted' \subseteq Files /\ faults' \in 0..MaxFaults
    BY <1>5, FaultTypes DEF MaxFileFails
  <2>2. QED
    BY <1>5, <2>1 DEF MaxFileFails, source, copying, history, TypeOK
<1>6. CASE InitFails
  <2>1. unlisted' \subseteq Files /\ faults' \in 0..MaxFaults
    BY <1>6, FaultTypes DEF InitFails
  <2>2. QED
    BY <1>6, <2>1, FailTypes DEF InitFails, source, copying, history, TypeOK
<1>7. QED
  BY <1>1, <1>2, <1>3, <1>4, <1>5, <1>6 DEF InitOperator

LEMMA CopyFromTypeOK ==
    ASSUME TypeOK, CopyFrom
    PROVE  TypeOK'
<1>1. CASE SourceMissing
  BY <1>1, FailTypes DEF SourceMissing, history, source, window, copying, TypeOK
<1>2. CASE ChooseTarget
  BY <1>2 DEF ChooseTarget, history, source, window, TypeOK
<1>3. CASE TargetIsDirectory
  BY <1>3, FailTypes DEF TargetIsDirectory, history, source, window, copying, TypeOK
<1>4. CASE MkdirsFails
  BY <1>4, FailTypes, FaultTypes DEF MkdirsFails, history, source, window, copying, TypeOK
<1>5. CASE ListFiles
  BY <1>5 DEF ListFiles, Present, history, source, window, TypeOK
<1>6. ASSUME NEW f \in Files, CopyFile(f) PROVE TypeOK'
  <2>1. dest' \subseteq Copies
    BY <1>6, CopyTypes DEF CopyFile
  <2>2. QED
    BY <1>6, <2>1 DEF CopyFile, history, source, window, TypeOK
<1>7. ASSUME NEW f \in Files, FileNotFound(f) PROVE TypeOK'
  BY <1>7, FailTypes DEF FileNotFound, history, source, window, TypeOK
<1>8. CASE CopyFails
  <2>1. dest' \subseteq Copies
    BY <1>8, CopyTypes DEF CopyFails, TypeOK
  <2>2. QED
    BY <1>8, <2>1, FailTypes, FaultTypes DEF CopyFails, history, source, window, TypeOK
<1>9. CASE CopyDone
  BY <1>9 DEF CopyDone, history, source, window, copying, TypeOK
<1>10. QED
  BY <1>1, <1>2, <1>3, <1>4, <1>5, <1>6, <1>7, <1>8, <1>9 DEF CopyFrom

LEMMA EndTypeOK ==
    ASSUME TypeOK, SaveCheckpoint \/ MetricFails \/ NextRun
    PROVE  TypeOK'
<1>1. CASE SaveCheckpoint
  BY <1>1 DEF SaveCheckpoint, history, source, copying, TypeOK
<1>2. CASE MetricFails
  BY <1>2, FailTypes, FaultTypes DEF MetricFails, history, source, copying, TypeOK
<1>3. CASE NextRun
  <2>1. vanished' \in BOOLEAN /\ dest' \subseteq Copies /\ standing' \subseteq Files
    BY <1>3 DEF NextRun
  <2>2. dirs' \subseteq {"root", "nested"} /\ todo' \subseteq Files
    BY <1>3 DEF NextRun
  <2>3. UNCHANGED <<readType, mtime, dirTime, clock, checkpoint>>
    BY <1>3 DEF NextRun, source
  <2>4. pc' \in Steps /\ tries' \in 0..Retries /\ faults' \in 0..MaxFaults
    BY <1>3 DEF NextRun
  <2>5. /\ from' = None /\ to' = None /\ latest' = None /\ unlisted' = {}
        /\ target' = "root" /\ runs' = runs + 1 /\ runs < MaxRuns
    BY <1>3 DEF NextRun
  <2>6. runs' \in 1..MaxRuns
    BY <2>5 DEF TypeOK
  <2>7. QED
    BY <2>1, <2>2, <2>3, <2>4, <2>5, <2>6 DEF TypeOK
<1>4. QED
  BY <1>1, <1>2, <1>3

LEMMA NextTypeOK == TypeOK /\ [Next]_vars => TypeOK'
<1>1. TypeOK /\ UNCHANGED vars => TypeOK'
  BY DEF vars, source, window, copying, history, TypeOK
<1>2. QED
  BY <1>1, SourceTypeOK, InitOperatorTypeOK, CopyFromTypeOK, EndTypeOK DEF Next, Execute

(***************************************************************************)
(* The variables keep their types, whatever fails and whatever happens in  *)
(* the source directory.                                                   *)
(***************************************************************************)
THEOREM TypeCorrect == Spec => []TypeOK
  BY InitTypeOK, NextTypeOK, PTL DEF Spec

-----------------------------------------------------------------------------
(***************************************************************************)
(* Neither property is inductive: what is at the path when the copy ends   *)
(* depends on what has been copied so far and what is left to copy, and    *)
(* what the window covers on the pages listed so far.  That a file         *)
(* replaced meanwhile does not matter follows from the clock: the window   *)
(* ends in the past, and a file written now is newer.                      *)
(***************************************************************************)
TimesArePast ==
    /\ \A f \in Present : mtime[f] <= clock
    /\ dirTime <= clock
    /\ latest # None => latest <= clock
    /\ to # None => to <= clock

StandingIsThere == standing \subseteq Present

ListProgress ==
    pc = "init.list" => \A f \in standing \ unlisted : latest # None /\ mtime[f] <= latest

InWindow ==
    readType = "s3" /\ pc \in CopySteps \cup {"metric"} => \A f \in standing : Vouched(f)

Due(f) == f \in standing \/ (f \in Present /\ to # None /\ mtime[f] <= to)

CopyProgress == pc = "files" => \A f \in Files : Due(f) => f \in todo \/ Landed(f)

DueIsLanded == pc = "metric" => \A f \in Files : Due(f) => Landed(f)

IInv ==
    /\ TypeOK
    /\ TimesArePast
    /\ StandingIsThere
    /\ ListProgress
    /\ InWindow
    /\ CopyProgress
    /\ DueIsLanded

LEMMA InitIInv == Init => IInv
<1> SUFFICES ASSUME Init PROVE IInv
  OBVIOUS
<1>1. /\ TimesArePast /\ StandingIsThere /\ ListProgress
      /\ InWindow /\ CopyProgress /\ DueIsLanded
  BY DEF Init, TimesArePast, StandingIsThere, ListProgress, InWindow, CopyProgress, DueIsLanded,
         Present
<1>2. QED
  BY <1>1, InitTypeOK DEF IInv

(***************************************************************************)
(* What is written now is newer than the window, and stands no longer.     *)
(***************************************************************************)
LEMMA SourceIInv ==
    ASSUME IInv, NEW f \in Files, Put(f) \/ Remove(f)
    PROVE  IInv'
<1> USE DEF IInv
<1>1. TypeOK'
  BY SourceTypeOK
<1>2. /\ UNCHANGED <<readType, pc, to, unlisted, latest, todo, target, dest, faults>>
      /\ standing' = standing \ {f}
      /\ \A g \in Files \ {f} : mtime'[g] = mtime[g]
  BY DEF Put, Remove, window, copying, TypeOK
<1>3. TimesArePast'
  <2>1. clock \in Nat /\ clock' = clock + 1 /\ dirTime' \in {dirTime, clock'}
    BY DEF Put, Remove, TypeOK
  <2>2. \A g \in Present' : mtime'[g] = clock' \/ (g \in Present /\ mtime'[g] = mtime[g])
    BY DEF Put, Remove, Present, TypeOK
  <2>3. QED
    BY <1>2, <2>1, <2>2 DEF TimesArePast, TypeOK, Present
<1>4. \A g \in Files : Due(g)' => g # f /\ Due(g)
  <2>1. ~Due(f)'
    <3>1. mtime'[f] \in {None, clock + 1}
      BY DEF Put, Remove, TypeOK
    <3>2. to # None => to \in Nat /\ to <= clock /\ clock \in Nat
      BY DEF TypeOK, TimesArePast
    <3>3. QED
      BY <1>2, <3>1, <3>2 DEF Due, Present
  <2>2. QED
    BY <1>2, <2>1 DEF Due, Present
<1>5. \A g \in Files \ {f} : Landed(g) => Landed(g)'
  BY <1>2 DEF Landed
<1>6. CopyProgress' /\ DueIsLanded'
  BY <1>2, <1>4, <1>5 DEF CopyProgress, DueIsLanded
<1>7. StandingIsThere' /\ ListProgress' /\ InWindow'
  BY <1>2 DEF StandingIsThere, ListProgress, InWindow, Vouched, Present, TypeOK
<1>8. QED
  BY <1>1, <1>3, <1>6, <1>7

-----------------------------------------------------------------------------
(***************************************************************************)
(* The listing: what stands on the pages listed so far is no newer than    *)
(* the newest of them.                                                     *)
(***************************************************************************)
LEMMA ListPageIInv ==
    ASSUME IInv, ListPage
    PROVE  IInv'
<1> USE DEF IInv
<1>1. TypeOK'
  BY InitOperatorTypeOK DEF InitOperator
<1>2. PICK page \in SUBSET Files : Newer(page) /\ unlisted' = unlisted \ page
  BY DEF ListPage, TypeOK
<1>3. UNCHANGED <<mtime, dirTime, clock, to, standing>> /\ pc = "init.list" /\ pc' = pc
  BY DEF ListPage, source, history
<1>4. TimesArePast'
  BY <1>2, <1>3, NewerIsNewest DEF TimesArePast, Present
<1>5. ListProgress'
  <2> SUFFICES ASSUME NEW f \in standing, f \notin unlisted'
               PROVE  latest' # None /\ mtime[f] <= latest'
    BY <1>3 DEF ListProgress
  <2>1. CASE f \in page
    BY <1>2, <2>1, NewerIsNewest DEF StandingIsThere
  <2>2. CASE f \notin page
    <3>1. latest # None /\ mtime[f] <= latest
      BY <1>2, <1>3, <2>2 DEF ListProgress
    <3>2. latest' # None /\ latest <= latest'
      BY <1>2, <3>1, NewerIsNewest
    <3>3. mtime[f] \in Nat /\ latest \in Nat /\ latest' \in Nat
      BY <1>1, <3>1, <3>2 DEF TypeOK, StandingIsThere, Present
    <3>4. QED
      BY <3>1, <3>2, <3>3
  <2>3. QED
    BY <2>1, <2>2
<1>6. StandingIsThere' /\ InWindow' /\ CopyProgress' /\ DueIsLanded'
  BY <1>3 DEF StandingIsThere, Present, InWindow, CopyProgress, DueIsLanded
<1>7. QED
  BY <1>1, <1>4, <1>5, <1>6

LEMMA InitOperatorIInv ==
    ASSUME IInv, InitOperator
    PROVE  IInv'
<1> USE DEF IInv
<1>1. TypeOK'
  BY InitOperatorTypeOK
<1>2. UNCHANGED <<readType, mtime, dirTime, clock>> /\ Present' = Present
  BY DEF InitOperator, StatPath, StartListing, ListPage, CaptureLatest, MaxFileFails, InitFails,
         source, Present
<1>3. CASE ListPage
  BY <1>3, ListPageIInv
<1>4. CASE StartListing
  <2>1. standing' = Present /\ unlisted' = Files /\ latest' = None /\ to' = to /\ pc' = "init.list"
    BY <1>4 DEF StartListing
  <2>2. TimesArePast' /\ StandingIsThere' /\ ListProgress'
    BY <1>2, <2>1 DEF TimesArePast, StandingIsThere, ListProgress, Present
  <2>3. QED
    BY <1>1, <2>1, <2>2 DEF InWindow, CopyProgress, DueIsLanded
<1>5. CASE StatPath \/ CaptureLatest \/ MaxFileFails
  <2>1. /\ pc' = "copy" /\ standing' = standing /\ latest' \in {latest, None}
        /\ to' \in {None, latest, dirTime}
    BY <1>5 DEF StatPath, CaptureLatest, MaxFileFails, history
  <2>2. TimesArePast' /\ StandingIsThere'
    BY <1>2, <2>1 DEF TimesArePast, StandingIsThere
  <2>3. InWindow'
    <3>1. CASE StatPath
      BY <1>2, <3>1 DEF InWindow, StatPath
    <3>2. CASE CaptureLatest
      BY <1>2, <2>1, <3>2 DEF CaptureLatest, ListProgress, InWindow, Vouched
    <3>3. CASE MaxFileFails
      <4>1. to' = None /\ faults' > 0
        BY <3>3 DEF MaxFileFails, Fault, TypeOK
      <4>2. QED
        BY <4>1 DEF InWindow, Vouched
    <3>4. QED
      BY <1>5, <3>1, <3>2, <3>3
  <2>4. QED
    BY <1>1, <2>1, <2>2, <2>3 DEF ListProgress, CopyProgress, DueIsLanded
<1>6. CASE InitFails
  <2>1. pc' \in {"init", "failed"} /\ standing' = standing /\ to' = to /\ latest' = None
    BY <1>6 DEF InitFails, Fail, history
  <2>2. TimesArePast' /\ StandingIsThere'
    BY <1>2, <2>1 DEF TimesArePast, StandingIsThere
  <2>3. QED
    BY <1>1, <2>1, <2>2 DEF ListProgress, InWindow, CopyProgress, DueIsLanded
<1>7. QED
  BY <1>3, <1>4, <1>5, <1>6 DEF InitOperator

-----------------------------------------------------------------------------
(***************************************************************************)
(* Outside the source directory, only the copy itself makes progress.      *)
(***************************************************************************)
LEMMA CopyFileProgress ==
    ASSUME IInv, NEW f \in Files, CopyFile(f)
    PROVE  CopyProgress'
<1>1. /\ UNCHANGED <<pc, to, mtime, target, standing>>
      /\ todo' = todo \ {f} /\ dest' = Copy(f, TRUE)
  BY DEF CopyFile, source, window, history
<1>2. Landed(f)'
  BY <1>1 DEF Landed, Copy
<1>3. \A g \in Files \ {f} : Landed(g) => Landed(g)'
  BY <1>1 DEF Landed, Copy
<1>4. \A g \in Files : Due(g)' => Due(g)
  BY <1>1 DEF Due, Present
<1>5. QED
  BY <1>1, <1>2, <1>3, <1>4 DEF IInv, CopyProgress

LEMMA CopyFromIInv ==
    ASSUME IInv, CopyFrom
    PROVE  IInv'
<1> USE DEF IInv
<1>1. TypeOK'
  BY CopyFromTypeOK
<1>2. UNCHANGED <<source, window, standing>> /\ pc \in CopySteps
  BY DEF CopyFrom, SourceMissing, ChooseTarget, TargetIsDirectory, MkdirsFails, ListFiles,
         CopyFile, FileNotFound, CopyFails, CopyDone, history
<1>3. Present' = Present /\ UNCHANGED <<readType, mtime, dirTime, clock, to, latest>>
  BY <1>2 DEF source, window, Present
<1>4. TimesArePast' /\ StandingIsThere'
  BY <1>2, <1>3 DEF TimesArePast, StandingIsThere
<1>5. pc' # "init.list" /\ faults' >= faults
  <2>1. faults' \in {faults, faults + 1}
    BY DEF CopyFrom, SourceMissing, ChooseTarget, TargetIsDirectory, MkdirsFails, ListFiles,
           CopyFile, FileNotFound, CopyFails, CopyDone, Fault
  <2>2. pc' # "init.list"
    BY <1>2 DEF CopyFrom, SourceMissing, ChooseTarget, TargetIsDirectory, MkdirsFails, ListFiles,
                CopyFile, FileNotFound, CopyFails, CopyDone, Fail
  <2>3. QED
    BY <2>1, <2>2 DEF TypeOK
<1>6. ListProgress'
  BY <1>5 DEF ListProgress
<1>7. InWindow'
  BY <1>1, <1>2, <1>3, <1>5 DEF InWindow, Vouched, TypeOK
<1>8. CASE SourceMissing \/ ChooseTarget \/ TargetIsDirectory \/ MkdirsFails \/ CopyFails
           \/ \E f \in Files : FileNotFound(f)
  <2>1. pc' \in {"copy", "list", "failed"}
    BY <1>8 DEF SourceMissing, ChooseTarget, TargetIsDirectory, MkdirsFails, CopyFails,
                FileNotFound, Fail
  <2>2. QED
    BY <1>1, <1>4, <1>6, <1>7, <2>1 DEF CopyProgress, DueIsLanded
<1>9. CASE ListFiles
  <2>1. pc' = "files" /\ todo' = Present
    BY <1>9 DEF ListFiles
  <2>2. \A f \in Files : Due(f)' => f \in Present
    BY <1>2, <1>3 DEF Due, StandingIsThere
  <2>3. QED
    BY <1>1, <1>4, <1>6, <1>7, <2>1, <2>2 DEF CopyProgress, DueIsLanded
<1>10. ASSUME NEW f \in Files, CopyFile(f) PROVE IInv'
  <2>1. pc' = "files"
    BY <1>10 DEF CopyFile
  <2>2. QED
    BY <1>1, <1>4, <1>6, <1>7, <1>10, <2>1, CopyFileProgress DEF DueIsLanded
<1>11. CASE CopyDone
  <2>1. pc = "files" /\ todo = {} /\ pc' = "metric" /\ UNCHANGED <<target, dest>>
    BY <1>11 DEF CopyDone, copying
  <2>2. DueIsLanded' /\ CopyProgress'
    BY <1>2, <1>3, <2>1 DEF CopyProgress, DueIsLanded, Due, Landed
  <2>3. QED
    BY <1>1, <1>4, <1>6, <1>7, <2>2
<1>12. QED
  BY <1>8, <1>9, <1>10, <1>11 DEF CopyFrom

LEMMA EndIInv ==
    ASSUME IInv, SaveCheckpoint \/ MetricFails \/ NextRun
    PROVE  IInv'
<1> USE DEF IInv
<1>1. TypeOK'
  BY EndTypeOK
<1>2. UNCHANGED <<readType, mtime, dirTime, clock>> /\ Present' = Present
  BY DEF SaveCheckpoint, MetricFails, NextRun, source, Present
<1>3. to' \in {to, None} /\ latest' \in {latest, None} /\ standing' \in {standing, {}}
  BY DEF SaveCheckpoint, MetricFails, NextRun, history
<1>4. TimesArePast' /\ StandingIsThere'
  BY <1>2, <1>3 DEF TimesArePast, StandingIsThere
<1>5. \/ pc' \in {"init"} \cup Ended
      \/ /\ pc = "metric" /\ pc' = "metric"
         /\ UNCHANGED <<to, target, dest, standing>> /\ faults' >= faults
  BY DEF SaveCheckpoint, MetricFails, NextRun, Fail, Fault, copying, history, TypeOK
<1>6. ListProgress' /\ CopyProgress' /\ DueIsLanded'
  BY <1>2, <1>5 DEF ListProgress, CopyProgress, DueIsLanded, Due, Landed
<1>7. InWindow'
  BY <1>1, <1>2, <1>5 DEF InWindow, Vouched, TypeOK
<1>8. QED
  BY <1>1, <1>4, <1>6, <1>7

LEMMA NextIInv == IInv /\ [Next]_vars => IInv'
<1>1. ASSUME IInv, UNCHANGED vars PROVE IInv'
  BY <1>1, NextTypeOK
     DEF vars, source, window, copying, history, IInv, TimesArePast, StandingIsThere,
         ListProgress, InWindow, Vouched, CopyProgress, DueIsLanded, Due, Landed, Present
<1>2. QED
  BY <1>1, SourceIInv, InitOperatorIInv, CopyFromIInv, EndIInv DEF Next, Execute

(***************************************************************************)
(* The inductive invariant of the listing and the copy.                    *)
(***************************************************************************)
THEOREM Invariance == Spec => []IInv
  BY InitIInv, NextIInv, PTL DEF Spec

(***************************************************************************)
(* When the copy has succeeded, each file the checkpoint is about to vouch *)
(* for is at the path of the run, whole and current.                       *)
(***************************************************************************)
THEOREM CopiedWindowIsLanded == Spec => []WindowIsLanded
<1>1. IInv => WindowIsLanded
  BY DEF IInv, DueIsLanded, Due, WindowIsLanded, Present
<1>2. QED
  BY <1>1, Invariance, PTL

(***************************************************************************)
(* On S3, what has stood since the listing began is landed and in the      *)
(* window, whatever comes and goes between its pages.                      *)
(***************************************************************************)
THEOREM StandingFilesAreVouched == Spec => []StandingIsVouched
<1>1. IInv => StandingIsVouched
  BY DEF IInv, TypeOK, InWindow, DueIsLanded, Due, StandingIsVouched
<1>2. QED
  BY <1>1, Invariance, PTL

=============================================================================
