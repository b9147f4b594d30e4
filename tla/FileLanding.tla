---------------------------- MODULE FileLanding ----------------------------
(***************************************************************************)
(* The same DAG for a source that is a directory of files (HDFS, S3): no   *)
(* DataFrame is read, SparkRunOperator copies the directory to the path of *)
(* the run with Hadoop's FileUtil.copy.  Runs follow one another here;     *)
(* each has a path of its own, so they share nothing but the checkpoint.   *)
(*                                                                         *)
(* FileUtil.copy treats a destination that exists like `cp -r` does: it    *)
(* copies into a subdirectory named after the source, and refuses if that  *)
(* is there too.  A run's first try finds nothing at its path; a second    *)
(* one finds what the first left.                                          *)
(***************************************************************************)
EXTENDS Naturals, FiniteSets

CONSTANTS
    Files,       \* names in the source directory
    ReadTypes,   \* of the pipelines considered: "s3", "file" (HDFS)
    Retries,     \* "retries" of the DAG's default_args
    MaxRuns,     \* bound: DAG runs
    MaxTime,     \* bound: changes of the source directory
    MaxFaults,   \* bound: faults of the environment in a run
    None

ASSUME NoneAssumption == None \notin Nat
ASSUME ReadTypesAssumption == ReadTypes \subseteq {"s3", "file"}
ASSUME BoundsAssumption ==
    Retries \in Nat /\ MaxRuns \in Nat \ {0} /\ MaxTime \in Nat /\ MaxFaults \in Nat

VARIABLES
    readType,    \* read_type of the pipeline's configuration, fixed
    mtime,       \* file -> its modification time, None when absent
    dirTime,     \* modification time of the directory itself
    clock,
    checkpoint,  \* the DAG's row in public.checkpoints
    runs,        \* runs so far
    pc, tries,   \* of the current run, like the next ones
    from, to,    \* the window in its RunContext
    unlisted,    \* names on the pages _max_file has not asked for yet
    latest,      \* the newest time on the pages it has
    dirs,        \* directories at its path: "root", "nested"
    target,      \* the one FileUtil.copy copies into
    todo,        \* files of its listing still to copy
    dest,        \* files at its path
    faults

(***************************************************************************)
(* Variables no code keeps: whether, in this run, a file of a listing has  *)
(* vanished before its turn, or the whole source was missing; and the      *)
(* files that stand as they were when _max_file began to list the prefix.  *)
(***************************************************************************)
VARIABLES vanished, standing

source == <<readType, mtime, dirTime, clock>>
window == <<checkpoint, runs, from, to, unlisted, latest>>
copying == <<dirs, target, todo, dest>>
history == <<vanished, standing>>
vars == <<source, window, pc, tries, copying, faults, history>>

Time == 0..MaxTime
Present == {f \in Files : mtime[f] # None}
Copies == [dir : {"root", "nested"}, file : Files, mtime : Time, whole : BOOLEAN]
Ended == {"done", "failed"}
CopySteps == {"copy", "list", "files"}
Steps == {"init", "init.list", "metric"} \cup CopySteps \cup Ended

Init ==
    /\ readType \in ReadTypes
    /\ mtime = [f \in Files |-> None]
    /\ dirTime = 0 /\ clock = 0
    /\ checkpoint = None
    /\ runs = 1
    /\ pc = "init" /\ tries = 0
    /\ from = None /\ to = None
    /\ unlisted = {} /\ latest = None
    /\ dirs = {} /\ target = "root" /\ todo = {} /\ dest = {}
    /\ faults = 0
    /\ vanished = FALSE /\ standing = {}

Fault == faults < MaxFaults /\ faults' = faults + 1

-----------------------------------------------------------------------------
(***************************************************************************)
(* Another system works in the source directory.  Only what adds or        *)
(* removes a name touches the directory itself.                            *)
(***************************************************************************)
Put(f) ==
    /\ clock < MaxTime
    /\ clock' = clock + 1
    /\ mtime' = [mtime EXCEPT ![f] = clock']
    /\ dirTime' = IF mtime[f] = None THEN clock' ELSE dirTime
    /\ standing' = standing \ {f}
    /\ UNCHANGED <<readType, window, pc, tries, copying, faults, vanished>>

Remove(f) ==
    /\ clock < MaxTime
    /\ mtime[f] # None
    /\ clock' = clock + 1
    /\ mtime' = [mtime EXCEPT ![f] = None]
    /\ dirTime' = clock'
    /\ vanished' = (vanished \/ f \in todo)
    /\ standing' = standing \ {f}
    /\ UNCHANGED <<readType, window, pc, tries, copying, faults>>

-----------------------------------------------------------------------------
Fail_MutantOneTooMany(start) ==
    \/ tries <= Retries /\ tries' = tries + 1 /\ pc' = start
    \/ tries > Retries /\ pc' = "failed" /\ UNCHANGED tries

(***************************************************************************)
(* The current task fails: Airflow runs it again from its start, or fails  *)
(* the run.                                                                *)
(***************************************************************************)
Fail(start) ==
    \/ tries < Retries /\ tries' = tries + 1 /\ pc' = start
    \/ tries >= Retries /\ pc' = "failed" /\ UNCHANGED tries

(***************************************************************************)
(* InitOperator, whose from is fetched first.  On HDFS _max_file asks for  *)
(* `hdfs dfs -stat %y` of the path, for a directory the directory's time.  *)
(***************************************************************************)
StatPath ==
    /\ pc = "init"
    /\ readType = "file"
    /\ from' = checkpoint
    /\ to' = dirTime
    /\ pc' = "copy" /\ tries' = 0
    /\ UNCHANGED <<source, checkpoint, runs, unlisted, latest, copying, faults, history>>

(***************************************************************************)
(* On S3 it takes the newest LastModified under the prefix.  The paginator *)
(* makes a request for each page: a page shows its names as they are then. *)
(***************************************************************************)
StartListing ==
    /\ pc = "init"
    /\ readType = "s3"
    /\ from' = checkpoint
    /\ unlisted' = Files
    /\ latest' = None
    /\ standing' = Present
    /\ pc' = "init.list"
    /\ UNCHANGED <<source, checkpoint, runs, to, tries, copying, faults, vanished>>

Newest(t, times) == t \in times /\ \A u \in times : u <= t

(***************************************************************************)
(* The newest of the times on the page and before it.                      *)
(***************************************************************************)
Newer(page) ==
    LET times == {mtime[f] : f \in page \cap Present} \cup ({latest} \ {None})
    IN  IF times = {} THEN latest' = None ELSE \E t \in times : Newest(t, times) /\ latest' = t

ListPage ==
    /\ pc = "init.list"
    /\ \E page \in SUBSET unlisted \ {{}} :
        /\ Newer(page)
        /\ unlisted' = unlisted \ page
    /\ UNCHANGED <<source, checkpoint, runs, from, to, pc, tries, copying, faults, history>>

CaptureLatest_MutantFirstPage ==
    /\ pc = "init.list"
    /\ unlisted # Files
    /\ to' = latest
    /\ unlisted' = {} /\ latest' = None
    /\ pc' = "copy" /\ tries' = 0
    /\ UNCHANGED <<source, checkpoint, runs, from, copying, faults, history>>

CaptureLatest ==
    /\ pc = "init.list"
    /\ unlisted = {}
    /\ to' = latest
    /\ latest' = None
    /\ pc' = "copy" /\ tries' = 0
    /\ UNCHANGED <<source, checkpoint, runs, from, unlisted, copying, faults, history>>

(***************************************************************************)
(* A failing _max_file leaves checkpoint_to None.                          *)
(***************************************************************************)
MaxFileFails ==
    /\ pc \in {"init", "init.list"}
    /\ from' = checkpoint
    /\ to' = None
    /\ unlisted' = {} /\ latest' = None
    /\ pc' = "copy" /\ tries' = 0
    /\ Fault
    /\ UNCHANGED <<source, checkpoint, runs, copying, history>>

InitFails ==
    /\ pc \in {"init", "init.list"}
    /\ from' = None
    /\ unlisted' = {} /\ latest' = None
    /\ Fail("init")
    /\ Fault
    /\ UNCHANGED <<source, checkpoint, runs, to, copying, history>>

-----------------------------------------------------------------------------
(***************************************************************************)
(* FileUtil.checkDest and mkdirs.                                          *)
(***************************************************************************)
ChooseTarget ==
    /\ pc = "copy"
    /\ "nested" \notin dirs
    /\ target' = IF "root" \in dirs THEN "nested" ELSE "root"
    /\ dirs' = dirs \cup {target'}
    /\ pc' = "list"
    /\ UNCHANGED <<source, window, tries, todo, dest, faults, history>>

(***************************************************************************)
(* A prefix under which nothing is left is no directory on S3, unless it   *)
(* has a marker object.                                                    *)
(***************************************************************************)
SourceMissing ==
    /\ pc \in {"copy", "list"}
    /\ readType = "s3" /\ Present = {}
    /\ vanished' = TRUE
    /\ Fail("copy")
    /\ UNCHANGED <<source, window, copying, faults, standing>>

TargetIsDirectory ==
    /\ pc = "copy"
    /\ "nested" \in dirs
    /\ Fail("copy")
    /\ UNCHANGED <<source, window, copying, faults, history>>

MkdirsFails_MutantUnchecked ==
    /\ pc = "copy"
    /\ "nested" \notin dirs
    /\ pc' = "metric" /\ tries' = 0
    /\ Fault
    /\ UNCHANGED <<source, window, copying, history>>

(***************************************************************************)
(* mkdirs may be refused: copy returns false, and copy_from raises.        *)
(***************************************************************************)
MkdirsFails ==
    /\ pc = "copy"
    /\ "nested" \notin dirs
    /\ Fail("copy")
    /\ Fault
    /\ UNCHANGED <<source, window, copying, history>>

ListFiles ==
    /\ pc = "list"
    /\ todo' = Present
    /\ pc' = "files"
    /\ UNCHANGED <<source, window, tries, dirs, target, dest, faults, history>>

Copy(f, whole) ==
    {rec \in dest : rec.dir # target \/ rec.file # f} \cup
        {[dir |-> target, file |-> f, mtime |-> mtime[f], whole |-> whole]}

CopyFile(f) ==
    /\ pc = "files"
    /\ f \in todo \cap Present
    /\ dest' = Copy(f, TRUE)
    /\ todo' = todo \ {f}
    /\ UNCHANGED <<source, window, pc, tries, dirs, target, faults, history>>

(***************************************************************************)
(* A file of the listing is gone when its turn comes.                      *)
(***************************************************************************)
FileNotFound(f) ==
    /\ pc = "files"
    /\ f \in todo \ Present
    /\ Fail("copy")
    /\ todo' = {}
    /\ UNCHANGED <<source, window, dirs, target, dest, faults, history>>

(***************************************************************************)
(* An I/O error, or the death of the worker: in a sink on HDFS part of a   *)
(* file may remain, an unfinished S3 upload is not visible.                *)
(***************************************************************************)
CopyFails ==
    /\ pc \in {"list", "files"}
    /\ \/ UNCHANGED dest
       \/ \E f \in todo \cap Present : dest' = Copy(f, FALSE)
    /\ todo' = {}
    /\ Fail("copy")
    /\ Fault
    /\ UNCHANGED <<source, window, dirs, target, history>>

CopyDone ==
    /\ pc = "files"
    /\ todo = {}
    /\ pc' = "metric" /\ tries' = 0
    /\ UNCHANGED <<source, window, copying, faults, history>>

-----------------------------------------------------------------------------
(***************************************************************************)
(* MetricPushOperator: here only whether the checkpoint is saved.          *)
(***************************************************************************)
SaveCheckpoint ==
    /\ pc = "metric"
    /\ checkpoint' = IF to = None THEN checkpoint ELSE to
    /\ pc' = "done" /\ tries' = 0
    /\ UNCHANGED <<source, runs, from, to, unlisted, latest, copying, faults, history>>

MetricFails ==
    /\ pc = "metric"
    /\ checkpoint' \in {checkpoint, IF to = None THEN checkpoint ELSE to}
    /\ Fail("metric")
    /\ Fault
    /\ UNCHANGED <<source, runs, from, to, unlisted, latest, copying, history>>

NextRun ==
    /\ pc \in Ended
    /\ runs < MaxRuns
    /\ runs' = runs + 1
    /\ pc' = "init" /\ tries' = 0
    /\ from' = None /\ to' = None
    /\ unlisted' = {} /\ latest' = None
    /\ dirs' = {} /\ target' = "root" /\ todo' = {} /\ dest' = {}
    /\ faults' = 0
    /\ vanished' = FALSE /\ standing' = {}
    /\ UNCHANGED <<source, checkpoint>>

-----------------------------------------------------------------------------
CopyFrom ==
    \/ SourceMissing \/ ChooseTarget \/ TargetIsDirectory \/ MkdirsFails \/ ListFiles
    \/ \E f \in Files : CopyFile(f) \/ FileNotFound(f)
    \/ CopyFails \/ CopyDone

InitOperator ==
    StatPath \/ StartListing \/ ListPage \/ CaptureLatest \/ MaxFileFails \/ InitFails

Execute == InitOperator \/ CopyFrom \/ SaveCheckpoint \/ MetricFails

Next == (\E f \in Files : Put(f) \/ Remove(f)) \/ NextRun \/ Execute

Spec == Init /\ [][Next]_vars

-----------------------------------------------------------------------------
(***************************************************************************)
(* Times are times of the clock, at a path are copies of files.            *)
(***************************************************************************)
TypeOK ==
    /\ readType \in ReadTypes
    /\ mtime \in [Files -> Time \cup {None}]
    /\ dirTime \in Time /\ clock \in Time
    /\ checkpoint \in Time \cup {None}
    /\ runs \in 1..MaxRuns
    /\ pc \in Steps /\ tries \in 0..Retries
    /\ from \in Time \cup {None} /\ to \in Time \cup {None}
    /\ unlisted \subseteq Files /\ latest \in Time \cup {None}
    /\ dirs \subseteq {"root", "nested"} /\ target \in {"root", "nested"}
    /\ todo \subseteq Files /\ dest \subseteq Copies
    /\ faults \in 0..MaxFaults
    /\ vanished \in BOOLEAN /\ standing \subseteq Files

(***************************************************************************)
(* When the copy has succeeded, whatever the tries before it left behind   *)
(* and whatever happened in the directory meanwhile, each file the         *)
(* checkpoint is about to vouch for is at the path of the run, whole and   *)
(* current.                                                                *)
(***************************************************************************)
Landed(f) == [dir |-> target, file |-> f, mtime |-> mtime[f], whole |-> TRUE] \in dest

WindowIsLanded ==
    pc = "metric" /\ to # None => \A f \in Present : mtime[f] <= to => Landed(f)

(***************************************************************************)
(* On S3, a file that has stood unchanged since _max_file asked for its    *)
(* first page is landed and in the window the checkpoint is about to vouch *)
(* for, whatever comes and goes between two pages, or later; only a fault  *)
(* leaves the run without a window.                                        *)
(***************************************************************************)
Vouched(f) == IF to = None THEN faults > 0 ELSE mtime[f] <= to

StandingIsVouched ==
    readType = "s3" /\ pc = "metric" => \A f \in standing : Landed(f) /\ Vouched(f)

(***************************************************************************)
(* README, "retries": "Number of automatic retries".  A run whose source   *)
(* keeps its files should only fail after more faults than that.           *)
(***************************************************************************)
RetriesAreUsable == pc = "failed" => vanished \/ faults > Retries

=============================================================================
