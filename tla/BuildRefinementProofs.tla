------------------------ MODULE BuildRefinementProofs ------------------------
(***************************************************************************)
(* The build queue implements BuildJobs: every behaviour of rows, handlers *)
(* and worker, with its races, crashes and restarts, is one of the queue   *)
(* that submits in order, executes one job at a time and publishes only    *)
(* what it executes.                                                       *)
(***************************************************************************)
EXTENDS BuildStagesProofs

\* The refinement mapping of Jobs, by its parts.
StageOfJob(p, v) ==
  CASE run[p][v]["BUILD"] = "ABSENT"  -> "none"
    [] run[p][v]["BUILD"] = "PENDING" -> "queued"
    [] OTHER                          -> "closed"
jobs == [p \in Pipelines |-> [v \in Versions |-> StageOfJob(p, v)]]
current == IF worker.pc \in {"idle", "claiming"} THEN None ELSE <<worker.p, worker.v>>

\* BuildJobs under the mapping, spelled out.
LEMMA JobsInitMeaning ==
  Jobs!Init <=> /\ jobs = [p \in Pipelines |-> [v \in Versions |-> "none"]]
                /\ current = None
                /\ packaged = {}
BY DEF Jobs!Init, Jobs!Versions, Versions, jobs, current, StageOfJob

LEMMA JobsStutter ==
  ASSUME UNCHANGED <<jobs, current, packaged>>
  PROVE  UNCHANGED Jobs!vars
BY DEF Jobs!vars, jobs, current, StageOfJob

LEMMA JobsSubmit ==
  ASSUME NEW p \in Pipelines, NEW v \in Versions,
         jobs[p][v] = "none",
         \A w \in 1..(v - 1) : jobs[p][w] = "closed" /\ current # <<p, w>>,
         jobs' = [jobs EXCEPT ![p][v] = "queued"],
         UNCHANGED <<current, packaged>>
  PROVE  Jobs!Next
<1>1. Jobs!Submit(p, v)
  BY DEF Jobs!Submit, Jobs!Settled, jobs, current, StageOfJob
<1> QED BY <1>1 DEF Jobs!Next, Jobs!Versions, Versions

LEMMA JobsDrop ==
  ASSUME NEW p \in Pipelines, NEW v \in Versions,
         jobs[p][v] = "queued",
         jobs' = [jobs EXCEPT ![p][v] = "closed"],
         UNCHANGED <<current, packaged>>
  PROVE  Jobs!Next
<1>1. Jobs!Drop(p, v)
  BY DEF Jobs!Drop, jobs, current, StageOfJob
<1> QED BY <1>1 DEF Jobs!Next, Jobs!Versions, Versions

LEMMA JobsStart ==
  ASSUME NEW p \in Pipelines, NEW v \in Versions,
         current = None, jobs[p][v] = "queued",
         jobs' = [jobs EXCEPT ![p][v] = "closed"], current' = <<p, v>>,
         UNCHANGED packaged
  PROVE  Jobs!Next
<1>1. Jobs!Start(p, v)
  BY DEF Jobs!Start, jobs, current, StageOfJob
<1> QED BY <1>1 DEF Jobs!Next, Jobs!Versions, Versions

LEMMA JobsPublish ==
  ASSUME current # None, packaged' = packaged \cup {current}, UNCHANGED <<jobs, current>>
  PROVE  Jobs!Next
<1>1. Jobs!Publish
  BY DEF Jobs!Publish, jobs, current, StageOfJob
<1> QED BY <1>1 DEF Jobs!Next

LEMMA JobsEnd ==
  ASSUME current # None, current' = None, UNCHANGED <<jobs, packaged>>
  PROVE  Jobs!Next
<1>1. Jobs!End
  BY DEF Jobs!End, jobs, current, StageOfJob
<1> QED BY <1>1 DEF Jobs!Next

-----------------------------------------------------------------------------
(* How a step moves the jobs.                                              *)

\* Jobs stay as they are when the BUILD runs do, up to how they ended.
LEMMA SameJobs ==
  ASSUME \A p \in Pipelines, v \in Versions :
           \/ run'[p][v]["BUILD"] = run[p][v]["BUILD"]
           \/ /\ run[p][v]["BUILD"] \notin {"ABSENT", "PENDING"}
              /\ run'[p][v]["BUILD"] \notin {"ABSENT", "PENDING"}
  PROVE  UNCHANGED jobs
BY DEF jobs, StageOfJob

\* Where one BUILD run changes, one job moves.
LEMMA OneJobMoves ==
  ASSUME NEW p \in Pipelines, NEW v \in Versions,
         \A q \in Pipelines, w \in Versions :
           <<q, w>> # <<p, v>> => run'[q][w]["BUILD"] = run[q][w]["BUILD"]
  PROVE  /\ run'[p][v]["BUILD"] = "PENDING" => jobs' = [jobs EXCEPT ![p][v] = "queued"]
         /\ run'[p][v]["BUILD"] \notin {"ABSENT", "PENDING"} =>
              jobs' = [jobs EXCEPT ![p][v] = "closed"]
<1> DEFINE moved(x) == [jobs EXCEPT ![p][v] = x]
<1>1. \A q \in Pipelines, w \in Versions :
        /\ jobs[q][w] = StageOfJob(q, w)
        /\ jobs'[q][w] = StageOfJob(q, w)'
  BY DEF jobs
<1>2. \A q \in Pipelines, w \in Versions :
        <<q, w>> # <<p, v>> => StageOfJob(q, w)' = StageOfJob(q, w)
  BY DEF StageOfJob
<1>3. ASSUME NEW x, StageOfJob(p, v)' = x PROVE jobs' = moved(x)
  <2>1. moved(x) = [q \in Pipelines |-> [w \in Versions |->
                     IF <<q, w>> = <<p, v>> THEN x ELSE StageOfJob(q, w)]]
    BY DEF jobs
  <2>2. jobs' = [q \in Pipelines |-> [w \in Versions |-> StageOfJob(q, w)']]
    BY DEF jobs
  <2> HIDE DEF moved
  <2> QED BY <1>2, <1>3, <2>1, <2>2
<1>4. /\ run'[p][v]["BUILD"] = "PENDING" => StageOfJob(p, v)' = "queued"
      /\ run'[p][v]["BUILD"] \notin {"ABSENT", "PENDING"} => StageOfJob(p, v)' = "closed"
  BY DEF StageOfJob
<1> QED BY <1>3, <1>4

LEMMA StageOfRun ==
  ASSUME NEW p \in Pipelines, NEW v \in Versions
  PROVE  /\ jobs[p][v] = "none" <=> run[p][v]["BUILD"] = "ABSENT"
         /\ jobs[p][v] = "queued" <=> Pending(p, v)
         /\ jobs[p][v] = "closed" <=> run[p][v]["BUILD"] \notin {"ABSENT", "PENDING"}
BY DEF jobs, StageOfJob, Pending

LEMMA CurrentIsHeld ==
  ASSUME Typed
  PROVE  /\ current = None <=> worker.pc \in {"idle", "claiming"}
         /\ \A p \in Pipelines, v \in Versions : current = <<p, v>> => Holds(p, v)
<1>1. worker.pc \notin {"idle", "claiming"} => <<worker.p, worker.v>> \in Pipelines \X (1..MaxVersion)
  BY DEF Typed, LocalsAreReal, RealJob, Versions
<1>2. None \notin Pipelines \X (1..MaxVersion)
  BY QueueAssumption
<1> QED BY <1>1, <1>2 DEF current, Holds, Versions

-----------------------------------------------------------------------------
(* Every step is a step of BuildJobs or a stutter.                         *)

LEMMA EnqueueCommitSubmits ==
  ASSUME Typed, JobInv, StageInv, NEW c \in Clients, EnqueueCommit(c)
  PROVE  Jobs!Next
<1> DEFINE p == client[c].p
           v == client[c].version
<1>1. p \in Pipelines /\ v \in Versions /\ VersionFree(p, v) /\ client[c].pc = "enqueue"
  BY DEF EnqueueCommit, Typed, LocalsAreReal, RealRequest
<1>2. v = activeVersion[p] + 1 /\ \A w \in Versions : ~LiveJob(p, w)
  BY <1>1 DEF JobInv, VersionRowsContiguous, EnqueueFindsNoLiveJob
<1>3. /\ run'[p][v]["BUILD"] = "PENDING"
      /\ \A q \in Pipelines, w \in Versions :
           <<q, w>> # <<p, v>> => run'[q][w]["BUILD"] = run[q][w]["BUILD"]
  <2>1. "BUILD" \in Stages /\ "PENDING" \in RunStatus /\ SetRun(p, v, "BUILD", "PENDING")
    BY DEF EnqueueCommit, Stages, RunStatus
  <2> QED BY <1>1, <2>1, SetRunTyped DEF Typed, TypeOK
<1>4. UNCHANGED <<worker, packaged>>
  BY DEF EnqueueCommit
<1> HIDE DEF p, v
<1>5. jobs[p][v] = "none"
  BY <1>1, StageOfRun DEF StageInv, VersionRowsHaveRuns, Stages
<1>6. \A w \in 1..(v - 1) : jobs[p][w] = "closed" /\ current # <<p, w>>
  <2> SUFFICES ASSUME NEW w \in 1..(v - 1)
               PROVE  jobs[p][w] = "closed" /\ current # <<p, w>>
    OBVIOUS
  <2>1. activeVersion[p] \in Nat /\ w \in Versions /\ ~(w > activeVersion[p])
    BY <1>1, <1>2, QueueAssumption DEF Versions, Typed, TypeOK
  <2>2. ~VersionFree(p, w)
    BY <1>1, <2>1 DEF JobInv, VersionRowsContiguous
  <2>3. run[p][w]["BUILD"] # "ABSENT"
    BY <1>1, <2>1, <2>2 DEF StageInv, VersionRowsHaveRuns
  <2> QED BY <1>1, <1>2, <2>1, <2>3, StageOfRun, CurrentIsHeld DEF LiveJob, Pending
<1>7. jobs' = [jobs EXCEPT ![p][v] = "queued"]
  BY <1>1, <1>3, OneJobMoves
<1>8. UNCHANGED current
  BY <1>4 DEF current
<1> QED BY <1>1, <1>4, <1>5, <1>6, <1>7, <1>8, JobsSubmit

\* Only the active version of a pipeline can wait, so a cancellation drops at most one job.
LEMMA CancelDrops ==
  ASSUME Typed, JobInv, NEW c \in Clients, CancelPendingRuns(c)
  PROVE  Jobs!Next \/ UNCHANGED <<jobs, current, packaged>>
<1> DEFINE p == client[c].p
           v == activeVersion[p]
<1>1. p \in Pipelines /\ UNCHANGED <<worker, packaged>>
  BY DEF CancelPendingRuns, Typed, LocalsAreReal, RealRequest
<1>2. \A q \in Pipelines, w \in Versions :
        run'[q][w]["BUILD"] = IF q = p /\ Pending(q, w) THEN "CANCELLED" ELSE run[q][w]["BUILD"]
  BY <1>1 DEF CancelPendingRuns, CancellableRun, Pending, Stages, Typed, TypeOK
<1>3. \A w \in Versions : Pending(p, w) => w = v
  BY <1>1 DEF JobInv, LiveJobBlocksRequeue
<1>4. UNCHANGED current
  BY <1>1 DEF current
<1> HIDE DEF p, v
<1>5. CASE \A w \in Versions : ~Pending(p, w)
  BY <1>1, <1>2, <1>4, <1>5, SameJobs
<1>6. ASSUME NEW w \in Versions, Pending(p, w) PROVE Jobs!Next
  <2>1. /\ run'[p][w]["BUILD"] = "CANCELLED"
        /\ \A q \in Pipelines, u \in Versions :
             <<q, u>> # <<p, w>> => run'[q][u]["BUILD"] = run[q][u]["BUILD"]
    BY <1>1, <1>2, <1>3, <1>6
  <2>2. jobs' = [jobs EXCEPT ![p][w] = "closed"]
    BY <1>1, <2>1, OneJobMoves
  <2>3. jobs[p][w] = "queued"
    BY <1>1, <1>6, StageOfRun
  <2> QED BY <1>1, <1>4, <2>2, <2>3, JobsDrop
<1> QED BY <1>5, <1>6

LEMMA ClaimStarts ==
  ASSUME Typed, NEW p \in Pipelines, NEW v \in Versions, Claim(p, v)
  PROVE  Jobs!Next
<1>1. /\ run'[p][v]["BUILD"] = "RUNNING"
      /\ \A q \in Pipelines, w \in Versions :
           <<q, w>> # <<p, v>> => run'[q][w]["BUILD"] = run[q][w]["BUILD"]
  <2>1. "BUILD" \in Stages /\ "RUNNING" \in RunStatus /\ SetRun(p, v, "BUILD", "RUNNING")
    BY DEF Claim, Stages, RunStatus
  <2> QED BY <2>1, SetRunTyped DEF Typed, TypeOK
<1>2. jobs' = [jobs EXCEPT ![p][v] = "closed"]
  BY <1>1, OneJobMoves
<1>3. jobs[p][v] = "queued"
  BY StageOfRun DEF Claim
<1>4. current = None /\ current' = <<p, v>> /\ UNCHANGED packaged
  BY DEF Claim, current, Typed, TypeOK, WorkerRecord
<1> QED BY <1>2, <1>3, <1>4, JobsStart

\* Steps that change no job: the worker keeps the job it holds or lets go of it.
LEMMA WorkerMovesNoJob ==
  ASSUME Typed, Typed', UNCHANGED <<jobs, packaged>>,
         \/ worker'.pc \in {"idle", "claiming"}
         \/ /\ worker.pc \notin {"idle", "claiming"}
            /\ worker'.p = worker.p /\ worker'.v = worker.v
  PROVE  Jobs!Next \/ UNCHANGED <<jobs, current, packaged>>
<1>1. CASE worker'.pc \in {"idle", "claiming"}
  <2>1. current' = None
    BY <1>1 DEF current
  <2> QED BY <2>1, JobsEnd
<1>2. CASE worker'.pc \notin {"idle", "claiming"}
  BY <1>2 DEF current
<1> QED BY <1>1, <1>2

LEMMA ClientImplements ==
  ASSUME Typed, Typed', JobInv, StageInv, NEW c \in Clients, ClientStep(c)
  PROVE  Jobs!Next \/ UNCHANGED <<jobs, current, packaged>>
<1> USE DEF db, runRows
<1>1. CASE EnqueueCommit(c) \/ CancelPendingRuns(c)
  BY <1>1, EnqueueCommitSubmits, CancelDrops
<1>2. CASE ~EnqueueCommit(c) /\ ~CancelPendingRuns(c)
  <2>1. UNCHANGED <<run, packaged>>
    BY <1>2 DEF ClientStep, RequestBuild, SaveSpec, RenderFails, EnqueueRead, EnqueueAborts,
       RespondBuild, RequestCancel, CancelJob, CancelRead, CancelWrite
  <2>2. /\ worker'.p = worker.p /\ worker'.v = worker.v
        /\ worker'.pc = worker.pc \/ worker'.pc = "claiming"
    <3>1. worker' = worker \/ ProcessNext \/ AbortJob
      BY <1>2 DEF ClientStep, RequestBuild, SaveSpec, RenderFails, EnqueueRead,
         EnqueueAborts, RespondBuild, RequestCancel, CancelJob, CancelRead, CancelWrite
    <3>2. worker \in WorkerRecord
      BY DEF Typed, TypeOK
    <3> QED BY <3>1, <3>2, AbortJobTyped DEF ProcessNext, WorkerRecord
  <2>3. UNCHANGED jobs
    BY <2>1, SameJobs
  <2> QED BY <2>1, <2>2, <2>3, WorkerMovesNoJob
<1> QED BY <1>1, <1>2

LEMMA WorkerImplements ==
  ASSUME Typed, Typed', StageInv, Poll \/ WorkerStep
  PROVE  Jobs!Next \/ UNCHANGED <<jobs, current, packaged>>
<1> USE DEF db, runRows
<1>0. worker \in WorkerRecord
  BY DEF Typed, TypeOK
<1>1. ASSUME NEW p \in Pipelines, NEW v \in Versions, Claim(p, v) PROVE Jobs!Next
  BY <1>1, ClaimStarts
<1>2. CASE SaveArtifacts
  <2>1. /\ packaged' = packaged \cup {<<worker.p, worker.v>>} /\ UNCHANGED run
        /\ worker.pc = "save" /\ worker'.pc = "assert"
        /\ worker'.p = worker.p /\ worker'.v = worker.v
    BY <1>0, <1>2 DEF SaveArtifacts, WorkerRecord
  <2>2. current = <<worker.p, worker.v>> /\ UNCHANGED current /\ current # None
    BY <2>1, CurrentIsHeld DEF current
  <2>3. UNCHANGED jobs
    BY <2>1, SameJobs
  <2> QED BY <2>1, <2>2, <2>3, JobsPublish
<1>3. CASE CreateStageRun \/ FinishRun
  <2>1. /\ worker.p \in Pipelines /\ worker.v \in Versions /\ worker.stage \in Stages
        /\ worker.pc \notin {"idle", "claiming"} /\ UNCHANGED packaged
    BY <1>3 DEF Typed, LocalsAreReal, RealJob, TypeOK, WorkerRecord, CreateStageRun, FinishRun
  <2>2. worker'.p = worker.p /\ worker'.v = worker.v
    <3>1. CASE CreateStageRun
      BY <1>0, <3>1 DEF CreateStageRun, WorkerRecord
    <3>2. CASE FinishRun
      BY <1>0, <3>2, ThrowTyped DEF FinishRun, AfterStage, WorkerRecord, Stages
    <3> QED BY <1>3, <3>1, <3>2
  <2>3. \A p \in Pipelines, v \in Versions :
          \/ run'[p][v]["BUILD"] = run[p][v]["BUILD"]
          \/ /\ run[p][v]["BUILD"] \notin {"ABSENT", "PENDING"}
             /\ run'[p][v]["BUILD"] \notin {"ABSENT", "PENDING"}
    <3>1. CASE CreateStageRun
      <4>1. worker.stage # "BUILD"
        BY <3>1 DEF CreateStageRun, StageInv, StageIsRecorded
      <4> QED BY <2>1, <3>1, <4>1 DEF CreateStageRun, SetRun, Typed, TypeOK, Stages
    <3>2. CASE FinishRun
      <4>1. /\ worker.outcome \in EndStatus
            /\ run[worker.p][worker.v][worker.stage] = "RUNNING"
        <5>1. worker.stage \notin StagesBefore(worker.stage)
          BY <2>1 DEF StagesBefore, Stages
        <5> QED BY <2>1, <3>2, <5>1 DEF FinishRun, StageInv, StageIsRecorded, RunsOfJob
      <4>2. run' = [run EXCEPT ![worker.p][worker.v][worker.stage] = worker.outcome]
        BY <3>2 DEF FinishRun, SetRun
      <4> QED BY <2>1, <4>1, <4>2 DEF EndStatus, Typed, TypeOK, Stages
    <3> QED BY <1>3, <3>1, <3>2
  <2>4. UNCHANGED jobs
    BY <2>3, SameJobs
  <2> QED BY <2>1, <2>2, <2>4, WorkerMovesNoJob
<1>4. CASE \/ Poll \/ NothingToClaim \/ Activate \/ WorkerRead \/ WorkerRefused \/ WorkerRejects
           \/ WorkerWrite \/ Spawn \/ PrepareFails \/ CheckOutput \/ Catch
           \/ \E o \in EndStatus : ChildExits(o)
  <2>1. UNCHANGED <<run, packaged>>
    BY <1>4 DEF Poll, NothingToClaim, Activate, WorkerRead, WorkerRefused, WorkerRejects, Die,
       WorkerWrite, Spawn, PrepareFails, ChildExits, CheckOutput, Catch
  <2>2. \/ worker'.pc \in {"idle", "claiming"}
        \/ /\ worker.pc \notin {"idle", "claiming"}
           /\ worker'.p = worker.p /\ worker'.v = worker.v
    <3>1. CASE Poll \/ NothingToClaim \/ WorkerRejects
      BY <1>0, <3>1
      DEF Poll, ProcessNext, NothingToClaim, WorkerRejects, Die, Release, IdleWorker, WorkerRecord
    <3>2. CASE Activate \/ WorkerRead \/ Spawn \/ PrepareFails \/ \E o \in EndStatus : ChildExits(o)
      BY <1>0, <3>2 DEF Activate, WorkerRead, Spawn, PrepareFails, ChildExits, WorkerRecord
    <3>3. CASE WorkerRefused
      BY <1>0, <3>3, ThrowTyped DEF WorkerRefused
    <3>4. CASE CheckOutput
      <4>1. CASE worker' = [worker EXCEPT !.pc = "save"]
        BY <1>0, <3>4, <4>1 DEF CheckOutput, WorkerRecord
      <4>2. CASE worker' = Throw(worker)
        BY <1>0, <3>4, <4>2, ThrowTyped DEF CheckOutput
      <4> QED BY <3>4, <4>1, <4>2 DEF CheckOutput
    <3>5. CASE WorkerWrite
      <4>1. CASE worker' = IdleWorker
        BY <4>1 DEF IdleWorker
      <4>2. CASE worker' # IdleWorker
        BY <1>0, <3>5, <4>2 DEF WorkerWrite, Release, WorkerRecord
      <4> QED BY <4>1, <4>2
    <3>6. CASE Catch
      <4>1. CASE worker' = IdleWorker
        BY <4>1 DEF IdleWorker
      <4>2. CASE worker' # IdleWorker
        BY <1>0, <3>6, <4>2 DEF Catch, Release, WorkerRecord
      <4> QED BY <4>1, <4>2
    <3> QED BY <1>4, <3>1, <3>2, <3>3, <3>4, <3>5, <3>6
  <2>3. UNCHANGED jobs
    BY <2>1, SameJobs
  <2> QED BY <2>1, <2>2, <2>3, WorkerMovesNoJob
<1> QED BY <1>1, <1>2, <1>3, <1>4 DEF WorkerStep

LEMMA ProcessImplements ==
  ASSUME Typed, Typed', JobInv, ProcessStep
  PROVE  Jobs!Next \/ UNCHANGED <<jobs, current, packaged>>
<1> USE DEF db, runRows
<1>1. UNCHANGED packaged
  BY DEF ProcessStep, Shutdown, Exit, Crash, Restart
<1>2. UNCHANGED jobs
  <2>1. CASE Restart
    <3>1. \A p \in Pipelines, v \in Versions :
            \/ run'[p][v]["BUILD"] = run[p][v]["BUILD"]
            \/ run[p][v]["BUILD"] = "RUNNING" /\ run'[p][v]["BUILD"] = "FAILED_INTERRUPTED"
      BY <2>1 DEF Restart, Stages
    <3> QED BY <3>1, SameJobs
  <2>2. CASE ~Restart
    BY <2>2, SameJobs DEF ProcessStep, Shutdown, Exit, Crash
  <2> QED BY <2>1, <2>2
<1>3. \/ worker'.pc = "idle"
      \/ worker'.pc = worker.pc /\ worker'.p = worker.p /\ worker'.v = worker.v
  <2>1. CASE Shutdown
    BY <2>1, AbortJobTyped DEF Shutdown, Typed, TypeOK
  <2>2. CASE ~Shutdown
    BY <2>2 DEF ProcessStep, Exit, Crash, Restart, IdleWorker
  <2> QED BY <2>1, <2>2
<1> QED BY <1>1, <1>2, <1>3, WorkerMovesNoJob

LEMMA InitImplements == Init => Jobs!Init
<1> SUFFICES ASSUME Init PROVE Jobs!Init
  OBVIOUS
<1>1. jobs = [p \in Pipelines |-> [v \in Versions |-> "none"]]
  BY DEF Init, jobs, StageOfJob, Stages
<1>2. current = None /\ packaged = {}
  BY DEF Init, current, IdleWorker
<1> QED BY <1>1, <1>2, JobsInitMeaning

LEMMA NextImplements ==
  ASSUME Typed, Typed', JobInv, StageInv, [Next]_vars
  PROVE  [Jobs!Next]_(Jobs!vars)
<1>1. CASE UNCHANGED vars
  BY <1>1 DEF vars, db, runRows, Jobs!vars
<1>2. CASE Next
  BY <1>2, ClientImplements, WorkerImplements, ProcessImplements, JobsStutter DEF Next
<1> QED BY <1>1, <1>2

\* The queue of rows, handlers and worker implements BuildJobs.
THEOREM QueueImplementsJobs == Spec => ImplementsBuildJobs
<1>1. Init => Jobs!Init
  BY InitImplements
<1>2. Typed /\ Typed' /\ JobInv /\ StageInv /\ [Next]_vars => [Jobs!Next]_(Jobs!vars)
  BY NextImplements
<1> QED BY <1>1, <1>2, AlwaysTyped, JobsFitTogether, StagesFitTogether, PTL
    DEF Spec, ImplementsBuildJobs, Jobs!Spec

=============================================================================
