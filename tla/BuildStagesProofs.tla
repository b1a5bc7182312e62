------------------------- MODULE BuildStagesProofs -------------------------
(***************************************************************************)
(* Proofs about runs and stages of the build queue, on top of JobInv: what *)
(* an operator is asked to approve is validated, no pipeline and no run is *)
(* left behind, a recorded result is final, and only cancellations are     *)
(* lost to transactions that do not lock.                                  *)
(***************************************************************************)
EXTENDS BuildQueueProofs

\* The part of StageInv about rows, and the part about the job the worker holds.
RunRowsInv ==
  /\ VersionRowsHaveRuns
  /\ OrphanIsAlone
  /\ EnqueueFindsNoRun
  /\ \A p \in Pipelines : pstate[p] \in BuildStates
  /\ ActiveStateHasWorker
  /\ ApprovableIsValidated
WorkerInv == StageIsRecorded /\ ChangeIsPrepared

-----------------------------------------------------------------------------
(* What a step that leaves rows, or the worker's job, alone preserves.     *)

LEMMA RunRowsFrame ==
  ASSUME Typed, Typed', RunRowsInv,
         UNCHANGED <<activeVersion, versionStart>>,
         packaged \subseteq packaged',
         phase = "down" => phase' = "down",
         \A p \in Pipelines : pstate'[p] \in {pstate[p], "CANCELLED"},
         \A p \in Pipelines, v \in Versions, s \in Stages :
           \/ run'[p][v][s] = run[p][v][s]
           \/ run[p][v][s] = "PENDING" /\ run'[p][v][s] = "CANCELLED",
         \A p \in Pipelines, v \in Versions : Holds(p, v)' <=> Holds(p, v),
         \A c \in Clients : client'[c].pc = "enqueue" => client'[c] = client[c]
  PROVE  RunRowsInv'
<1>0. \A p \in Pipelines, v \in Versions : LiveJob(p, v)' => LiveJob(p, v)
  BY DEF LiveJob, Pending, Stages
<1>1. VersionRowsHaveRuns'
  BY DEF RunRowsInv, VersionRowsHaveRuns, VersionFree, Pending, Stages
<1>2. OrphanIsAlone'
  BY <1>0 DEF RunRowsInv, OrphanIsAlone, Alive
<1>3. EnqueueFindsNoRun'
  <2> SUFFICES ASSUME NEW c \in Clients,
                      (client[c].pc = "enqueue" /\ client[c].version > activeVersion[client[c].p])'
               PROVE  (/\ pstate[client[c].p] \in Requeueable \cup {"CANCELLED"}
                       /\ \A v \in Versions, s \in Stages : run[client[c].p][v][s] # "RUNNING")'
    BY DEF EnqueueFindsNoRun
  <2>1. client'[c] = client[c] /\ client[c].p \in Pipelines
    BY DEF Typed, LocalsAreReal, RealRequest
  <2> QED BY <2>1 DEF RunRowsInv, EnqueueFindsNoRun
<1>4. (\A p \in Pipelines : pstate[p] \in BuildStates)'
  BY DEF RunRowsInv, BuildStates
<1>5. ActiveStateHasWorker'
  <2> SUFFICES ASSUME NEW p \in Pipelines, (Alive /\ pstate[p] \in {"BUILDING", "VALIDATING"})'
               PROVE  Holds(p, activeVersion[p])'
    BY DEF ActiveStateHasWorker
  <2>1. Holds(p, activeVersion[p])
    BY DEF RunRowsInv, ActiveStateHasWorker, Alive
  <2>2. activeVersion[p] \in Versions
    BY <2>1 DEF Holds, Typed, LocalsAreReal, RealJob
  <2>3. Holds(p, activeVersion[p])'
    BY <2>1, <2>2 DEF Holds
  <2> QED BY <2>3
<1>6. ApprovableIsValidated'
  <2> SUFFICES ASSUME NEW p \in Pipelines, pstate'[p] = "AWAITING_APPROVAL"
               PROVE  (/\ <<p, activeVersion[p]>> \in packaged
                       /\ \A s \in Stages : run[p][activeVersion[p]][s] = "SUCCEEDED")'
    BY DEF ApprovableIsValidated
  <2>1. /\ <<p, activeVersion[p]>> \in packaged
        /\ \A s \in Stages : run[p][activeVersion[p]][s] = "SUCCEEDED"
    BY DEF RunRowsInv, ApprovableIsValidated
  <2>2. activeVersion[p] \in Versions
    BY <2>1 DEF Typed, TypeOK
  <2> QED BY <2>1, <2>2
<1> QED BY <1>1, <1>2, <1>3, <1>4, <1>5, <1>6 DEF RunRowsInv

LEMMA WorkerInvFrame ==
  ASSUME WorkerInv,
         \/ worker'.pc \in {"idle", "claiming"}
         \/ /\ worker'.pc = worker.pc /\ worker'.p = worker.p /\ worker'.v = worker.v
            /\ worker'.stage = worker.stage /\ worker'.to = worker.to
            /\ worker'.outcome = worker.outcome
            /\ \A s \in Stages :
                 run'[worker.p][worker.v][s] = run[worker.p][worker.v][s]
            /\ pstate'[worker.p] \in {pstate[worker.p], "CANCELLED"},
         packaged \subseteq packaged'
  PROVE  WorkerInv'
<1>1. CASE worker'.pc \in {"idle", "claiming"}
  BY <1>1 DEF WorkerInv, StageIsRecorded, ChangeIsPrepared, Changing
<1>2. CASE worker'.pc \notin {"idle", "claiming"}
  <2>1. /\ worker'.pc = worker.pc /\ worker'.p = worker.p /\ worker'.v = worker.v
        /\ worker'.stage = worker.stage /\ worker'.to = worker.to
        /\ worker'.outcome = worker.outcome
    BY <1>2
  <2>2. \A done, running : RunsOfJob(done, running) => RunsOfJob(done, running)'
    BY <1>2, <2>1 DEF RunsOfJob
  <2>3. \A states : StateOfJob(states) => StateOfJob(states)'
    BY <1>2, <2>1 DEF StateOfJob
  <2>4. NoRunOfJob => NoRunOfJob'
    BY <1>2, <2>1 DEF NoRunOfJob
  <2>5. \A to : Changing(to)' <=> Changing(to)
    BY <2>1 DEF Changing
  <2>6. StageIsRecorded'
    BY <2>1, <2>2, <2>3 DEF WorkerInv, StageIsRecorded
  <2>7. ChangeIsPrepared'
    BY <2>1, <2>2, <2>3, <2>4, <2>5 DEF WorkerInv, ChangeIsPrepared
  <2> QED BY <2>6, <2>7 DEF WorkerInv
<1> QED BY <1>1, <1>2

-----------------------------------------------------------------------------
(* Requests.                                                               *)

LEMMA InitStageInv == Init => StageInv
<1> SUFFICES ASSUME Init PROVE StageInv
  OBVIOUS
<1>1. IdleClient.pc = "idle" /\ IdleWorker.pc = "idle"
  BY DEF IdleClient, IdleWorker
<1>2. VersionRowsHaveRuns /\ OrphanIsAlone
  BY QueueAssumption
  DEF Init, VersionRowsHaveRuns, OrphanIsAlone, VersionFree, Pending, Stages
<1>3. StageIsRecorded /\ ChangeIsPrepared
  BY <1>1 DEF Init, StageIsRecorded, ChangeIsPrepared, Changing
<1>4. EnqueueFindsNoRun
  BY <1>1 DEF Init, EnqueueFindsNoRun
<1>5. /\ \A p \in Pipelines : pstate[p] \in BuildStates
      /\ ActiveStateHasWorker /\ ApprovableIsValidated
  BY DEF Init, BuildStates, ActiveStateHasWorker, ApprovableIsValidated
<1> QED BY <1>2, <1>3, <1>4, <1>5 DEF StageInv

\* Handlers that read, poke or abort the worker, or save a specification.
LEMMA QuietRequestStageInv ==
  ASSUME Typed, Typed', StageInv, NEW c \in Clients,
         \/ \E p \in Pipelines, b \in StartBlocks \cup {None} : RequestBuild(c, p, b)
         \/ SaveSpec(c) \/ RenderFails(c) \/ EnqueueAborts(c) \/ RespondBuild(c)
         \/ \E p \in Pipelines : RequestCancel(c, p)
         \/ CancelJob(c) \/ CancelRead(c)
  PROVE  StageInv'
<1> USE DEF db, runRows
<1>0. client \in [Clients -> ClientRecord] /\ worker \in WorkerRecord
  BY DEF Typed, TypeOK
<1>1. UNCHANGED <<pstate, activeVersion, versionStart, packaged, run, phase>>
  BY DEF RequestBuild, SaveSpec, RenderFails, EnqueueAborts, RespondBuild, RequestCancel,
         CancelJob, CancelRead
<1>2. \A d \in Clients : client'[d].pc = "enqueue" => client'[d] = client[d]
  <2>1. client'[c].pc # "enqueue" /\ \A d \in Clients \ {c} : client'[d] = client[d]
    <3>1. CASE \E p \in Pipelines, b \in StartBlocks \cup {None} : RequestBuild(c, p, b)
      BY <1>0, <3>1, GotoTyped DEF RequestBuild, ClientPc
    <3>2. CASE \E p \in Pipelines : RequestCancel(c, p)
      BY <1>0, <3>2 DEF RequestCancel, IdleClient
    <3>3. CASE \/ SaveSpec(c) \/ RenderFails(c) \/ EnqueueAborts(c) \/ RespondBuild(c)
               \/ CancelJob(c) \/ CancelRead(c)
      BY <1>0, <3>3, GotoTyped, LeaveTyped
      DEF SaveSpec, RenderFails, EnqueueAborts, RespondBuild, CancelJob, CancelRead, ClientPc
    <3> QED BY <3>1, <3>2, <3>3
  <2> QED BY <2>1
<1>3. \/ worker.pc = "idle" /\ worker'.pc = "claiming"
      \/ /\ worker'.pc = worker.pc /\ worker'.p = worker.p /\ worker'.v = worker.v
         /\ worker'.stage = worker.stage /\ worker'.to = worker.to
         /\ worker'.outcome = worker.outcome
  <2>1. CASE RespondBuild(c)
    BY <1>0, <2>1 DEF RespondBuild, ProcessNext, WorkerRecord
  <2>2. CASE CancelJob(c)
    BY <1>0, <2>2 DEF CancelJob, AbortJob, WorkerRecord
  <2>3. CASE ~RespondBuild(c) /\ ~CancelJob(c)
    BY <2>3 DEF RequestBuild, SaveSpec, RenderFails, EnqueueAborts, RequestCancel, CancelRead
  <2> QED BY <2>1, <2>2, <2>3
<1>4. RunRowsInv'
  BY <1>1, <1>2, <1>3, RunRowsFrame DEF StageInv, RunRowsInv, Holds
<1>5. WorkerInv'
  BY <1>1, <1>3, WorkerInvFrame DEF StageInv, WorkerInv
<1> QED BY <1>4, <1>5 DEF StageInv, RunRowsInv, WorkerInv

\* The checks of enqueueBuild find a pipeline without a job, hence without a run.
LEMMA EnqueueReadStageInv ==
  ASSUME Typed, Typed', JobInv, StageInv, NEW c \in Clients, EnqueueRead(c)
  PROVE  StageInv'
<1> USE DEF db, runRows
<1>0. /\ client \in [Clients -> ClientRecord]
      /\ UNCHANGED <<pstate, activeVersion, versionStart, packaged, run, worker, phase>>
      /\ client[c].pc = "render" /\ client[c].p \in Pipelines
  BY DEF Typed, TypeOK, EnqueueRead, LocalsAreReal, RealRequest
<1>1. WorkerInv'
  BY <1>0, WorkerInvFrame DEF StageInv, WorkerInv
<1>2. CASE Leave(c)
  <2>1. \A d \in Clients : client'[d].pc = "enqueue" => client'[d] = client[d]
    BY <1>0, <1>2, LeaveTyped
  <2>2. RunRowsInv'
    BY <1>0, <2>1, RunRowsFrame DEF StageInv, RunRowsInv, Holds
  <2> QED BY <1>1, <2>2 DEF StageInv, RunRowsInv, WorkerInv
<1>3. CASE ~Leave(c)
  <2>1. Enqueueable(client[c].p, client[c].version)
    BY <1>3 DEF EnqueueRead
  <2>2. /\ client'[c].p = client[c].p
        /\ \A d \in Clients \ {c} : client'[d] = client[d]
    <3> DEFINE r == [client[c] EXCEPT !.pc = "enqueue", !.older = PendingJobs]
    <3>1. r \in ClientRecord /\ r.p = client[c].p
      BY <1>0, EnqueueLocals
    <3>2. client' = [client EXCEPT ![c] = r]
      BY <1>3 DEF EnqueueRead
    <3> QED BY <1>0, <3>1, <3>2, StoreClient
  <2>3. pstate[client[c].p] \in Requeueable
    BY <2>1, OnlyRequeueableIsQueued DEF Enqueueable
  <2>4. \A v \in Versions, s \in Stages : run[client[c].p][v][s] # "RUNNING"
    <3>1. Alive
      BY <1>0 DEF Alive, JobInv, DownIsIdle
    <3>2. \A v \in Versions : ~Holds(client[c].p, v)
      BY <1>0, <2>3 DEF JobInv, LiveJobBlocksRequeue, Requeueable, QueuedOrBuilding
    <3> QED BY <1>0, <2>3, <3>1, <3>2 DEF StageInv, OrphanIsAlone, Requeueable
  <2>5. EnqueueFindsNoRun'
    <3> SUFFICES ASSUME NEW d \in Clients,
                        (client[d].pc = "enqueue" /\ client[d].version > activeVersion[client[d].p])'
                 PROVE  (/\ pstate[client[d].p] \in Requeueable \cup {"CANCELLED"}
                         /\ \A v \in Versions, s \in Stages : run[client[d].p][v][s] # "RUNNING")'
      BY DEF EnqueueFindsNoRun
    <3>1. CASE d = c
      BY <1>0, <2>2, <2>3, <2>4, <3>1
    <3>2. CASE d # c
      BY <1>0, <2>2, <3>2 DEF StageInv, EnqueueFindsNoRun
    <3> QED BY <3>1, <3>2
  <2>6. VersionRowsHaveRuns' /\ OrphanIsAlone'
    BY <1>0 DEF StageInv, VersionRowsHaveRuns, VersionFree, Pending, OrphanIsAlone, Alive,
                LiveJob, Holds
  <2>7. (/\ \A p \in Pipelines : pstate[p] \in BuildStates
         /\ ActiveStateHasWorker /\ ApprovableIsValidated)'
    BY <1>0 DEF StageInv, ActiveStateHasWorker, ApprovableIsValidated, Alive, Holds
  <2> QED BY <1>1, <2>5, <2>6, <2>7 DEF StageInv, WorkerInv
<1> QED BY <1>2, <1>3

\* A commit adds a queued job to a pipeline that had neither a job nor a run.
LEMMA EnqueueCommitStageInv ==
  ASSUME Typed, Typed', JobInv, StageInv, NEW c \in Clients, EnqueueCommit(c)
  PROVE  StageInv'
<1> DEFINE p == client[c].p
           v == client[c].version
<1>0. /\ run \in [Pipelines -> [Versions -> [Stages -> RunStatus]]]
      /\ pstate \in [Pipelines -> PipelineState]
      /\ activeVersion \in [Pipelines -> 0..MaxVersion]
      /\ versionStart \in [Pipelines -> [Versions -> StartBlocks \cup {None}]]
      /\ client \in [Clients -> ClientRecord]
  BY DEF Typed, TypeOK
<1>1. /\ p \in Pipelines /\ v \in Versions /\ client[c].start \in StartBlocks
      /\ client[c].pc = "enqueue" /\ VersionFree(p, v)
  BY DEF EnqueueCommit, Typed, LocalsAreReal, RealRequest
<1>2. v > activeVersion[p]
  BY <1>1 DEF JobInv, VersionRowsContiguous
<1>3. v = activeVersion[p] + 1 /\ \A w \in Versions : ~LiveJob(p, w)
  BY <1>1, <1>2 DEF JobInv, EnqueueFindsNoLiveJob
<1>4. \A w \in Versions, s \in Stages : run[p][w][s] # "RUNNING"
  BY <1>1, <1>2 DEF StageInv, EnqueueFindsNoRun
<1>5. UNCHANGED <<packaged, worker, phase>>
  BY DEF EnqueueCommit
<1>6. /\ client'[c].pc = "respond"
      /\ \A d \in Clients \ {c} : client'[d] = client[d]
  BY <1>0, GotoTyped DEF EnqueueCommit, ClientPc
<1>7. /\ run'[p][v]["BUILD"] = "PENDING"
      /\ \A q \in Pipelines, w \in Versions, s \in Stages :
           <<q, w, s>> # <<p, v, "BUILD">> => run'[q][w][s] = run[q][w][s]
  <2>1. "BUILD" \in Stages /\ "PENDING" \in RunStatus /\ SetRun(p, v, "BUILD", "PENDING")
    BY DEF EnqueueCommit, Stages, RunStatus
  <2> QED BY <1>0, <1>1, <2>1, SetRunTyped
<1>8. /\ pstate'[p] = "BUILD_QUEUED" /\ activeVersion'[p] = v
      /\ \A q \in Pipelines \ {p} : pstate'[q] = pstate[q] /\ activeVersion'[q] = activeVersion[q]
  BY <1>0, <1>1 DEF EnqueueCommit, SetState
<1>9. \A q \in Pipelines, w \in Versions :
        versionStart'[q][w] = IF q = p /\ w = v THEN client[c].start ELSE versionStart[q][w]
  BY <1>0, <1>1 DEF EnqueueCommit
<1> HIDE DEF p, v
<1>10. VersionRowsHaveRuns'
  <2> SUFFICES ASSUME NEW q \in Pipelines, NEW w \in Versions
               PROVE  (/\ VersionFree(q, w) => \A s \in Stages : run[q][w][s] = "ABSENT"
                       /\ ~VersionFree(q, w) => run[q][w]["BUILD"] # "ABSENT"
                       /\ Pending(q, w) => \A s \in Stages \ {"BUILD"} : run[q][w][s] = "ABSENT"
                       /\ \A s \in Stages \ {"BUILD"} : run[q][w][s] # "PENDING")'
    BY DEF VersionRowsHaveRuns
  <2>1. CASE <<q, w>> = <<p, v>>
    <3>1. versionStart'[p][v] # None
      BY <1>1, <1>9, QueueAssumption
    <3>2. \A s \in Stages \ {"BUILD"} : run'[p][v][s] = "ABSENT"
      BY <1>1, <1>7 DEF StageInv, VersionRowsHaveRuns
    <3> QED BY <1>7, <2>1, <3>1, <3>2 DEF VersionFree, Pending
  <2>2. CASE <<q, w>> # <<p, v>>
    <3>1. \A s \in Stages : run'[q][w][s] = run[q][w][s]
      BY <1>7, <2>2
    <3>2. versionStart'[q][w] = versionStart[q][w]
      BY <1>9, <2>2
    <3> QED BY <3>1, <3>2 DEF VersionFree, Pending, StageInv, VersionRowsHaveRuns, Stages
  <2> QED BY <2>1, <2>2
<1>11. OrphanIsAlone'
  <2> SUFFICES ASSUME NEW q \in Pipelines, NEW w \in Versions, NEW s \in Stages,
                      (Alive /\ run[q][w][s] = "RUNNING" /\ ~Holds(q, w))'
               PROVE  (pstate[q] = "CANCELLED" /\ \A u \in Versions : ~LiveJob(q, u))'
    BY DEF OrphanIsAlone
  <2>1. q # p
    BY <1>4, <1>7, <1>1
  <2>2. run[q][w][s] = "RUNNING" /\ Alive /\ ~Holds(q, w)
    BY <1>5, <1>7, <2>1 DEF Alive, Holds
  <2>3. pstate[q] = "CANCELLED" /\ \A u \in Versions : ~LiveJob(q, u)
    BY <2>2 DEF StageInv, OrphanIsAlone
  <2> QED BY <1>5, <1>7, <1>8, <2>1, <2>3 DEF LiveJob, Pending, Holds, Stages
<1>12. EnqueueFindsNoRun'
  <2> SUFFICES ASSUME NEW d \in Clients,
                      (client[d].pc = "enqueue" /\ client[d].version > activeVersion[client[d].p])'
               PROVE  (/\ pstate[client[d].p] \in Requeueable \cup {"CANCELLED"}
                       /\ \A w \in Versions, s \in Stages : run[client[d].p][w][s] # "RUNNING")'
    BY DEF EnqueueFindsNoRun
  <2>1. d # c /\ client'[d] = client[d] /\ client[d].p \in Pipelines
    BY <1>6 DEF Typed, LocalsAreReal, RealRequest
  <2>2. client[d].version \in Nat
    BY <1>0, QueueAssumption DEF ClientRecord
  <2>3. client[d].p # p
    <3> SUFFICES ASSUME client[d].p = p PROVE FALSE
      OBVIOUS
    <3>1. client[d].version > v
      BY <1>8, <2>1
    <3>2. client[d].version > activeVersion[p]
      BY <1>0, <1>1, <1>3, <2>2, <3>1, QueueAssumption DEF Versions
    <3>3. client[d].version = activeVersion[p] + 1
      BY <1>1, <2>1, <3>2 DEF JobInv, EnqueueFindsNoLiveJob
    <3> QED BY <1>0, <1>1, <1>3, <3>1, <3>3, QueueAssumption DEF Versions
  <2>4. /\ pstate[client[d].p] \in Requeueable \cup {"CANCELLED"}
        /\ \A w \in Versions, s \in Stages : run[client[d].p][w][s] # "RUNNING"
    BY <1>8, <2>1, <2>3 DEF StageInv, EnqueueFindsNoRun
  <2> QED BY <1>7, <1>8, <2>1, <2>3, <2>4
<1>13. (\A q \in Pipelines : pstate[q] \in BuildStates)'
  BY <1>8 DEF StageInv, BuildStates
<1>14. ActiveStateHasWorker'
  BY <1>5, <1>8 DEF StageInv, ActiveStateHasWorker, Alive, Holds
<1>15. ApprovableIsValidated'
  <2> SUFFICES ASSUME NEW q \in Pipelines, pstate'[q] = "AWAITING_APPROVAL"
               PROVE  (/\ <<q, activeVersion[q]>> \in packaged
                       /\ \A s \in Stages : run[q][activeVersion[q]][s] = "SUCCEEDED")'
    BY DEF ApprovableIsValidated
  <2>1. q # p /\ pstate[q] = "AWAITING_APPROVAL"
    BY <1>8
  <2>2. /\ <<q, activeVersion[q]>> \in packaged
        /\ \A s \in Stages : run[q][activeVersion[q]][s] = "SUCCEEDED"
    BY <2>1 DEF StageInv, ApprovableIsValidated
  <2>3. activeVersion[q] \in Versions
    BY <2>2 DEF Typed, TypeOK
  <2> QED BY <1>5, <1>7, <1>8, <2>1, <2>2, <2>3
<1>16. WorkerInv'
  <2>1. worker.pc \notin {"idle", "claiming"} => worker.p \in Pipelines \ {p} /\ worker.v \in Versions
    BY <1>3 DEF Typed, LocalsAreReal, RealJob, LiveJob, Holds
  <2> QED BY <1>5, <1>7, <1>8, <2>1, WorkerInvFrame DEF StageInv, WorkerInv
<1> QED BY <1>10, <1>11, <1>12, <1>13, <1>14, <1>15, <1>16 DEF StageInv, WorkerInv

\* A cancellation ends waiting runs and can only cancel the pipeline of a job.
LEMMA CancelStageInv ==
  ASSUME Typed, Typed', JobInv, StageInv, NEW c \in Clients,
         CancelPendingRuns(c) \/ CancelWrite(c)
  PROVE  StageInv'
<1>0. client \in [Clients -> ClientRecord] /\ client[c].p \in Pipelines
  BY DEF Typed, TypeOK, LocalsAreReal, RealRequest, CancelPendingRuns, CancelWrite
<1>1. UNCHANGED <<activeVersion, versionStart, packaged, worker, phase>>
  BY DEF CancelPendingRuns, CancelWrite
<1>2. \A p \in Pipelines : pstate'[p] \in {pstate[p], "CANCELLED"}
  BY <1>0 DEF CancelPendingRuns, CancelWrite, SetState, Typed, TypeOK
<1>3. \A p \in Pipelines, v \in Versions, s \in Stages :
        \/ run'[p][v][s] = run[p][v][s]
        \/ run[p][v][s] = "PENDING" /\ run'[p][v][s] = "CANCELLED"
  <2>1. CASE CancelPendingRuns(c)
    BY <1>0, <2>1 DEF CancelPendingRuns, CancellableRun, Typed, TypeOK
  <2>2. CASE CancelWrite(c)
    BY <2>2 DEF CancelWrite, runRows
  <2> QED BY <2>1, <2>2
<1>4. \A d \in Clients : client'[d].pc = "enqueue" => client'[d] = client[d]
  BY <1>0, GotoTyped, LeaveTyped DEF CancelPendingRuns, CancelWrite, ClientPc
<1>5. RunRowsInv'
  BY <1>1, <1>2, <1>3, <1>4, RunRowsFrame DEF StageInv, RunRowsInv, Holds
<1>6. WorkerInv'
  <2>1. ASSUME worker.pc \notin {"idle", "claiming"}
        PROVE  /\ worker.p \in Pipelines
               /\ \A s \in Stages : run'[worker.p][worker.v][s] = run[worker.p][worker.v][s]
    <3>1. worker.p \in Pipelines /\ worker.v \in Versions /\ Holds(worker.p, worker.v)
      BY <2>1 DEF Typed, LocalsAreReal, RealJob, Holds
    <3>2. \A s \in Stages : run[worker.p][worker.v][s] # "PENDING"
      BY <3>1 DEF JobInv, LiveJobBlocksRequeue, Pending, StageInv, VersionRowsHaveRuns
    <3> QED BY <1>3, <3>1, <3>2
  <2> QED BY <1>1, <1>2, <2>1, WorkerInvFrame DEF StageInv, WorkerInv
<1> QED BY <1>5, <1>6 DEF StageInv, RunRowsInv, WorkerInv
-----------------------------------------------------------------------------
(* The worker.                                                             *)

LEMMA PollStageInv ==
  ASSUME Typed, Typed', StageInv, Poll \/ NothingToClaim
  PROVE  StageInv'
<1>1. /\ worker.pc \in {"idle", "claiming"} /\ worker'.pc \in {"idle", "claiming"}
      /\ UNCHANGED <<pstate, activeVersion, versionStart, packaged, run, client, phase>>
  BY DEF Typed, TypeOK, WorkerRecord, Poll, NothingToClaim, ProcessNext, Release, IdleWorker,
         db, runRows
<1>2. RunRowsInv'
  BY <1>1, RunRowsFrame DEF StageInv, RunRowsInv, Holds
<1>3. WorkerInv'
  BY <1>1, WorkerInvFrame DEF StageInv, WorkerInv
<1> QED BY <1>2, <1>3 DEF StageInv, RunRowsInv, WorkerInv

\* Steps of the worker within its job that write no row but a package.
LEMMA WithinJobStageInv ==
  ASSUME Typed, Typed', JobInv, StageInv,
         \/ Activate \/ WorkerRead \/ WorkerRefused \/ Spawn \/ PrepareFails
         \/ \E o \in EndStatus : ChildExits(o)
         \/ CheckOutput \/ SaveArtifacts
         \/ Catch /\ worker'.pc # "idle"
  PROVE  StageInv'
<1>0. worker \in WorkerRecord /\ packaged \in SUBSET (Pipelines \X Versions)
  BY DEF Typed, TypeOK
<1>1. /\ UNCHANGED <<pstate, activeVersion, versionStart, run, client, phase>>
      /\ packaged \subseteq packaged'
      /\ worker.pc \notin {"idle", "claiming"}
  BY DEF Activate, WorkerRead, WorkerRefused, Spawn, PrepareFails, ChildExits, CheckOutput,
         SaveArtifacts, Catch, db, runRows
<1>2. /\ worker'.p = worker.p /\ worker'.v = worker.v
      /\ worker'.pc \notin {"idle", "claiming"}
  <2>1. CASE Activate \/ WorkerRead \/ Spawn \/ PrepareFails \/ SaveArtifacts
    BY <1>0, <2>1 DEF Activate, WorkerRead, Spawn, PrepareFails, SaveArtifacts, WorkerRecord
  <2>2. CASE WorkerRefused
    BY <1>0, <2>2, ThrowTyped DEF WorkerRefused
  <2>3. ASSUME NEW o \in EndStatus, ChildExits(o)
        PROVE  /\ worker'.p = worker.p /\ worker'.v = worker.v
               /\ worker'.pc \notin {"idle", "claiming"}
    BY <1>0, <2>3 DEF ChildExits, WorkerRecord
  <2>4. CASE CheckOutput
    <3>1. CASE worker' = [worker EXCEPT !.pc = "save"]
      BY <1>0, <3>1 DEF WorkerRecord
    <3>2. CASE worker' = Throw(worker)
      BY <1>0, <3>2, ThrowTyped
    <3> QED BY <2>4, <3>1, <3>2 DEF CheckOutput
  <2>5. CASE Catch /\ worker'.pc # "idle"
    <3>1. worker' = [worker EXCEPT !.pc = "assert", !.to = FailureState(pstate[worker.p])]
      BY <2>5 DEF Catch, Release, IdleWorker
    <3> QED BY <1>0, <3>1 DEF WorkerRecord
  <2> QED BY <2>1, <2>2, <2>3, <2>4, <2>5
<1>3. worker.p \in Pipelines /\ worker.v \in Versions /\ Holds(worker.p, worker.v)
  BY <1>1 DEF Typed, LocalsAreReal, RealJob, Holds
<1>4. RunRowsInv'
  BY <1>1, <1>2, RunRowsFrame DEF StageInv, RunRowsInv, Holds
<1> USE DEF StageInv, WorkerInv, StageIsRecorded, ChangeIsPrepared, Changing, RunsOfJob,
        StateOfJob, NoRunOfJob
<1>5. WorkerInv'
  <2>1. CASE Activate
    BY <1>0, <1>1, <1>2, <2>1 DEF Activate, WorkerRecord, FailureStates
  <2>2. CASE WorkerRead
    BY <1>0, <1>1, <1>2, <2>2 DEF WorkerRead, WorkerRecord
  <2>3. CASE WorkerRefused
    <3>1. worker'.pc = "catch" /\ worker.pc = "assert" /\ worker.to \notin FailureStates
      BY <1>0, <2>3, ThrowTyped DEF WorkerRefused
    <3>2. ~CanTransition(pstate[worker.p], worker.to)
      BY <2>3 DEF WorkerRefused
    <3>3. pstate[worker.p] = "CANCELLED"
      <4>1. /\ CanTransition("BUILD_QUEUED", "BUILDING")
            /\ CanTransition("BUILDING", "VALIDATING")
            /\ CanTransition("VALIDATING", "AWAITING_APPROVAL")
        BY DEF CanTransition, Transitions
      <4> QED BY <3>1, <3>2, <4>1
    <3> QED BY <1>1, <1>2, <3>1, <3>3
  <2>4. CASE Spawn
    BY <1>0, <1>1, <1>2, <2>4 DEF Spawn, WorkerRecord
  <2>5. CASE PrepareFails
    BY <1>0, <1>1, <1>2, <2>5 DEF PrepareFails, WorkerRecord, EndStatus
  <2>6. ASSUME NEW o \in EndStatus, ChildExits(o) PROVE WorkerInv'
    BY <1>0, <1>1, <1>2, <2>6 DEF ChildExits, WorkerRecord
  <2>7. CASE CheckOutput
    <3>1. CASE worker' = [worker EXCEPT !.pc = "save"]
      BY <1>0, <1>1, <1>2, <2>7, <3>1 DEF CheckOutput, WorkerRecord
    <3>2. CASE worker' = Throw(worker)
      <4>1. worker'.pc = "catch"
        BY <1>0, <3>2, ThrowTyped
      <4>2. RunsOfJob(Stages, {}) /\ StateOfJob({"VALIDATING"})
        BY <2>7 DEF CheckOutput
      <4> QED BY <1>1, <1>2, <4>1, <4>2
    <3> QED BY <2>7, <3>1, <3>2 DEF CheckOutput
  <2>8. CASE SaveArtifacts
    BY <1>0, <1>1, <1>2, <2>8 DEF SaveArtifacts, WorkerRecord, FailureStates
  <2>9. CASE Catch /\ worker'.pc # "idle"
    <3>1. worker' = [worker EXCEPT !.pc = "assert", !.to = FailureState(pstate[worker.p])]
      BY <2>9 DEF Catch, Release, IdleWorker
    <3>2. /\ worker'.pc = "assert" /\ worker'.to = FailureState(pstate[worker.p])
          /\ worker.pc = "catch"
      BY <1>0, <2>9, <3>1 DEF WorkerRecord, Catch
    <3>3. FailureState(pstate[worker.p]) # None
      BY <2>9 DEF Catch, Release, IdleWorker
    <3>4. \/ pstate[worker.p] = "BUILDING" /\ worker'.to = "BUILD_FAILED"
          \/ pstate[worker.p] = "VALIDATING" /\ worker'.to = "VALIDATION_FAILED"
      BY <3>2, <3>3 DEF FailureState
    <3>5. NoRunOfJob
      BY <3>2, <3>4
    <3> QED BY <1>1, <1>2, <3>2, <3>4, <3>5 DEF FailureStates
  <2> QED BY <2>1, <2>2, <2>3, <2>4, <2>5, <2>6, <2>7, <2>8, <2>9
<1> QED BY <1>4, <1>5 DEF RunRowsInv

\* A step that changes one run of a job the worker then holds: claim, create, finish.
LEMMA RunOfJobRowsInv ==
  ASSUME Typed, Typed', JobInv, StageInv,
         NEW p \in Pipelines, NEW v \in Versions, NEW s \in Stages,
         NEW status \in RunStatus \ {"ABSENT", "PENDING"},
         SetRun(p, v, s, status),
         LiveJob(p, v), ~Pending(p, v)',
         \A q \in Pipelines, w \in Versions : Holds(q, w) => q = p /\ w = v,
         \A q \in Pipelines, w \in Versions : Holds(q, w)' <=> q = p /\ w = v,
         UNCHANGED <<pstate, activeVersion, versionStart, packaged, client, phase>>
  PROVE  RunRowsInv'
<1>1. /\ run'[p][v][s] = status
      /\ \A q \in Pipelines, w \in Versions, t \in Stages :
           <<q, w, t>> # <<p, v, s>> => run'[q][w][t] = run[q][w][t]
  BY SetRunTyped DEF Typed, TypeOK
<1>2. \A q \in Pipelines, w \in Versions : LiveJob(q, w)' => LiveJob(q, w)
  <2>1. \A q \in Pipelines, w \in Versions : Pending(q, w)' => Pending(q, w)
    BY <1>1 DEF Pending, Stages
  <2> QED BY <2>1 DEF LiveJob
<1>3. /\ v = activeVersion[p]
      /\ pstate[p] \in QueuedOrBuilding \cup {"CANCELLED"}
      /\ ~VersionFree(p, v)
  <2>1. v = activeVersion[p] /\ pstate[p] \in QueuedOrBuilding \cup {"CANCELLED"}
    BY DEF JobInv, LiveJobBlocksRequeue, LiveJob, QueuedOrBuilding
  <2> QED BY <2>1, QueueAssumption DEF JobInv, VersionRowsContiguous, Versions
<1>4. VersionRowsHaveRuns'
  <2> SUFFICES ASSUME NEW q \in Pipelines, NEW w \in Versions
               PROVE  (/\ VersionFree(q, w) => \A t \in Stages : run[q][w][t] = "ABSENT"
                       /\ ~VersionFree(q, w) => run[q][w]["BUILD"] # "ABSENT"
                       /\ Pending(q, w) => \A t \in Stages \ {"BUILD"} : run[q][w][t] = "ABSENT"
                       /\ \A t \in Stages \ {"BUILD"} : run[q][w][t] # "PENDING")'
    BY DEF VersionRowsHaveRuns
  <2>1. CASE q = p /\ w = v
    <3>1. \A t \in Stages : t # s => run'[p][v][t] = run[p][v][t]
      BY <1>1
    <3> QED BY <1>1, <1>3, <2>1, <3>1 DEF StageInv, VersionRowsHaveRuns, VersionFree, Stages
  <2>2. CASE ~(q = p /\ w = v)
    <3>1. \A t \in Stages : run'[q][w][t] = run[q][w][t]
      BY <1>1, <2>2
    <3> QED BY <3>1 DEF StageInv, VersionRowsHaveRuns, VersionFree, Pending, Stages
  <2> QED BY <2>1, <2>2
<1>5. OrphanIsAlone'
  <2> SUFFICES ASSUME NEW q \in Pipelines, NEW w \in Versions, NEW t \in Stages,
                      (Alive /\ run[q][w][t] = "RUNNING" /\ ~Holds(q, w))'
               PROVE  (pstate[q] = "CANCELLED" /\ \A u \in Versions : ~LiveJob(q, u))'
    BY DEF OrphanIsAlone
  <2>1. Alive /\ run[q][w][t] = "RUNNING" /\ ~Holds(q, w)
    BY <1>1 DEF Alive
  <2>2. pstate[q] = "CANCELLED" /\ \A u \in Versions : ~LiveJob(q, u)
    BY <2>1 DEF StageInv, OrphanIsAlone
  <2> QED BY <1>2, <2>2
<1>6. EnqueueFindsNoRun'
  <2> SUFFICES ASSUME NEW c \in Clients,
                      (client[c].pc = "enqueue" /\ client[c].version > activeVersion[client[c].p])'
               PROVE  (/\ pstate[client[c].p] \in Requeueable \cup {"CANCELLED"}
                       /\ \A w \in Versions, t \in Stages : run[client[c].p][w][t] # "RUNNING")'
    BY DEF EnqueueFindsNoRun
  <2>1. client[c].p \in Pipelines /\ client[c].p # p
    BY DEF Typed, LocalsAreReal, RealRequest, JobInv, EnqueueFindsNoLiveJob
  <2>2. \A w \in Versions, t \in Stages : run'[client[c].p][w][t] = run[client[c].p][w][t]
    BY <1>1, <2>1
  <2> QED BY <2>1, <2>2 DEF StageInv, EnqueueFindsNoRun
<1>7. (\A q \in Pipelines : pstate[q] \in BuildStates)'
  BY DEF StageInv
<1>8. ActiveStateHasWorker'
  <2> SUFFICES ASSUME NEW q \in Pipelines, (Alive /\ pstate[q] \in {"BUILDING", "VALIDATING"})'
               PROVE  Holds(q, activeVersion[q])'
    BY DEF ActiveStateHasWorker
  <2>1. Holds(q, activeVersion[q])
    BY DEF StageInv, ActiveStateHasWorker, Alive
  <2>2. activeVersion[q] \in Versions
    BY <2>1 DEF Holds, Typed, LocalsAreReal, RealJob
  <2>3. q = p /\ activeVersion[q] = v
    BY <2>1, <2>2
  <2> QED BY <2>2, <2>3
<1>9. ApprovableIsValidated'
  <2> SUFFICES ASSUME NEW q \in Pipelines, pstate'[q] = "AWAITING_APPROVAL"
               PROVE  (/\ <<q, activeVersion[q]>> \in packaged
                       /\ \A t \in Stages : run[q][activeVersion[q]][t] = "SUCCEEDED")'
    BY DEF ApprovableIsValidated
  <2>1. q # p
    BY <1>3 DEF QueuedOrBuilding
  <2>2. /\ <<q, activeVersion[q]>> \in packaged
        /\ \A t \in Stages : run[q][activeVersion[q]][t] = "SUCCEEDED"
    BY DEF StageInv, ApprovableIsValidated
  <2>3. activeVersion[q] \in Versions
    BY <2>2 DEF Typed, TypeOK
  <2> QED BY <1>1, <2>1, <2>2, <2>3
<1> QED BY <1>4, <1>5, <1>6, <1>7, <1>8, <1>9 DEF RunRowsInv

LEMMA ClaimStageInv ==
  ASSUME Typed, Typed', JobInv, StageInv, NEW p \in Pipelines, NEW v \in Versions, Claim(p, v)
  PROVE  StageInv'
<1>0. worker \in WorkerRecord /\ "BUILD" \in Stages /\ "RUNNING" \in RunStatus
  BY DEF Typed, TypeOK, Stages, RunStatus
<1>1. worker'.pc = "claimed" /\ worker'.p = p /\ worker'.v = v /\ worker.pc = "claiming"
  BY <1>0 DEF Claim, WorkerRecord
<1>2. /\ run'[p][v]["BUILD"] = "RUNNING"
      /\ \A s \in Stages \ {"BUILD"} : run'[p][v][s] = run[p][v][s]
  BY <1>0, SetRunTyped DEF Claim, Typed, TypeOK
<1>3. pstate'[p] \in {"BUILD_QUEUED", "CANCELLED"}
  BY DEF Claim, JobInv, LiveJobBlocksRequeue
<1>4. \A s \in Stages \ {"BUILD"} : run[p][v][s] = "ABSENT"
  BY DEF Claim, StageInv, VersionRowsHaveRuns
<1>5. RunRowsInv'
  BY <1>0, <1>1, <1>2, RunOfJobRowsInv DEF Claim, LiveJob, Pending, Holds
<1>6. WorkerInv'
  BY <1>1, <1>2, <1>3, <1>4
  DEF WorkerInv, StageIsRecorded, ChangeIsPrepared, Changing, RunsOfJob, StateOfJob
<1> QED BY <1>5, <1>6 DEF StageInv, RunRowsInv, WorkerInv

\* createStageRun and finishRun write the run of the stage the worker is in.
LEMMA StageRunStageInv ==
  ASSUME Typed, Typed', JobInv, StageInv, CreateStageRun \/ FinishRun
  PROVE  StageInv'
<1>0. /\ worker \in WorkerRecord /\ worker.stage \in Stages
      /\ worker.p \in Pipelines /\ worker.v \in Versions
      /\ Holds(worker.p, worker.v) /\ worker.pc \in {"create", "finish"}
  BY DEF Typed, TypeOK, LocalsAreReal, RealJob, Holds, CreateStageRun, FinishRun, WorkerRecord
<1>1. UNCHANGED <<pstate, activeVersion, versionStart, packaged, client, phase>>
  BY DEF CreateStageRun, FinishRun
<1>2. PICK status \in RunStatus \ {"ABSENT", "PENDING"} :
        /\ SetRun(worker.p, worker.v, worker.stage, status)
        /\ CreateStageRun => status = "RUNNING"
        /\ FinishRun => status = worker.outcome /\ status \in EndStatus
  <2>1. FinishRun => worker.outcome \in EndStatus /\ worker.pc = "finish"
    BY DEF FinishRun, StageInv, StageIsRecorded
  <2>2. EndStatus \cup {"RUNNING"} \subseteq RunStatus \ {"ABSENT", "PENDING"}
    BY DEF EndStatus, RunStatus
  <2>3. CASE CreateStageRun
    BY <2>1, <2>2, <2>3 DEF CreateStageRun
  <2>4. CASE FinishRun
    BY <2>1, <2>2, <2>4 DEF FinishRun, CreateStageRun
  <2> QED BY <2>3, <2>4
<1>3. /\ run'[worker.p][worker.v][worker.stage] = status
      /\ \A s \in Stages \ {worker.stage} :
           run'[worker.p][worker.v][s] = run[worker.p][worker.v][s]
  BY <1>0, <1>2, SetRunTyped DEF Typed, TypeOK
<1>4. /\ worker'.p = worker.p /\ worker'.v = worker.v
      /\ CreateStageRun => worker'.pc = "prepare" /\ worker'.stage = worker.stage
      /\ FinishRun => \/ /\ worker'.pc = "catch" /\ ~Succeeded(worker.outcome)
                      \/ /\ Succeeded(worker.outcome)
                         /\ \/ /\ worker.stage = "BUILD"
                               /\ worker'.pc = "create" /\ worker'.stage = "INFO"
                            \/ /\ worker.stage = "INFO"
                               /\ worker'.pc = "create" /\ worker'.stage = "GRAPH"
                            \/ /\ worker.stage = "GRAPH"
                               /\ worker'.pc = "assert" /\ worker'.to = "VALIDATING"
                            \/ worker.stage = "VALIDATION" /\ worker'.pc = "check"
  <2>1. CASE CreateStageRun
    BY <1>0, <2>1 DEF CreateStageRun, FinishRun, WorkerRecord
  <2>2. CASE FinishRun
    <3>1. worker' = AfterStage(worker) /\ worker.pc = "finish"
      BY <2>2 DEF FinishRun
    <3>2. CASE ~Succeeded(worker.outcome)
      BY <1>0, <3>1, <3>2, ThrowTyped DEF AfterStage, CreateStageRun
    <3>3. CASE Succeeded(worker.outcome)
      BY <1>0, <3>1, <3>3 DEF AfterStage, CreateStageRun, WorkerRecord, Stages
    <3> QED BY <3>2, <3>3
  <2> QED BY <2>1, <2>2
<1>5. worker'.pc \notin {"idle", "claiming"}
  BY <1>4
<1>6. RunRowsInv'
  <2>1. ~Pending(worker.p, worker.v)'
    BY <1>0, <1>2, <1>3, <1>4 DEF JobInv, LiveJobBlocksRequeue, Pending, Stages
  <2> QED BY <1>0, <1>1, <1>2, <1>4, <1>5, <2>1, RunOfJobRowsInv DEF LiveJob, Holds
<1> USE DEF WorkerInv, StageIsRecorded, ChangeIsPrepared, Changing, RunsOfJob, StateOfJob
<1>7. WorkerInv'
  <2>1. CASE CreateStageRun
    <3>1. /\ worker.pc = "create" /\ worker.stage # "BUILD"
          /\ RunsOfJob(StagesBefore(worker.stage), {})
          /\ StateOfJob({StateOfStage(worker.stage)})
      BY <2>1 DEF CreateStageRun, StageInv
    <3>2. worker.stage \notin StagesBefore(worker.stage)
      BY <1>0 DEF StagesBefore, Stages
    <3> QED BY <1>1, <1>2, <1>3, <1>4, <2>1, <3>1, <3>2
  <2>2. CASE FinishRun
    <3>1. /\ worker.pc = "finish"
          /\ RunsOfJob(StagesBefore(worker.stage), {worker.stage})
          /\ StateOfJob({StateOfStage(worker.stage)})
      BY <2>2 DEF FinishRun, StageInv
    <3>2. CASE ~Succeeded(worker.outcome)
      <4>1. worker'.pc = "catch"
        BY <1>4, <2>2, <3>2
      <4>2. \A s \in Stages : run'[worker.p][worker.v][s] # "RUNNING"
        BY <1>0, <1>2, <1>3, <2>2, <3>1 DEF EndStatus
      <4> QED BY <1>1, <1>4, <3>1, <4>1, <4>2 DEF NoRunOfJob, StateOfStage
    <3>3. CASE Succeeded(worker.outcome)
      <4>1. status = "SUCCEEDED"
        BY <1>2, <2>2, <3>3 DEF Succeeded
      <4> QED BY <1>1, <1>2, <1>3, <1>4, <2>2, <3>1, <3>3, <4>1
              DEF StagesBefore, StateOfStage, Stages
    <3> QED BY <3>2, <3>3
  <2> QED BY <2>1, <2>2
<1> QED BY <1>6, <1>7 DEF StageInv, RunRowsInv

\* The write of a transition: the next stage begins, or the worker lets go of a job whose
\* runs have all ended.
LEMMA WorkerWriteStageInv ==
  ASSUME Typed, Typed', JobInv, StageInv, WorkerWrite
  PROVE  StageInv'
<1>0. /\ worker \in WorkerRecord /\ worker.p \in Pipelines /\ worker.v \in Versions
      /\ Holds(worker.p, worker.v) /\ worker.pc = "write"
      /\ pstate \in [Pipelines -> PipelineState]
  BY DEF Typed, TypeOK, LocalsAreReal, RealJob, Holds, WorkerWrite
<1>1. UNCHANGED <<activeVersion, versionStart, packaged, run, client, phase>>
  BY DEF WorkerWrite, runRows
<1>2. /\ pstate'[worker.p] = worker.to
      /\ \A q \in Pipelines \ {worker.p} : pstate'[q] = pstate[q]
  BY <1>0 DEF WorkerWrite, SetState
<1>3. /\ worker.v = activeVersion[worker.p]
      /\ \A w \in Versions : ~Pending(worker.p, w)
  BY <1>0 DEF JobInv, LiveJobBlocksRequeue
<1>4. \/ /\ worker.to \in {"BUILDING", "VALIDATING"}
         /\ worker'.p = worker.p /\ worker'.v = worker.v
         /\ worker.to = "BUILDING" => worker'.pc = "prepare" /\ worker'.stage = "BUILD"
         /\ worker.to = "VALIDATING" => worker'.pc = "create" /\ worker'.stage = "VALIDATION"
      \/ /\ worker.to \in {"AWAITING_APPROVAL"} \cup FailureStates
         /\ worker'.pc = "idle"
         /\ \A s \in Stages : run[worker.p][worker.v][s] # "RUNNING"
  <2>1. CASE worker.to \in {"BUILDING", "VALIDATING"}
    BY <1>0, <2>1 DEF WorkerWrite, WorkerRecord, FailureStates
  <2>2. CASE worker.to \notin {"BUILDING", "VALIDATING"}
    <3>1. worker.to \in {"AWAITING_APPROVAL"} \cup FailureStates /\ worker'.pc = "idle"
      BY <2>2 DEF WorkerWrite, Release, IdleWorker
    <3> QED BY <1>0, <3>1
            DEF StageInv, ChangeIsPrepared, Changing, RunsOfJob, NoRunOfJob, FailureStates
  <2> QED BY <2>1, <2>2
<1>5. \A q \in Pipelines, w \in Versions : Holds(q, w)' => Holds(q, w)
  BY <1>0, <1>4 DEF Holds
<1>6. VersionRowsHaveRuns'
  BY <1>1 DEF StageInv, VersionRowsHaveRuns, VersionFree, Pending
<1>7. OrphanIsAlone'
  <2> SUFFICES ASSUME NEW q \in Pipelines, NEW w \in Versions, NEW t \in Stages,
                      (Alive /\ run[q][w][t] = "RUNNING" /\ ~Holds(q, w))'
               PROVE  (pstate[q] = "CANCELLED" /\ \A u \in Versions : ~LiveJob(q, u))'
    BY DEF OrphanIsAlone
  <2>1. Alive /\ run[q][w][t] = "RUNNING" /\ ~Holds(q, w)
    BY <1>0, <1>1, <1>4 DEF Alive, Holds
  <2>2. pstate[q] = "CANCELLED" /\ \A u \in Versions : ~LiveJob(q, u)
    BY <2>1 DEF StageInv, OrphanIsAlone
  <2>3. q # worker.p
    BY <1>0, <2>2 DEF LiveJob
  <2> QED BY <1>1, <1>2, <1>5, <2>2, <2>3 DEF LiveJob, Pending
<1>8. EnqueueFindsNoRun'
  <2> SUFFICES ASSUME NEW c \in Clients,
                      (client[c].pc = "enqueue" /\ client[c].version > activeVersion[client[c].p])'
               PROVE  (/\ pstate[client[c].p] \in Requeueable \cup {"CANCELLED"}
                       /\ \A w \in Versions, t \in Stages : run[client[c].p][w][t] # "RUNNING")'
    BY DEF EnqueueFindsNoRun
  <2>1. client[c].p \in Pipelines /\ client[c].p # worker.p
    BY <1>0, <1>1
    DEF Typed, LocalsAreReal, RealRequest, JobInv, EnqueueFindsNoLiveJob, LiveJob
  <2> QED BY <1>1, <1>2, <2>1 DEF StageInv, EnqueueFindsNoRun
<1>9. (\A q \in Pipelines : pstate[q] \in BuildStates)'
  BY <1>2, <1>4 DEF StageInv, BuildStates, FailureStates
<1>10. ActiveStateHasWorker'
  <2> SUFFICES ASSUME NEW q \in Pipelines, (Alive /\ pstate[q] \in {"BUILDING", "VALIDATING"})'
               PROVE  Holds(q, activeVersion[q])'
    BY DEF ActiveStateHasWorker
  <2>1. CASE q = worker.p
    BY <1>1, <1>2, <1>3, <1>4, <2>1 DEF Holds, FailureStates
  <2>2. CASE q # worker.p
    BY <1>1, <1>2, <2>2 DEF StageInv, ActiveStateHasWorker, Alive, Holds
  <2> QED BY <2>1, <2>2
<1>11. ApprovableIsValidated'
  <2> SUFFICES ASSUME NEW q \in Pipelines, pstate'[q] = "AWAITING_APPROVAL"
               PROVE  (/\ <<q, activeVersion[q]>> \in packaged
                       /\ \A t \in Stages : run[q][activeVersion[q]][t] = "SUCCEEDED")'
    BY DEF ApprovableIsValidated
  <2>1. CASE q = worker.p
    <3>1. Changing("AWAITING_APPROVAL")
      BY <1>0, <1>2, <2>1 DEF Changing
    <3> QED BY <1>1, <1>3, <2>1, <3>1 DEF StageInv, ChangeIsPrepared, RunsOfJob
  <2>2. CASE q # worker.p
    BY <1>1, <1>2, <2>2 DEF StageInv, ApprovableIsValidated
  <2> QED BY <2>1, <2>2
<1>12. WorkerInv'
  <2>1. CASE worker'.pc = "idle"
    BY <2>1 DEF WorkerInv, StageIsRecorded, ChangeIsPrepared, Changing
  <2>2. CASE worker.to = "BUILDING" /\ worker'.pc # "idle"
    <3>1. RunsOfJob({}, {"BUILD"})
      BY <1>0, <2>2 DEF StageInv, ChangeIsPrepared, Changing
    <3> QED BY <1>1, <1>2, <1>4, <2>2, <3>1
        DEF WorkerInv, StageIsRecorded, ChangeIsPrepared, Changing, RunsOfJob, StateOfJob,
            StagesBefore, StateOfStage
  <2>3. CASE worker.to = "VALIDATING" /\ worker'.pc # "idle"
    <3>1. RunsOfJob({"BUILD", "INFO", "GRAPH"}, {})
      BY <1>0, <2>3 DEF StageInv, ChangeIsPrepared, Changing
    <3> QED BY <1>1, <1>2, <1>4, <2>3, <3>1
        DEF WorkerInv, StageIsRecorded, ChangeIsPrepared, Changing, RunsOfJob, StateOfJob,
            StagesBefore, StateOfStage
  <2> QED BY <1>4, <2>1, <2>2, <2>3
<1> QED BY <1>6, <1>7, <1>8, <1>9, <1>10, <1>11, <1>12 DEF StageInv, WorkerInv

\* The catch block lets go of a job only when its pipeline has been cancelled.
LEMMA CatchReleaseStageInv ==
  ASSUME Typed, Typed', JobInv, StageInv, Catch, worker'.pc = "idle"
  PROVE  StageInv'
<1>0. /\ worker.p \in Pipelines /\ worker.v \in Versions
      /\ Holds(worker.p, worker.v) /\ worker.pc = "catch"
  BY DEF Typed, LocalsAreReal, RealJob, Holds, Catch
<1>1. UNCHANGED <<pstate, activeVersion, versionStart, packaged, run, client, phase>>
  BY DEF Catch, db, runRows
<1>2. pstate[worker.p] = "CANCELLED"
  <2>1. FailureState(pstate[worker.p]) = None
    BY <1>0 DEF Catch, Typed, TypeOK, WorkerRecord
  <2>2. pstate[worker.p] \in {"BUILDING", "VALIDATING", "CANCELLED"}
    BY <1>0 DEF StageInv, ChangeIsPrepared, StateOfJob
  <2>3. None \notin {"BUILD_FAILED", "VALIDATION_FAILED"}
    BY QueueAssumption DEF PipelineState
  <2> QED BY <2>1, <2>2, <2>3 DEF FailureState
<1>3. \A w \in Versions : ~Pending(worker.p, w)
  BY <1>0 DEF JobInv, LiveJobBlocksRequeue
<1>4. \A q \in Pipelines, w \in Versions : ~Holds(q, w)'
  BY DEF Holds
<1>5. OrphanIsAlone'
  <2> SUFFICES ASSUME NEW q \in Pipelines, NEW w \in Versions, NEW t \in Stages,
                      (Alive /\ run[q][w][t] = "RUNNING")'
               PROVE  (pstate[q] = "CANCELLED" /\ \A u \in Versions : ~LiveJob(q, u))'
    BY DEF OrphanIsAlone
  <2>1. CASE q = worker.p
    BY <1>1, <1>2, <1>3, <1>4, <2>1 DEF LiveJob, Pending
  <2>2. CASE q # worker.p
    <3>1. Alive /\ run[q][w][t] = "RUNNING" /\ ~Holds(q, w)
      BY <1>1, <2>2 DEF Alive, Holds
    <3>2. pstate[q] = "CANCELLED" /\ \A u \in Versions : ~LiveJob(q, u)
      BY <3>1 DEF StageInv, OrphanIsAlone
    <3> QED BY <1>1, <1>4, <3>2 DEF LiveJob, Pending
  <2> QED BY <2>1, <2>2
<1>6. ActiveStateHasWorker'
  <2>1. \A q \in Pipelines : ~(Alive /\ pstate[q] \in {"BUILDING", "VALIDATING"})
    BY <1>2 DEF StageInv, ActiveStateHasWorker, Holds
  <2> QED BY <1>1, <2>1 DEF ActiveStateHasWorker, Alive
<1>7. StageIsRecorded' /\ ChangeIsPrepared'
  BY DEF StageIsRecorded, ChangeIsPrepared, Changing
<1> QED BY <1>1, <1>5, <1>6, <1>7
    DEF StageInv, VersionRowsHaveRuns, VersionFree, Pending, EnqueueFindsNoRun,
        ApprovableIsValidated

LEMMA WorkerStageInv ==
  ASSUME Typed, Typed', JobInv, StageInv, Poll \/ WorkerStep, ~WorkerRejects
  PROVE  StageInv'
BY PollStageInv, WithinJobStageInv, ClaimStageInv, StageRunStageInv, WorkerWriteStageInv,
   CatchReleaseStageInv
DEF WorkerStep

-----------------------------------------------------------------------------
(* Life of the process.                                                    *)

\* A process that dies leaves the rows as they are.
LEMMA DeathStageInv ==
  ASSUME Typed', StageInv, phase' = "down", worker'.pc = "idle",
         \A c \in Clients : client'[c].pc = "idle",
         UNCHANGED <<pstate, activeVersion, versionStart, packaged, run>>
  PROVE  StageInv'
<1>1. OrphanIsAlone' /\ ActiveStateHasWorker'
  BY DEF OrphanIsAlone, ActiveStateHasWorker, Alive
<1>2. StageIsRecorded' /\ ChangeIsPrepared'
  BY DEF StageIsRecorded, ChangeIsPrepared, Changing
<1>3. EnqueueFindsNoRun'
  BY DEF EnqueueFindsNoRun
<1> QED BY <1>1, <1>2, <1>3
    DEF StageInv, VersionRowsHaveRuns, VersionFree, Pending, ApprovableIsValidated

\* Recovery leaves no run RUNNING and no pipeline BUILDING or VALIDATING.
LEMMA RestartStageInv ==
  ASSUME Typed, Typed', JobInv, StageInv, Restart
  PROVE  StageInv'
<1>1. /\ worker'.pc = "idle" /\ \A c \in Clients : client'[c].pc = "idle"
      /\ UNCHANGED <<activeVersion, versionStart, packaged>>
  BY DEF Restart, JobInv, DownIsIdle
<1>2. \A p \in Pipelines, v \in Versions, s \in Stages :
        run'[p][v][s] = IF run[p][v][s] = "RUNNING" THEN "FAILED_INTERRUPTED" ELSE run[p][v][s]
  BY DEF Restart, InterruptedStages, Stages
<1>3. \A p \in Pipelines :
        pstate'[p] = IF pstate[p] \in {"BUILDING", "VALIDATING"}
                     THEN "FAILED_INTERRUPTED" ELSE pstate[p]
  BY DEF Restart, InterruptedStates
<1>4. VersionRowsHaveRuns'
  BY <1>1, <1>2 DEF StageInv, VersionRowsHaveRuns, VersionFree, Pending, Stages
<1>5. OrphanIsAlone' /\ ActiveStateHasWorker'
  BY <1>2, <1>3 DEF OrphanIsAlone, ActiveStateHasWorker
<1>6. StageIsRecorded' /\ ChangeIsPrepared' /\ EnqueueFindsNoRun'
  BY <1>1 DEF StageIsRecorded, ChangeIsPrepared, Changing, EnqueueFindsNoRun
<1>7. (\A p \in Pipelines : pstate[p] \in BuildStates)'
  BY <1>3 DEF StageInv, BuildStates
<1>8. ApprovableIsValidated'
  <2> SUFFICES ASSUME NEW p \in Pipelines, pstate'[p] = "AWAITING_APPROVAL"
               PROVE  (/\ <<p, activeVersion[p]>> \in packaged
                       /\ \A s \in Stages : run[p][activeVersion[p]][s] = "SUCCEEDED")'
    BY DEF ApprovableIsValidated
  <2>1. /\ <<p, activeVersion[p]>> \in packaged
        /\ \A s \in Stages : run[p][activeVersion[p]][s] = "SUCCEEDED"
    BY <1>3 DEF StageInv, ApprovableIsValidated
  <2>2. activeVersion[p] \in Versions
    BY <2>1 DEF Typed, TypeOK
  <2> QED BY <1>1, <1>2, <2>1, <2>2
<1> QED BY <1>4, <1>5, <1>6, <1>7, <1>8 DEF StageInv

\* SIGTERM only tells the job to stop.
LEMMA ShutdownStageInv ==
  ASSUME Typed, Typed', StageInv, Shutdown
  PROVE  StageInv'
<1>1. /\ UNCHANGED <<pstate, activeVersion, versionStart, packaged, run, client>>
      /\ phase # "down" /\ phase' # "down"
  BY DEF Shutdown, db, runRows
<1>2. /\ worker'.pc = worker.pc /\ worker'.p = worker.p /\ worker'.v = worker.v
      /\ worker'.stage = worker.stage /\ worker'.to = worker.to
      /\ worker'.outcome = worker.outcome
  BY DEF Shutdown, AbortJob, WorkerRecord, Typed, TypeOK
<1>3. RunRowsInv'
  BY <1>1, <1>2, RunRowsFrame DEF StageInv, RunRowsInv, Holds
<1>4. WorkerInv'
  BY <1>1, <1>2, WorkerInvFrame DEF StageInv, WorkerInv
<1> QED BY <1>3, <1>4 DEF StageInv, RunRowsInv, WorkerInv

LEMMA NextStageInv ==
  ASSUME Typed, Typed', JobInv, StageInv, [Next]_vars
  PROVE  StageInv'
<1> USE DEF db, runRows
<1>1. ASSUME NEW c \in Clients, ClientStep(c)
      PROVE  StageInv'
  BY <1>1, QuietRequestStageInv, EnqueueReadStageInv, EnqueueCommitStageInv, CancelStageInv
  DEF ClientStep
<1>2. CASE Poll \/ WorkerStep
  <2>1. CASE WorkerRejects
    <3>1. Die
      BY <2>1 DEF WorkerRejects
    <3> QED BY <3>1, DieTyped, DeathStageInv DEF Die
  <2> QED BY <1>2, <2>1, WorkerStageInv
<1>3. CASE ProcessStep
  <2>1. CASE Exit \/ Crash
    BY <2>1, DeathStageInv DEF Exit, Crash, IdleClient, IdleWorker
  <2> QED BY <1>3, <2>1, ShutdownStageInv, RestartStageInv DEF ProcessStep
<1>4. CASE UNCHANGED vars
  <2>1. RunRowsInv'
    BY <1>4, RunRowsFrame DEF StageInv, RunRowsInv, Holds, vars
  <2>2. WorkerInv'
    BY <1>4, WorkerInvFrame DEF StageInv, WorkerInv, vars
  <2> QED BY <2>1, <2>2 DEF StageInv, RunRowsInv, WorkerInv
<1> QED BY <1>1, <1>2, <1>3, <1>4 DEF Next

-----------------------------------------------------------------------------
(* What is true of every behaviour.                                        *)

\* Runs, stages, states and the job in hand always fit together: StageInv is inductive
\* relative to JobInv, whatever the interleaving of requests, worker and crashes (the steps
\* of processNext, queueBuild and cancel at their awaits).
THEOREM StagesFitTogether == Spec => []StageInv
<1>1. Init => StageInv
  BY InitStageInv
<1>2. Typed /\ Typed' /\ JobInv /\ StageInv /\ [Next]_vars => StageInv'
  BY NextStageInv
<1> QED BY <1>1, <1>2, AlwaysTyped, JobsFitTogether, PTL DEF Spec

\* The two invariants of the queue hold together in every reachable state.
THEOREM QueueFitsTogether == Spec => []QueueInv
<1>1. JobInv /\ StageInv => QueueInv
  BY DEF QueueInv
<1> QED BY <1>1, JobsFitTogether, StagesFitTogether, PTL

\* A pipeline that waits for approval has a package, and all four stages of the version it
\* would deploy succeeded.
THEOREM ApprovalIsSafe == Spec => []ApprovableIsValidated
<1>1. StageInv => ApprovableIsValidated
  BY DEF StageInv
<1> QED BY <1>1, StagesFitTogether, PTL

\* While the process lives, a pipeline that is BUILDING or VALIDATING is being worked on.
THEOREM NoPipelineLeftBehind == Spec => []ActiveStateHasWorker
<1>1. StageInv => ActiveStateHasWorker
  BY DEF StageInv
<1> QED BY <1>1, StagesFitTogether, PTL

\* While the process lives, a RUNNING run nobody executes belongs to a cancelled pipeline, for
\* any interleaving of builds, retries, cancels, worker, failures and crashes.  An approval
\* overwriting the state of a queued build is outside Spec and outside this theorem.
THEOREM OnlyCancelledBuildsLeaveRuns == Spec => []OrphanRunIsCancelled
<1>1. StageInv => OrphanRunIsCancelled
  BY DEF StageInv, OrphanIsAlone, OrphanRunIsCancelled
<1> QED BY <1>1, StagesFitTogether, PTL

-----------------------------------------------------------------------------
(* Action properties.                                                      *)

\* The run a worker step writes is not over yet.
LEMMA WorkerRunIsOpen ==
  ASSUME Typed, StageInv, CreateStageRun \/ FinishRun
  PROVE  run[worker.p][worker.v][worker.stage] \notin EndStatus
<1>0. worker.stage \in Stages
  BY DEF Typed, TypeOK, WorkerRecord
<1>1. worker.stage \notin StagesBefore(worker.stage)
  BY <1>0 DEF StagesBefore, Stages
<1>2. run[worker.p][worker.v][worker.stage] \in {"ABSENT", "RUNNING"}
  <2>1. CASE CreateStageRun
    BY <1>0, <1>1, <2>1 DEF CreateStageRun, StageInv, StageIsRecorded, RunsOfJob
  <2>2. CASE FinishRun
    BY <1>0, <1>1, <2>2 DEF FinishRun, StageInv, StageIsRecorded, RunsOfJob
  <2> QED BY <2>1, <2>2
<1> QED BY <1>2 DEF EndStatus

LEMMA NextKeepsEndedRuns ==
  ASSUME Typed, StageInv, [Next]_vars,
         NEW p \in Pipelines, NEW v \in Versions, NEW s \in Stages,
         run[p][v][s] \in EndStatus
  PROVE  run'[p][v][s] = run[p][v][s]
<1> USE DEF db, runRows
<1>0. run \in [Pipelines -> [Versions -> [Stages -> RunStatus]]]
  BY DEF Typed, TypeOK
<1>a. run[p][v][s] \notin {"ABSENT", "PENDING", "RUNNING"}
  BY DEF EndStatus
<1>1. ASSUME NEW c \in Clients, ClientStep(c)
      PROVE  run'[p][v][s] = run[p][v][s]
  <2>0. client[c].pc = "enqueue" => /\ client[c].p \in Pipelines /\ client[c].version \in Versions
    BY DEF Typed, LocalsAreReal, RealRequest
  <2>1. CASE EnqueueCommit(c)
    <3>1. run[client[c].p][client[c].version]["BUILD"] = "ABSENT"
      BY <2>0, <2>1 DEF EnqueueCommit, StageInv, VersionRowsHaveRuns, Stages
    <3>2. <<p, v, s>> # <<client[c].p, client[c].version, "BUILD">>
      BY <1>a, <3>1
    <3> QED BY <1>0, <2>0, <2>1, <3>2 DEF EnqueueCommit, SetRun
  <2>2. CASE CancelPendingRuns(c)
    BY <1>0, <1>a, <2>2 DEF CancelPendingRuns, CancellableRun
  <2>3. CASE ~EnqueueCommit(c) /\ ~CancelPendingRuns(c)
    BY <1>1, <2>3 DEF ClientStep, RequestBuild, SaveSpec, RenderFails, EnqueueRead,
       EnqueueAborts, RespondBuild, RequestCancel, CancelJob, CancelRead, CancelWrite
  <2> QED BY <2>1, <2>2, <2>3
<1>2. CASE Poll \/ WorkerStep
  <2>1. ASSUME NEW q \in Pipelines, NEW w \in Versions, Claim(q, w)
        PROVE  run'[p][v][s] = run[p][v][s]
    BY <1>0, <1>a, <2>1 DEF Claim, Pending, SetRun
  <2>2. CASE CreateStageRun \/ FinishRun
    <3>1. <<p, v, s>> # <<worker.p, worker.v, worker.stage>>
      BY <2>2, WorkerRunIsOpen
    <3> QED BY <1>0, <2>2, <3>1 DEF CreateStageRun, FinishRun, SetRun
  <2>3. CASE /\ ~\E q \in Pipelines, w \in Versions : Claim(q, w)
             /\ ~CreateStageRun /\ ~FinishRun
    BY <1>2, <2>3 DEF WorkerStep, Poll, NothingToClaim, Activate, WorkerRead, WorkerRefused,
       WorkerRejects, Die, WorkerWrite, Spawn, PrepareFails, ChildExits, CheckOutput,
       SaveArtifacts, Catch
  <2> QED BY <1>2, <2>1, <2>2, <2>3
<1>3. CASE ProcessStep
  <2>1. CASE Restart
    BY <1>a, <2>1 DEF Restart
  <2>2. CASE ~Restart
    BY <1>3, <2>2 DEF ProcessStep, Shutdown, Exit, Crash
  <2> QED BY <2>1, <2>2
<1>4. CASE UNCHANGED vars
  BY <1>4 DEF vars
<1> QED BY <1>1, <1>2, <1>3, <1>4 DEF Next

\* A run that has ended keeps its result, in every step of every behaviour.
THEOREM ResultsAreFinal == Spec => RunsEndOnce
<1>1. Typed /\ StageInv /\ [Next]_vars =>
        [\A p \in Pipelines, v \in Versions, s \in Stages :
           run[p][v][s] \in EndStatus => run'[p][v][s] = run[p][v][s]]_vars
  BY NextKeepsEndedRuns
<1> QED BY <1>1, AlwaysTyped, StagesFitTogether, PTL DEF Spec, RunsEndOnce

LEMMA NextLosesOnlyCancellations ==
  ASSUME Typed, JobInv, StageInv, [Next]_vars, NEW p \in Pipelines
  PROVE  \/ pstate'[p] = pstate[p]
         \/ CanTransition(pstate[p], pstate'[p])
         \/ pstate[p] = "CANCELLED"
<1> USE DEF db, runRows
<1>0. pstate \in [Pipelines -> PipelineState]
  BY DEF Typed, TypeOK
<1> DEFINE Legal == \/ pstate'[p] = pstate[p]
                    \/ CanTransition(pstate[p], pstate'[p])
                    \/ pstate[p] = "CANCELLED"
<1>1. ASSUME NEW c \in Clients, ClientStep(c)
      PROVE  Legal
  <2>1. CASE EnqueueCommit(c)
    <3>1. client[c].p \in Pipelines /\ client[c].version > activeVersion[client[c].p]
      BY <2>1 DEF EnqueueCommit, Typed, LocalsAreReal, RealRequest, JobInv,
                  VersionRowsContiguous
    <3>2. pstate[client[c].p] \in Requeueable \cup {"CANCELLED"}
      BY <2>1, <3>1 DEF EnqueueCommit, StageInv, EnqueueFindsNoRun
    <3>3. pstate' = [pstate EXCEPT ![client[c].p] = "BUILD_QUEUED"]
      BY <2>1 DEF EnqueueCommit, SetState
    <3>4. CASE p = client[c].p
      BY <1>0, <3>1, <3>2, <3>3, <3>4 DEF CanTransition, Transitions
    <3>5. CASE p # client[c].p
      BY <1>0, <3>1, <3>3, <3>5
    <3> QED BY <3>4, <3>5
  <2>2. CASE CancelWrite(c)
    <3>1. pstate' = [pstate EXCEPT ![client[c].p] = "CANCELLED"]
      BY <2>2 DEF CancelWrite, SetState
    <3>2. pstate[p] \in Cancellable \cup {"CANCELLED"}
      BY <1>0 DEF StageInv, BuildStates, Cancellable, PipelineState
    <3> QED BY <1>0, <3>1, <3>2 DEF CanTransition, Transitions
  <2>3. CASE ~EnqueueCommit(c) /\ ~CancelWrite(c)
    BY <1>1, <2>3 DEF ClientStep, RequestBuild, SaveSpec, RenderFails, EnqueueRead,
       EnqueueAborts, RespondBuild, RequestCancel, CancelJob, CancelRead, CancelPendingRuns
  <2> QED BY <2>1, <2>2, <2>3
<1>2. CASE Poll \/ WorkerStep
  <2>1. CASE WorkerWrite
    <3>1. worker.p \in Pipelines /\ pstate' = [pstate EXCEPT ![worker.p] = worker.to]
      BY <2>1 DEF WorkerWrite, SetState, Typed, LocalsAreReal, RealJob
    <3>2. \/ pstate[worker.p] = "CANCELLED"
          \/ pstate[worker.p] = "BUILD_QUEUED" /\ worker.to = "BUILDING"
          \/ pstate[worker.p] = "BUILDING" /\ worker.to \in {"VALIDATING", "BUILD_FAILED"}
          \/ /\ pstate[worker.p] = "VALIDATING"
             /\ worker.to \in {"AWAITING_APPROVAL", "VALIDATION_FAILED"}
      BY <2>1 DEF WorkerWrite, StageInv, ChangeIsPrepared, Changing, StateOfJob, FailureStates
    <3>3. pstate[worker.p] = "CANCELLED" \/ CanTransition(pstate[worker.p], worker.to)
      BY <3>2 DEF CanTransition, Transitions
    <3> QED BY <1>0, <3>1, <3>3
  <2>2. CASE ~WorkerWrite
    BY <1>2, <2>2 DEF WorkerStep, Poll, Claim, NothingToClaim, Activate, WorkerRead,
       WorkerRefused, WorkerRejects, Die, CreateStageRun, Spawn, PrepareFails, ChildExits,
       FinishRun, CheckOutput, SaveArtifacts, Catch
  <2> QED BY <2>1, <2>2
<1>3. CASE ProcessStep
  <2>1. CASE Restart
    <3>1. \/ pstate'[p] = pstate[p]
          \/ pstate[p] \in {"BUILDING", "VALIDATING"} /\ pstate'[p] = "FAILED_INTERRUPTED"
      BY <2>1 DEF Restart, InterruptedStates
    <3> QED BY <3>1 DEF CanTransition, Transitions
  <2>2. CASE ~Restart
    BY <1>3, <2>2 DEF ProcessStep, Shutdown, Exit, Crash
  <2> QED BY <2>1, <2>2
<1>4. CASE UNCHANGED vars
  BY <1>4 DEF vars
<1> QED BY <1>1, <1>2, <1>3, <1>4 DEF Next

\* Unlocked as they are, the transactions of builds, retries and cancels leave the table of
\* the state machine only where they overwrite a cancellation.
THEOREM OnlyCancellationsAreLost == Spec => OnlyCancellationIsLost
<1>1. Typed /\ JobInv /\ StageInv /\ [Next]_vars =>
        [\A p \in Pipelines :
           \/ pstate'[p] = pstate[p]
           \/ CanTransition(pstate[p], pstate'[p])
           \/ pstate[p] = "CANCELLED"]_vars
  BY NextLosesOnlyCancellations
<1> QED BY <1>1, AlwaysTyped, JobsFitTogether, StagesFitTogether, PTL
    DEF Spec, OnlyCancellationIsLost

=============================================================================
