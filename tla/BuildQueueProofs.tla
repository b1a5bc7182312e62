-------------------------- MODULE BuildQueueProofs --------------------------
(***************************************************************************)
(* Proofs about the build queue for every number of pipelines, requests,   *)
(* versions and restarts: type correctness, the inductive invariant JobInv *)
(* and what it says about live jobs.                                       *)
(***************************************************************************)
EXTENDS BuildQueue, TLAPS

\* Types alone are not inductive: a handler writes to the pipeline it holds, which has
\* to be a real one.
Typed == TypeOK /\ LocalsAreReal

-----------------------------------------------------------------------------
(* What the shared pieces of the handlers do to a well-typed state.        *)

LEMMA StoreClient ==
  ASSUME client \in [Clients -> ClientRecord], NEW c \in Clients, NEW r \in ClientRecord,
         client' = [client EXCEPT ![c] = r]
  PROVE  /\ client' \in [Clients -> ClientRecord]
         /\ client'[c] = r
         /\ \A d \in Clients \ {c} : client'[d] = client[d]
OBVIOUS

LEMMA GotoTyped ==
  ASSUME client \in [Clients -> ClientRecord], NEW c \in Clients, NEW pc \in ClientPc,
         Goto(c, pc)
  PROVE  /\ client' \in [Clients -> ClientRecord]
         /\ client'[c].pc = pc
         /\ client'[c].p = client[c].p
         /\ client'[c].version = client[c].version
         /\ client'[c].start = client[c].start
         /\ \A d \in Clients \ {c} : client'[d] = client[d]
BY DEF Goto, ClientRecord

\* What a request that passes the checks of enqueueBuild goes on with.
LEMMA EnqueueLocals ==
  ASSUME NEW x \in ClientRecord
  PROVE  LET r == [x EXCEPT !.pc = "enqueue", !.older = PendingJobs] IN
         /\ r \in ClientRecord /\ r.pc = "enqueue" /\ r.p = x.p
         /\ r.version = x.version /\ r.start = x.start
<1> DEFINE y == [x EXCEPT !.pc = "enqueue"]
           jobs == PendingJobs
<1>1. /\ y \in ClientRecord /\ y.pc = "enqueue" /\ y.p = x.p
      /\ y.version = x.version /\ y.start = x.start
  BY DEF ClientRecord, ClientPc
<1>2. [x EXCEPT !.pc = "enqueue", !.older = PendingJobs] = [y EXCEPT !.older = jobs]
  OBVIOUS
<1>3. jobs \in SUBSET (Pipelines \X Versions)
  BY DEF PendingJobs
<1> HIDE DEF y, jobs
<1>4. LET r == [y EXCEPT !.older = jobs] IN
      /\ r \in ClientRecord /\ r.pc = y.pc /\ r.p = y.p
      /\ r.version = y.version /\ r.start = y.start
  BY <1>1, <1>3 DEF ClientRecord
<1> QED BY <1>1, <1>2, <1>4

\* What the catch block goes on with.
LEMMA CatchLocals ==
  ASSUME NEW x \in WorkerRecord, NEW to \in PipelineState \cup {None}
  PROVE  LET w == [x EXCEPT !.pc = "assert", !.to = to] IN
         /\ w \in WorkerRecord /\ w.pc = "assert" /\ w.to = to
         /\ w.p = x.p /\ w.v = x.v /\ w.stage = x.stage
<1> DEFINE y == [x EXCEPT !.pc = "assert"]
<1>1. /\ y \in WorkerRecord /\ y.pc = "assert"
      /\ y.p = x.p /\ y.v = x.v /\ y.stage = x.stage
  BY DEF WorkerRecord, WorkerPc
<1>2. [x EXCEPT !.pc = "assert", !.to = to] = [y EXCEPT !.to = to]
  OBVIOUS
<1> HIDE DEF y
<1>3. LET w == [y EXCEPT !.to = to] IN
      /\ w \in WorkerRecord /\ w.pc = y.pc /\ w.to = to
      /\ w.p = y.p /\ w.v = y.v /\ w.stage = y.stage
  BY <1>1 DEF WorkerRecord
<1> QED BY <1>1, <1>2, <1>3

LEMMA IdleTyped == IdleClient \in ClientRecord /\ IdleWorker \in WorkerRecord
<1>1. IdleClient \in ClientRecord
  BY QueueAssumption DEF IdleClient, ClientRecord, ClientPc
<1>2. IdleWorker \in WorkerRecord
  BY QueueAssumption DEF IdleWorker, WorkerRecord, WorkerPc, Stages
<1> QED BY <1>1, <1>2

LEMMA LeaveTyped ==
  ASSUME client \in [Clients -> ClientRecord], NEW c \in Clients, Leave(c)
  PROVE  /\ client' \in [Clients -> ClientRecord]
         /\ client'[c].pc = "idle"
         /\ \A d \in Clients \ {c} : client'[d] = client[d]
<1>1. IdleClient.pc = "idle"
  BY DEF IdleClient
<1> QED BY <1>1, IdleTyped, StoreClient DEF Leave

LEMMA SetRunTyped ==
  ASSUME run \in [Pipelines -> [Versions -> [Stages -> RunStatus]]],
         NEW p \in Pipelines, NEW v \in Versions, NEW s \in Stages, NEW status \in RunStatus,
         SetRun(p, v, s, status)
  PROVE  /\ run' \in [Pipelines -> [Versions -> [Stages -> RunStatus]]]
         /\ run'[p][v][s] = status
         /\ \A q \in Pipelines, w \in Versions, t \in Stages :
              <<q, w, t>> # <<p, v, s>> => run'[q][w][t] = run[q][w][t]
BY DEF SetRun

LEMMA SetStateTyped ==
  ASSUME pstate \in [Pipelines -> PipelineState],
         NEW p \in Pipelines, NEW to \in PipelineState, SetState(p, to)
  PROVE  /\ pstate' \in [Pipelines -> PipelineState]
         /\ pstate'[p] = to
         /\ \A q \in Pipelines \ {p} : pstate'[q] = pstate[q]
BY DEF SetState

LEMMA AbortJobTyped ==
  ASSUME worker \in WorkerRecord, AbortJob
  PROVE  /\ worker' \in WorkerRecord
         /\ worker'.pc = worker.pc /\ worker'.p = worker.p /\ worker'.v = worker.v
BY DEF AbortJob, WorkerRecord

LEMMA ProcessNextTyped ==
  ASSUME worker \in WorkerRecord, ProcessNext
  PROVE  /\ worker' \in WorkerRecord
         /\ \/ worker' = worker
            \/ worker.pc = "idle" /\ worker'.pc = "claiming"
BY DEF ProcessNext, WorkerRecord, WorkerPc

LEMMA ThrowTyped ==
  ASSUME worker \in WorkerRecord
  PROVE  /\ Throw(worker) \in WorkerRecord
         /\ Throw(worker).pc = "catch"
         /\ Throw(worker).p = worker.p /\ Throw(worker).v = worker.v
BY DEF Throw, WorkerRecord, WorkerPc, Stages

LEMMA DieTyped ==
  ASSUME Typed, Die
  PROVE  Typed' /\ phase' = "down" /\ worker'.pc = "idle"
         /\ \A c \in Clients : client'[c].pc = "idle"
<1>1. IdleClient.pc = "idle" /\ IdleWorker.pc = "idle"
  BY DEF IdleClient, IdleWorker
<1>2. TypeOK'
  BY IdleTyped DEF Typed, Die, TypeOK, db, runRows
<1>3. LocalsAreReal'
  BY <1>1 DEF Die, LocalsAreReal, RealRequest, RealJob
<1> QED BY <1>1, <1>2, <1>3 DEF Die, Typed

LEMMA OnlyRequeueableIsQueued ==
  ASSUME NEW s, CanTransition(s, "BUILD_QUEUED")
  PROVE  s \in Requeueable
BY DEF CanTransition, Transitions, Requeueable, Cancellable
-----------------------------------------------------------------------------
(* Type correctness, one step per action.                                  *)

LEMMA InitTyped == Init => Typed
<1> SUFFICES ASSUME Init PROVE Typed
  OBVIOUS
<1>1. IdleClient.pc = "idle" /\ IdleWorker.pc = "idle"
  BY DEF IdleClient, IdleWorker
<1>2. TypeOK
  BY QueueAssumption, IdleTyped
  DEF Init, TypeOK, Versions, RunStatus, PipelineState
<1>3. LocalsAreReal
  BY <1>1 DEF Init, LocalsAreReal, RealRequest, RealJob
<1> QED BY <1>2, <1>3 DEF Typed

LEMMA BuildRequestTyped ==
  ASSUME Typed, NEW c \in Clients, NEW p \in Pipelines, NEW b \in StartBlocks \cup {None},
         RequestBuild(c, p, b)
  PROVE  Typed'
<1>1. CASE pstate[p] \in QueuedOrBuilding /\ Goto(c, "respond")
  <2>1. /\ client' \in [Clients -> ClientRecord]
        /\ client'[c].pc = "respond"
        /\ \A d \in Clients \ {c} : client'[d] = client[d]
    BY <1>1, GotoTyped DEF Typed, TypeOK, ClientPc
  <2>2. TypeOK'
    BY <2>1 DEF Typed, RequestBuild, TypeOK, db, runRows
  <2>3. LocalsAreReal'
    BY <2>1 DEF Typed, RequestBuild, LocalsAreReal, RealRequest, RealJob
  <2> QED BY <2>2, <2>3 DEF Typed
<1>2. CASE ~(pstate[p] \in QueuedOrBuilding /\ Goto(c, "respond"))
  <2> DEFINE r == [pc |-> IF b = None THEN "render" ELSE "saveSpec",
                   p |-> p,
                   version |-> activeVersion[p] + 1,
                   start |-> IF b = None THEN specStart[p] ELSE b,
                   older |-> {}]
  <2>1. client' = [client EXCEPT ![c] = r] /\ activeVersion[p] < MaxVersion
    BY <1>2 DEF RequestBuild
  <2>2. r \in ClientRecord /\ RealRequest(r)
    BY QueueAssumption, <2>1
    DEF Typed, TypeOK, ClientRecord, ClientPc, Versions, RealRequest
  <2> HIDE DEF r
  <2>3. /\ client' \in [Clients -> ClientRecord]
        /\ client'[c] = r
        /\ \A d \in Clients \ {c} : client'[d] = client[d]
    BY <2>1, <2>2, StoreClient DEF Typed, TypeOK
  <2>4. TypeOK'
    BY <2>3 DEF Typed, RequestBuild, TypeOK, db, runRows
  <2>5. LocalsAreReal'
    BY <2>2, <2>3 DEF Typed, RequestBuild, LocalsAreReal, RealJob, RealRequest
  <2> QED BY <2>4, <2>5 DEF Typed
<1> QED BY <1>1, <1>2

LEMMA QueueBuildTyped ==
  ASSUME Typed, NEW c \in Clients,
         \/ SaveSpec(c) \/ RenderFails(c) \/ EnqueueRead(c) \/ EnqueueCommit(c)
         \/ EnqueueAborts(c) \/ RespondBuild(c)
  PROVE  Typed'
<1> USE DEF Typed, TypeOK, db, runRows
<1>0. RealRequest(client[c]) /\ client \in [Clients -> ClientRecord]
  BY DEF LocalsAreReal
<1>1. CASE SaveSpec(c)
  <2>1. /\ client' \in [Clients -> ClientRecord]
        /\ client'[c].pc = "render"
        /\ client'[c].p = client[c].p /\ client'[c].version = client[c].version
        /\ client'[c].start = client[c].start
        /\ \A d \in Clients \ {c} : client'[d] = client[d]
    BY <1>1, GotoTyped DEF SaveSpec, ClientPc
  <2>2. client[c].p \in Pipelines /\ client[c].start \in StartBlocks
    BY <1>0, <1>1 DEF SaveSpec, RealRequest
  <2>3. TypeOK'
    BY <1>1, <2>1, <2>2 DEF SaveSpec
  <2>4. LocalsAreReal'
    BY <1>0, <1>1, <2>1 DEF SaveSpec, LocalsAreReal, RealRequest, RealJob
  <2> QED BY <2>3, <2>4
<1>2. CASE Leave(c) /\ UNCHANGED <<db, worker, phase, stops>>
  <2>1. /\ client' \in [Clients -> ClientRecord]
        /\ client'[c].pc = "idle"
        /\ \A d \in Clients \ {c} : client'[d] = client[d]
    BY <1>2, LeaveTyped
  <2>2. TypeOK'
    BY <1>2, <2>1
  <2>3. LocalsAreReal'
    BY <1>2, <2>1 DEF LocalsAreReal, RealRequest, RealJob
  <2> QED BY <2>2, <2>3
<1>3. CASE EnqueueRead(c) /\ Enqueueable(client[c].p, client[c].version)
  <2>1. /\ client' \in [Clients -> ClientRecord]
        /\ client'[c].pc = "enqueue"
        /\ client'[c].p = client[c].p /\ client'[c].version = client[c].version
        /\ client'[c].start = client[c].start
        /\ \A d \in Clients \ {c} : client'[d] = client[d]
    <3> DEFINE r == [client[c] EXCEPT !.pc = "enqueue", !.older = PendingJobs]
    <3>1. /\ r \in ClientRecord /\ r.pc = "enqueue" /\ r.p = client[c].p
          /\ r.version = client[c].version /\ r.start = client[c].start
      BY <1>0, EnqueueLocals
    <3>2. client' = [client EXCEPT ![c] = r]
      BY <1>3 DEF EnqueueRead
    <3> QED BY <1>0, <3>1, <3>2, StoreClient
  <2>2. TypeOK'
    BY <1>3, <2>1 DEF EnqueueRead
  <2>3. LocalsAreReal'
    BY <1>0, <1>3, <2>1 DEF EnqueueRead, LocalsAreReal, RealRequest, RealJob
  <2> QED BY <2>2, <2>3
<1>4. CASE EnqueueCommit(c)
  <2> DEFINE p == client[c].p
             v == client[c].version
  <2>1. /\ client' \in [Clients -> ClientRecord]
        /\ client'[c].pc = "respond"
        /\ \A d \in Clients \ {c} : client'[d] = client[d]
    BY <1>4, GotoTyped DEF EnqueueCommit, ClientPc
  <2>2. /\ p \in Pipelines /\ v \in Versions /\ v \in 0..MaxVersion
        /\ client[c].start \in StartBlocks
        /\ client[c].older \in SUBSET (Pipelines \X Versions)
    BY <1>0, <1>4 DEF EnqueueCommit, RealRequest, ClientRecord
  <2>3. run' \in [Pipelines -> [Versions -> [Stages -> RunStatus]]]
    BY <1>4, <2>2, SetRunTyped DEF EnqueueCommit, RunStatus, Stages
  <2>4. pstate' \in [Pipelines -> PipelineState]
    BY <1>4, <2>2, SetStateTyped DEF EnqueueCommit, PipelineState
  <2>5. /\ activeVersion' \in [Pipelines -> 0..MaxVersion]
        /\ versionStart' \in [Pipelines -> [Versions -> StartBlocks \cup {None}]]
        /\ older' \in [Pipelines -> [Versions -> SUBSET (Pipelines \X Versions)]]
    BY <1>4, <2>2 DEF EnqueueCommit
  <2>6. TypeOK'
    BY <1>4, <2>1, <2>3, <2>4, <2>5 DEF EnqueueCommit
  <2>7. LocalsAreReal'
    BY <1>4, <2>1 DEF EnqueueCommit, LocalsAreReal, RealRequest, RealJob
  <2> QED BY <2>6, <2>7
<1>5. CASE RespondBuild(c)
  <2>1. /\ client' \in [Clients -> ClientRecord]
        /\ client'[c].pc = "idle"
        /\ \A d \in Clients \ {c} : client'[d] = client[d]
    BY <1>5, LeaveTyped DEF RespondBuild
  <2>2. /\ worker' \in WorkerRecord
        /\ worker' = worker \/ worker'.pc = "claiming"
    BY <1>5, ProcessNextTyped DEF RespondBuild
  <2>3. TypeOK'
    BY <1>5, <2>1, <2>2 DEF RespondBuild
  <2>4. LocalsAreReal'
    BY <1>5, <2>1, <2>2 DEF RespondBuild, LocalsAreReal, RealRequest, RealJob
  <2> QED BY <2>3, <2>4
<1> QED
  BY <1>1, <1>2, <1>3, <1>4, <1>5 DEF RenderFails, EnqueueRead, EnqueueAborts

LEMMA CancelTyped ==
  ASSUME Typed, NEW c \in Clients,
         \/ \E p \in Pipelines : RequestCancel(c, p)
         \/ CancelJob(c) \/ CancelPendingRuns(c) \/ CancelRead(c) \/ CancelWrite(c)
  PROVE  Typed'
<1> USE DEF Typed, TypeOK, db, runRows
<1>0. RealRequest(client[c]) /\ client \in [Clients -> ClientRecord]
  BY DEF LocalsAreReal
<1>1. ASSUME NEW p \in Pipelines, RequestCancel(c, p)
      PROVE  Typed'
  <2> DEFINE r == [IdleClient EXCEPT !.pc = "abort", !.p = p]
  <2>1. r \in ClientRecord /\ RealRequest(r)
    BY IdleTyped DEF ClientRecord, ClientPc, RealRequest
  <2>2. client' = [client EXCEPT ![c] = r]
    BY <1>1 DEF RequestCancel
  <2> HIDE DEF r
  <2>3. /\ client' \in [Clients -> ClientRecord]
        /\ client'[c] = r
        /\ \A d \in Clients \ {c} : client'[d] = client[d]
    BY <1>0, <2>1, <2>2, StoreClient
  <2>4. TypeOK'
    BY <1>1, <2>3 DEF RequestCancel
  <2>5. LocalsAreReal'
    BY <1>1, <2>1, <2>3 DEF RequestCancel, LocalsAreReal, RealRequest, RealJob
  <2> QED BY <2>4, <2>5
<1>2. CASE CancelJob(c)
  <2>1. /\ client' \in [Clients -> ClientRecord]
        /\ client'[c].pc = "cancelRuns" /\ client'[c].p = client[c].p
        /\ \A d \in Clients \ {c} : client'[d] = client[d]
    BY <1>2, GotoTyped DEF CancelJob, ClientPc
  <2>2. /\ worker' \in WorkerRecord
        /\ worker'.pc = worker.pc /\ worker'.p = worker.p /\ worker'.v = worker.v
    BY <1>2, AbortJobTyped DEF CancelJob
  <2>3. TypeOK'
    BY <1>2, <2>1, <2>2 DEF CancelJob
  <2>4. LocalsAreReal'
    BY <1>0, <1>2, <2>1, <2>2 DEF CancelJob, LocalsAreReal, RealRequest, RealJob
  <2> QED BY <2>3, <2>4
<1>3. CASE CancelPendingRuns(c)
  <2>1. /\ client' \in [Clients -> ClientRecord]
        /\ client'[c].pc = "assertCancel" /\ client'[c].p = client[c].p
        /\ \A d \in Clients \ {c} : client'[d] = client[d]
    BY <1>3, GotoTyped DEF CancelPendingRuns, ClientPc
  <2>2. run' \in [Pipelines -> [Versions -> [Stages -> RunStatus]]]
    <3> DEFINE p == client[c].p
               runs == [v \in Versions |-> [s \in Stages |->
                          IF CancellableRun(run[p][v][s]) THEN "CANCELLED" ELSE run[p][v][s]]]
    <3>1. p \in Pipelines
      BY <1>0, <1>3 DEF CancelPendingRuns, RealRequest
    <3>2. "CANCELLED" \in RunStatus
      BY DEF RunStatus, EndStatus
    <3>3. runs \in [Versions -> [Stages -> RunStatus]]
      BY <3>1, <3>2
    <3>4. run' = [run EXCEPT ![p] = runs]
      BY <1>3 DEF CancelPendingRuns
    <3> HIDE DEF p, runs
    <3> QED BY <3>1, <3>3, <3>4
  <2>3. TypeOK'
    BY <1>3, <2>1, <2>2 DEF CancelPendingRuns
  <2>4. LocalsAreReal'
    BY <1>0, <1>3, <2>1 DEF CancelPendingRuns, LocalsAreReal, RealRequest, RealJob
  <2> QED BY <2>3, <2>4
<1>4. CASE CancelRead(c)
  <2>1. /\ client' \in [Clients -> ClientRecord]
        /\ client'[c].pc \in {"writeCancel", "idle"}
        /\ client'[c].pc = "writeCancel" => client'[c].p = client[c].p
        /\ \A d \in Clients \ {c} : client'[d] = client[d]
    BY <1>0, <1>4, GotoTyped, LeaveTyped DEF CancelRead, ClientPc
  <2>2. TypeOK'
    BY <1>4, <2>1 DEF CancelRead
  <2>3. LocalsAreReal'
    BY <1>0, <1>4, <2>1 DEF CancelRead, LocalsAreReal, RealRequest, RealJob
  <2> QED BY <2>2, <2>3
<1>5. CASE CancelWrite(c)
  <2>1. /\ client' \in [Clients -> ClientRecord]
        /\ client'[c].pc = "idle"
        /\ \A d \in Clients \ {c} : client'[d] = client[d]
    BY <1>5, LeaveTyped DEF CancelWrite
  <2>2. client[c].p \in Pipelines
    BY <1>0, <1>5 DEF CancelWrite, RealRequest
  <2>3. pstate' \in [Pipelines -> PipelineState]
    BY <1>5, <2>2, SetStateTyped DEF CancelWrite, PipelineState
  <2>4. TypeOK'
    BY <1>5, <2>1, <2>3 DEF CancelWrite
  <2>5. LocalsAreReal'
    BY <1>5, <2>1 DEF CancelWrite, LocalsAreReal, RealRequest, RealJob
  <2> QED BY <2>4, <2>5
<1> QED BY <1>1, <1>2, <1>3, <1>4, <1>5

\* A worker step changes the worker and at most the state, the runs and the packages.
LEMMA WorkerFrame ==
  ASSUME Typed, worker' \in WorkerRecord, RealJob(worker'),
         pstate' \in [Pipelines -> PipelineState],
         run' \in [Pipelines -> [Versions -> [Stages -> RunStatus]]],
         packaged' \in SUBSET (Pipelines \X Versions),
         UNCHANGED <<activeVersion, specStart, versionStart, older, client, phase, stops>>
  PROVE  Typed'
BY DEF Typed, TypeOK, LocalsAreReal

LEMMA WorkerTyped ==
  ASSUME Typed, Poll \/ WorkerStep
  PROVE  Typed'
<1> USE DEF Typed, TypeOK, db, runRows
<1>0. worker \in WorkerRecord /\ RealJob(worker) /\ RealJob(IdleWorker)
  BY DEF LocalsAreReal, RealJob, IdleWorker
<1>1. CASE Poll
  BY <1>0, <1>1, ProcessNextTyped, WorkerFrame DEF Poll, RealJob
<1>2. ASSUME NEW p \in Pipelines, NEW v \in Versions, Claim(p, v)
      PROVE  Typed'
  <2>0. v \in 0..MaxVersion
    BY QueueAssumption DEF Versions
  <2>1. worker' \in WorkerRecord /\ RealJob(worker')
    BY <1>0, <1>2, <2>0 DEF Claim, WorkerRecord, WorkerPc, RealJob
  <2>2. run' \in [Pipelines -> [Versions -> [Stages -> RunStatus]]]
    BY <1>2, SetRunTyped DEF Claim, RunStatus, Stages
  <2> QED BY <1>2, <2>1, <2>2, WorkerFrame DEF Claim
<1>3. CASE NothingToClaim
  BY <1>0, <1>3, IdleTyped, WorkerFrame DEF NothingToClaim, Release
<1>4. CASE Activate \/ WorkerRead \/ Spawn \/ PrepareFails
  <2>1. worker' \in WorkerRecord /\ RealJob(worker')
    <3>1. CASE Activate
      BY <1>0, <3>1 DEF Activate, WorkerRecord, WorkerPc, PipelineState, RealJob
    <3>2. CASE WorkerRead
      BY <1>0, <3>2 DEF WorkerRead, WorkerRecord, WorkerPc, RealJob
    <3>3. CASE Spawn
      BY <1>0, <3>3 DEF Spawn, WorkerRecord, WorkerPc, RealJob
    <3>4. CASE PrepareFails
      BY <1>0, <3>4 DEF PrepareFails, WorkerRecord, WorkerPc, EndStatus, RealJob
    <3> QED BY <1>4, <3>1, <3>2, <3>3, <3>4
  <2> QED BY <1>4, <2>1, WorkerFrame DEF Activate, WorkerRead, Spawn, PrepareFails
<1>5. CASE WorkerRefused
  BY <1>0, <1>5, ThrowTyped, WorkerFrame DEF WorkerRefused, RealJob
<1>6. CASE WorkerRejects
  BY <1>6, DieTyped DEF WorkerRejects
<1>7. CASE WorkerWrite
  <2>1. worker.p \in Pipelines /\ worker.v \in Versions
    BY <1>0, <1>7 DEF WorkerWrite, RealJob
  <2>2. worker' \in WorkerRecord /\ RealJob(worker')
    BY <1>0, <1>7, <2>1, IdleTyped
    DEF WorkerWrite, WorkerRecord, WorkerPc, Stages, RealJob, Release
  <2>3. worker.to \in PipelineState
    BY <1>7 DEF WorkerWrite, FailureStates, PipelineState
  <2>4. pstate' \in [Pipelines -> PipelineState]
    BY <1>7, <2>1, <2>3, SetStateTyped DEF WorkerWrite
  <2> QED BY <1>7, <2>2, <2>4, WorkerFrame DEF WorkerWrite
<1>8. CASE CreateStageRun
  <2>1. worker.p \in Pipelines /\ worker.v \in Versions /\ worker.stage \in Stages
    BY <1>0, <1>8 DEF CreateStageRun, RealJob, WorkerRecord
  <2>2. worker' \in WorkerRecord /\ RealJob(worker')
    BY <1>0, <1>8, <2>1 DEF CreateStageRun, WorkerRecord, WorkerPc, RealJob
  <2>3. run' \in [Pipelines -> [Versions -> [Stages -> RunStatus]]]
    BY <1>8, <2>1, SetRunTyped DEF CreateStageRun, RunStatus
  <2> QED BY <1>8, <2>2, <2>3, WorkerFrame DEF CreateStageRun
<1>9. ASSUME NEW o \in EndStatus, ChildExits(o)
      PROVE  Typed'
  <2>1. worker' \in WorkerRecord /\ RealJob(worker')
    BY <1>0, <1>9 DEF ChildExits, WorkerRecord, WorkerPc, RealJob
  <2> QED BY <1>9, <2>1, WorkerFrame DEF ChildExits
<1>10. CASE FinishRun
  <2>1. /\ worker.p \in Pipelines /\ worker.v \in Versions
        /\ worker.stage \in Stages /\ worker.outcome \in RunStatus
    BY <1>0, <1>10 DEF FinishRun, RealJob, WorkerRecord, RunStatus, EndStatus
  <2>2. worker' \in WorkerRecord /\ worker'.p = worker.p /\ worker'.v = worker.v
    BY <1>0, <1>10, <2>1, ThrowTyped
    DEF FinishRun, AfterStage, WorkerRecord, WorkerPc, Stages, PipelineState
  <2>3. run' \in [Pipelines -> [Versions -> [Stages -> RunStatus]]]
    BY <1>10, <2>1, SetRunTyped DEF FinishRun
  <2> QED BY <1>10, <2>1, <2>2, <2>3, WorkerFrame DEF FinishRun, RealJob
<1>11. CASE CheckOutput
  <2>1. worker' \in WorkerRecord /\ RealJob(worker')
    BY <1>0, <1>11, ThrowTyped DEF CheckOutput, WorkerRecord, WorkerPc, RealJob
  <2> QED BY <1>11, <2>1, WorkerFrame DEF CheckOutput
<1>12. CASE SaveArtifacts
  <2>1. worker.p \in Pipelines /\ worker.v \in Versions
    BY <1>0, <1>12 DEF SaveArtifacts, RealJob
  <2>2. worker' \in WorkerRecord /\ RealJob(worker')
    BY <1>0, <1>12 DEF SaveArtifacts, WorkerRecord, WorkerPc, PipelineState, RealJob
  <2> QED BY <1>12, <2>1, <2>2, WorkerFrame DEF SaveArtifacts
<1>13. CASE Catch
  <2>1. worker.p \in Pipelines /\ worker.v \in Versions
    BY <1>0, <1>13 DEF Catch, RealJob
  <2>2. FailureState(pstate[worker.p]) \in PipelineState \cup {None}
    BY DEF FailureState, PipelineState
  <2>3. worker' \in WorkerRecord /\ RealJob(worker')
    <3>1. CASE worker' = IdleWorker
      BY <1>0, <3>1, IdleTyped
    <3>2. CASE worker' = [worker EXCEPT !.pc = "assert", !.to = FailureState(pstate[worker.p])]
      <4>1. /\ worker' \in WorkerRecord /\ worker'.p = worker.p /\ worker'.v = worker.v
            /\ worker'.pc = "assert"
        BY <1>0, <2>2, <3>2, CatchLocals
      <4> QED BY <1>0, <2>1, <4>1 DEF RealJob
    <3> QED BY <1>13, <3>1, <3>2 DEF Catch, Release
  <2> QED BY <1>13, <2>3, WorkerFrame DEF Catch
<1> QED
  BY <1>1, <1>2, <1>3, <1>4, <1>5, <1>6, <1>7, <1>8, <1>9, <1>10, <1>11, <1>12, <1>13
  DEF WorkerStep

LEMMA ProcessTyped ==
  ASSUME Typed, ProcessStep
  PROVE  Typed'
<1> USE DEF Typed, TypeOK, db, runRows
<1>1. CASE Shutdown
  <2>1. /\ worker' \in WorkerRecord
        /\ worker'.pc = worker.pc /\ worker'.p = worker.p /\ worker'.v = worker.v
    BY <1>1, AbortJobTyped DEF Shutdown
  <2>2. stops' \in 0..MaxStops
    BY <1>1, QueueAssumption DEF Shutdown
  <2>3. TypeOK'
    BY <1>1, <2>1, <2>2 DEF Shutdown
  <2>4. LocalsAreReal'
    BY <1>1, <2>1 DEF Shutdown, LocalsAreReal, RealJob
  <2> QED BY <2>3, <2>4
<1>2. CASE Exit
  BY <1>2 DEF Exit, LocalsAreReal
<1>3. CASE Crash
  <2>1. stops' \in 0..MaxStops
    BY <1>3, QueueAssumption DEF Crash
  <2>2. TypeOK'
    BY <1>3, <2>1, IdleTyped DEF Crash
  <2>3. IdleClient.pc = "idle" /\ IdleWorker.pc = "idle"
    BY DEF IdleClient, IdleWorker
  <2>4. LocalsAreReal'
    BY <1>3, <2>3 DEF Crash, LocalsAreReal, RealRequest, RealJob
  <2> QED BY <2>2, <2>4
<1>4. CASE Restart
  <2>1. "FAILED_INTERRUPTED" \in RunStatus /\ "FAILED_INTERRUPTED" \in PipelineState
    BY DEF RunStatus, EndStatus, PipelineState
  <2>2. run' \in [Pipelines -> [Versions -> [Stages -> RunStatus]]]
    BY <1>4, <2>1 DEF Restart
  <2>3. pstate' \in [Pipelines -> PipelineState]
    BY <1>4, <2>1 DEF Restart
  <2>4. TypeOK'
    BY <1>4, <2>2, <2>3 DEF Restart
  <2> QED BY <1>4, <2>4 DEF Restart, LocalsAreReal
<1> QED BY <1>1, <1>2, <1>3, <1>4 DEF ProcessStep

LEMMA NextTyped ==
  ASSUME Typed, [Next]_vars
  PROVE  Typed'
<1>1. ASSUME NEW c \in Clients, ClientStep(c)
      PROVE  Typed'
  BY <1>1, BuildRequestTyped, QueueBuildTyped, CancelTyped DEF ClientStep
<1>2. CASE UNCHANGED vars
  BY <1>2 DEF vars, db, runRows, Typed, TypeOK, LocalsAreReal
<1> QED BY <1>1, <1>2, WorkerTyped, ProcessTyped DEF Next

LEMMA AlwaysTyped == Spec => []Typed
BY InitTyped, NextTyped, PTL DEF Spec

\* Rows, handlers and worker keep their types in every reachable state, for any number
\* of pipelines, requests, versions and restarts.
THEOREM TypeCorrect == Spec => []TypeOK
<1>1. Typed => TypeOK
  BY DEF Typed
<1> QED BY <1>1, AlwaysTyped, PTL
-----------------------------------------------------------------------------
(* The inductive invariant.                                                *)

LEMMA OnlyRequeueableIsQueuedAgain ==
  ASSUME NEW s, CanTransition(s, "BUILD_QUEUED")
  PROVE  s \notin QueuedOrBuilding \cup {"CANCELLED"}
BY OnlyRequeueableIsQueued DEF Requeueable, QueuedOrBuilding

LEMMA InitJobInv == Init => JobInv
<1> SUFFICES ASSUME Init PROVE JobInv
  OBVIOUS
<1>1. IdleClient.pc = "idle" /\ IdleWorker.pc = "idle"
  BY DEF IdleClient, IdleWorker
<1>2. LocalsAreReal /\ DownIsIdle
  BY <1>1, InitTyped DEF Init, Typed, DownIsIdle
<1>3. VersionRowsContiguous
  BY QueueAssumption DEF Init, VersionRowsContiguous, VersionFree, Versions
<1>4. LiveJobBlocksRequeue
  BY <1>1 DEF Init, LiveJobBlocksRequeue, Pending, Holds, Stages
<1>5. EnqueueFindsNoLiveJob
  BY <1>1 DEF Init, EnqueueFindsNoLiveJob
<1> QED BY <1>2, <1>3, <1>4, <1>5 DEF JobInv

\* An enqueue transaction in flight stays safe while no job and no version appears.
LEMMA EnqueueFrame ==
  ASSUME Typed, Typed', JobInv,
         UNCHANGED activeVersion,
         \A p \in Pipelines, v \in Versions : LiveJob(p, v)' => LiveJob(p, v),
         \A c \in Clients : client'[c].pc = "enqueue" => client'[c] = client[c]
  PROVE  EnqueueFindsNoLiveJob'
<1> SUFFICES ASSUME NEW c \in Clients, NEW v \in Versions,
                    (client[c].pc = "enqueue" /\ client[c].version > activeVersion[client[c].p])'
             PROVE  (/\ client[c].version = activeVersion[client[c].p] + 1
                     /\ ~LiveJob(client[c].p, v))'
  BY DEF EnqueueFindsNoLiveJob
<1>1. client'[c] = client[c]
  OBVIOUS
<1>2. client[c].p \in Pipelines
  BY <1>1 DEF Typed, LocalsAreReal, RealRequest
<1>3. client[c].version = activeVersion[client[c].p] + 1 /\ ~LiveJob(client[c].p, v)
  BY <1>1 DEF JobInv, EnqueueFindsNoLiveJob
<1>4. (~LiveJob(client[c].p, v))'
  BY <1>1, <1>2, <1>3 DEF LiveJob, Pending, Holds
<1> QED BY <1>1, <1>3, <1>4

\* The rows and transactions part of the invariant survives every step that creates no
\* version, no live job and no enqueue transaction, and changes the state of a pipeline
\* to CANCELLED at most.
LEMMA JobFrame ==
  ASSUME Typed, Typed', JobInv,
         UNCHANGED <<activeVersion, versionStart>>,
         \A p \in Pipelines : pstate'[p] = pstate[p] \/ pstate'[p] = "CANCELLED",
         \A p \in Pipelines, v \in Versions : Pending(p, v)' => Pending(p, v),
         \A p \in Pipelines, v \in Versions : Holds(p, v)' => Holds(p, v),
         \A c \in Clients : client'[c].pc = "enqueue" => client'[c] = client[c]
  PROVE  VersionRowsContiguous' /\ LiveJobBlocksRequeue' /\ EnqueueFindsNoLiveJob'
<1>1. VersionRowsContiguous'
  BY DEF JobInv, VersionRowsContiguous, VersionFree
<1>2. LiveJobBlocksRequeue'
  BY DEF JobInv, LiveJobBlocksRequeue
<1>3. \A p \in Pipelines, v \in Versions : LiveJob(p, v)' => LiveJob(p, v)
  BY DEF LiveJob
<1>4. EnqueueFindsNoLiveJob'
  BY <1>3, EnqueueFrame
<1> QED BY <1>1, <1>2, <1>4

\* The part of JobInv that JobFrame is about.
RowsInv == VersionRowsContiguous /\ LiveJobBlocksRequeue /\ EnqueueFindsNoLiveJob

LEMMA QueueBuildJobInv ==
  ASSUME Typed, Typed', JobInv, NEW c \in Clients,
         \/ \E p \in Pipelines, b \in StartBlocks \cup {None} : RequestBuild(c, p, b)
         \/ SaveSpec(c) \/ RenderFails(c) \/ EnqueueAborts(c) \/ RespondBuild(c)
  PROVE  RowsInv' /\ DownIsIdle'
<1> USE DEF Typed, TypeOK, db, runRows
<1>1. ASSUME NEW p \in Pipelines, NEW b \in StartBlocks \cup {None}, RequestBuild(c, p, b)
      PROVE  RowsInv' /\ DownIsIdle'
  <2>1. /\ client'[c].pc # "enqueue"
        /\ \A d \in Clients \ {c} : client'[d] = client[d]
    BY <1>1 DEF RequestBuild, Goto, ClientRecord
  <2>2. RowsInv'
    BY <1>1, <2>1, JobFrame DEF RequestBuild, RowsInv, Pending, Holds
  <2>3. DownIsIdle'
    BY <1>1 DEF RequestBuild, Alive, DownIsIdle
  <2> QED BY <2>2, <2>3
<1>2. ASSUME SaveSpec(c) \/ RenderFails(c) \/ EnqueueAborts(c) \/ RespondBuild(c)
      PROVE  RowsInv' /\ DownIsIdle'
  <2>1. /\ client'[c].pc # "enqueue"
        /\ \A d \in Clients \ {c} : client'[d] = client[d]
    BY <1>2, GotoTyped, LeaveTyped
    DEF SaveSpec, RenderFails, EnqueueAborts, RespondBuild, ClientPc
  <2>2. \/ worker' = worker
        \/ worker'.pc = "claiming"
    BY <1>2, ProcessNextTyped DEF SaveSpec, RenderFails, EnqueueAborts, RespondBuild
  <2>3. UNCHANGED <<pstate, activeVersion, versionStart, run, phase>> /\ client[c].pc # "idle"
    BY <1>2 DEF SaveSpec, RenderFails, EnqueueAborts, RespondBuild
  <2>4. RowsInv'
    BY <2>1, <2>2, <2>3, JobFrame DEF RowsInv, Pending, Holds
  <2>5. DownIsIdle'
    BY <2>3 DEF JobInv, DownIsIdle
  <2> QED BY <2>4, <2>5
<1> QED BY <1>1, <1>2

\* A transaction that passes the checks finds a pipeline that can be queued, so no live job.
LEMMA EnqueueReadJobInv ==
  ASSUME Typed, Typed', JobInv, NEW c \in Clients, EnqueueRead(c)
  PROVE  RowsInv' /\ DownIsIdle'
<1> USE DEF Typed, TypeOK, db, runRows
<1>0. UNCHANGED <<pstate, activeVersion, versionStart, run, worker, phase>>
  BY DEF EnqueueRead
<1>1. DownIsIdle'
  BY <1>0 DEF EnqueueRead, JobInv, DownIsIdle
<1>2. CASE Leave(c)
  BY <1>0, <1>1, <1>2, LeaveTyped, JobFrame DEF RowsInv, Pending, Holds
<1>3. CASE ~Leave(c)
  <2>1. /\ client[c].p \in Pipelines
        /\ Enqueueable(client[c].p, client[c].version)
    BY <1>3 DEF EnqueueRead, LocalsAreReal, RealRequest
  <2>2. \A v \in Versions : ~LiveJob(client[c].p, v)
    BY <2>1, OnlyRequeueableIsQueuedAgain
    DEF Enqueueable, LiveJob, JobInv, LiveJobBlocksRequeue, QueuedOrBuilding
  <2>3. /\ client'[c].p = client[c].p /\ client'[c].version = client[c].version
        /\ \A d \in Clients \ {c} : client'[d] = client[d]
    <3> DEFINE r == [client[c] EXCEPT !.pc = "enqueue", !.older = PendingJobs]
    <3>1. r \in ClientRecord /\ r.p = client[c].p /\ r.version = client[c].version
      BY EnqueueLocals
    <3>2. client' = [client EXCEPT ![c] = r]
      BY <1>3 DEF EnqueueRead
    <3> QED BY <3>1, <3>2, StoreClient
  <2>4. EnqueueFindsNoLiveJob'
    <3> SUFFICES ASSUME NEW d \in Clients, NEW v \in Versions,
                        (client[d].pc = "enqueue" /\ client[d].version > activeVersion[client[d].p])'
                 PROVE  (/\ client[d].version = activeVersion[client[d].p] + 1
                         /\ ~LiveJob(client[d].p, v))'
      BY DEF EnqueueFindsNoLiveJob
    <3>1. CASE d = c
      BY <1>0, <2>1, <2>2, <2>3, <3>1 DEF Enqueueable, LiveJob, Pending, Holds
    <3>2. CASE d # c
      BY <1>0, <2>3, <3>2 DEF JobInv, EnqueueFindsNoLiveJob, LiveJob, Pending, Holds
    <3> QED BY <3>1, <3>2
  <2>5. VersionRowsContiguous' /\ LiveJobBlocksRequeue'
    BY <1>0
    DEF JobInv, VersionRowsContiguous, VersionFree, LiveJobBlocksRequeue, Pending, Holds
  <2> QED BY <1>1, <2>4, <2>5 DEF RowsInv
<1> QED BY <1>2, <1>3

\* A transaction that commits adds the row after the newest one and the only live job.
LEMMA BeyondNext ==
  ASSUME NEW m \in Nat, NEW n \in Nat, n # m + 1
  PROVE  n > m <=> n > m + 1
OBVIOUS

LEMMA EnqueueCommitJobInv ==
  ASSUME Typed, Typed', JobInv, NEW c \in Clients, EnqueueCommit(c)
  PROVE  RowsInv' /\ DownIsIdle'
<1> DEFINE p == client[c].p
           v == client[c].version
<1> USE DEF Typed, TypeOK
<1>1. /\ p \in Pipelines /\ v \in Versions /\ client[c].start \in StartBlocks
      /\ client[c].pc = "enqueue" /\ VersionFree(p, v)
  BY DEF EnqueueCommit, LocalsAreReal, RealRequest
<1>2. v > activeVersion[p]
  BY <1>1 DEF JobInv, VersionRowsContiguous
<1>3. v = activeVersion[p] + 1 /\ \A w \in Versions : ~LiveJob(p, w)
  BY <1>1, <1>2 DEF JobInv, EnqueueFindsNoLiveJob
<1>4. /\ client'[c].pc = "respond"
      /\ \A d \in Clients \ {c} : client'[d] = client[d]
  BY GotoTyped DEF EnqueueCommit, ClientPc
<1>5. \A q \in Pipelines, w \in Versions :
        <<q, w>> # <<p, v>> => (Pending(q, w)' <=> Pending(q, w))
  <2>1. "BUILD" \in Stages /\ "PENDING" \in RunStatus
    BY DEF Stages, RunStatus
  <2>2. SetRun(p, v, "BUILD", "PENDING")
    BY DEF EnqueueCommit
  <2>3. \A q \in Pipelines, w \in Versions :
          <<q, w>> # <<p, v>> => run'[q][w]["BUILD"] = run[q][w]["BUILD"]
    BY <1>1, <2>1, <2>2, SetRunTyped
  <2> QED BY <2>3 DEF Pending
<1>6. /\ pstate'[p] = "BUILD_QUEUED"
      /\ \A q \in Pipelines \ {p} : pstate'[q] = pstate[q]
  BY <1>1, SetStateTyped DEF EnqueueCommit, PipelineState
<1>7. /\ activeVersion'[p] = v
      /\ \A q \in Pipelines \ {p} : activeVersion'[q] = activeVersion[q]
  BY <1>1 DEF EnqueueCommit
<1>8. \A q \in Pipelines, w \in Versions : Holds(q, w)' <=> Holds(q, w)
  BY DEF EnqueueCommit, Holds
<1>9. VersionRowsContiguous'
  <2>1. \A q \in Pipelines, w \in Versions :
          versionStart'[q][w] = IF q = p /\ w = v THEN client[c].start ELSE versionStart[q][w]
    BY <1>1 DEF EnqueueCommit
  <2>2. client[c].start # None
    BY <1>1, QueueAssumption
  <2> SUFFICES ASSUME NEW q \in Pipelines, NEW w \in Versions
               PROVE  VersionFree(q, w)' <=> w > activeVersion'[q]
    BY DEF VersionRowsContiguous
  <2>3. VersionFree(q, w) <=> w > activeVersion[q]
    BY DEF JobInv, VersionRowsContiguous
  <2>4. CASE q = p
    <3>1. v \in Nat /\ w \in Nat /\ activeVersion[p] \in Nat
      BY <1>1, QueueAssumption DEF Versions
    <3>2. CASE w = v
      BY <1>7, <2>1, <2>2, <2>4, <3>1, <3>2 DEF VersionFree
    <3>3. CASE w # v
      <4>1. VersionFree(q, w)' <=> VersionFree(q, w)
        BY <2>1, <3>3 DEF VersionFree
      <4>2. w > activeVersion[p] <=> w > v
        <5>1. v = activeVersion[p] + 1
          BY <1>3
        <5>2. w # activeVersion[p] + 1
          BY <3>3, <5>1
        <5>3. w > activeVersion[p] <=> w > activeVersion[p] + 1
          BY <3>1, <5>2, BeyondNext
        <5> QED BY <5>1, <5>3
      <4>3. activeVersion'[q] = v
        BY <1>7, <2>4
      <4>4. w > activeVersion[q] <=> w > activeVersion'[q]
        BY <2>4, <4>2, <4>3
      <4> QED BY <2>3, <4>1, <4>4
    <3> QED BY <3>2, <3>3
  <2>5. CASE q # p
    BY <1>7, <2>1, <2>3, <2>5 DEF VersionFree
  <2> QED BY <2>4, <2>5
<1>10. LiveJobBlocksRequeue'
  BY <1>1, <1>3, <1>5, <1>6, <1>7, <1>8 DEF JobInv, LiveJobBlocksRequeue, LiveJob
<1>11. EnqueueFindsNoLiveJob'
  <2> SUFFICES ASSUME NEW d \in Clients, NEW w \in Versions,
                      (client[d].pc = "enqueue" /\ client[d].version > activeVersion[client[d].p])'
               PROVE  (/\ client[d].version = activeVersion[client[d].p] + 1
                       /\ ~LiveJob(client[d].p, w))'
    BY DEF EnqueueFindsNoLiveJob
  <2>1. d # c /\ client'[d] = client[d] /\ client[d].p \in Pipelines
    BY <1>4 DEF LocalsAreReal, RealRequest
  <2>2. CASE client[d].p = p
    <3>1. client[d].version > activeVersion[p]
      BY <1>1, <1>2, <1>3, <1>7, <2>1, <2>2, QueueAssumption DEF Versions, ClientRecord
    <3>2. client[d].version = v
      BY <1>1, <1>3, <2>1, <2>2, <3>1 DEF JobInv, EnqueueFindsNoLiveJob
    <3> QED BY <1>1, <1>7, <2>1, <2>2, <3>2 DEF Versions
  <2>3. CASE client[d].p # p
    <3>1. client[d].version = activeVersion[client[d].p] + 1 /\ ~LiveJob(client[d].p, w)
      BY <1>7, <2>1, <2>3 DEF JobInv, EnqueueFindsNoLiveJob
    <3>2. (~LiveJob(client[d].p, w))'
      BY <1>5, <1>8, <2>1, <2>3, <3>1 DEF LiveJob, Pending, Holds
    <3> QED BY <1>7, <2>1, <2>3, <3>1, <3>2
  <2> QED BY <2>2, <2>3
<1>12. DownIsIdle'
  BY <1>1 DEF EnqueueCommit, JobInv, DownIsIdle
<1> QED BY <1>9, <1>10, <1>11, <1>12 DEF RowsInv

LEMMA CancelJobInv ==
  ASSUME Typed, Typed', JobInv, NEW c \in Clients,
         \/ \E p \in Pipelines : RequestCancel(c, p)
         \/ CancelJob(c) \/ CancelPendingRuns(c) \/ CancelRead(c) \/ CancelWrite(c)
  PROVE  RowsInv' /\ DownIsIdle'
<1> USE DEF Typed, TypeOK, db, runRows
<1>1. ASSUME NEW p \in Pipelines, RequestCancel(c, p)
      PROVE  RowsInv' /\ DownIsIdle'
  <2>1. /\ client'[c].pc = "abort"
        /\ \A d \in Clients \ {c} : client'[d] = client[d]
    BY <1>1 DEF RequestCancel, IdleClient
  <2>2. RowsInv'
    BY <1>1, <2>1, JobFrame DEF RequestCancel, RowsInv, Pending, Holds
  <2>3. DownIsIdle'
    BY <1>1 DEF RequestCancel, Alive, DownIsIdle
  <2> QED BY <2>2, <2>3
<1>2. ASSUME CancelJob(c) \/ CancelPendingRuns(c) \/ CancelRead(c) \/ CancelWrite(c)
      PROVE  RowsInv' /\ DownIsIdle'
  <2>1. /\ client'[c].pc # "enqueue"
        /\ \A d \in Clients \ {c} : client'[d] = client[d]
    BY <1>2, GotoTyped, LeaveTyped
    DEF CancelJob, CancelPendingRuns, CancelRead, CancelWrite, ClientPc
  <2>2. worker'.pc = worker.pc /\ worker'.p = worker.p /\ worker'.v = worker.v
    BY <1>2, AbortJobTyped DEF CancelJob, CancelPendingRuns, CancelRead, CancelWrite
  <2>3. \A p \in Pipelines : pstate'[p] = pstate[p] \/ pstate'[p] = "CANCELLED"
    BY <1>2 DEF CancelJob, CancelPendingRuns, CancelRead, CancelWrite, SetState
  <2>4. \A p \in Pipelines, v \in Versions : Pending(p, v)' => Pending(p, v)
    <3>1. CASE CancelPendingRuns(c)
      <4>1. \A p \in Pipelines, v \in Versions :
              \/ run'[p][v]["BUILD"] = run[p][v]["BUILD"]
              \/ run'[p][v]["BUILD"] = "CANCELLED"
        BY <3>1 DEF CancelPendingRuns, Stages
      <4> QED BY <4>1 DEF Pending
    <3>2. CASE ~CancelPendingRuns(c)
      BY <1>2, <3>2 DEF CancelJob, CancelRead, CancelWrite, Pending
    <3> QED BY <3>1, <3>2
  <2>5. UNCHANGED <<activeVersion, versionStart, phase>> /\ client[c].pc # "idle"
    BY <1>2 DEF CancelJob, CancelPendingRuns, CancelRead, CancelWrite
  <2>6. RowsInv'
    BY <2>1, <2>2, <2>3, <2>4, <2>5, JobFrame DEF RowsInv, Holds
  <2>7. DownIsIdle'
    BY <2>5 DEF JobInv, DownIsIdle
  <2> QED BY <2>6, <2>7
<1> QED BY <1>1, <1>2

\* The claim turns a waiting job into the held one; the worker held none before.
LEMMA ClaimJobInv ==
  ASSUME Typed, Typed', JobInv, NEW p \in Pipelines, NEW v \in Versions, Claim(p, v)
  PROVE  RowsInv' /\ DownIsIdle'
<1> USE DEF Typed, TypeOK
<1>1. UNCHANGED <<pstate, activeVersion, versionStart, client, phase>> /\ phase # "down"
  BY DEF Claim, JobInv, DownIsIdle
<1>2. \A q \in Pipelines, w \in Versions :
        Pending(q, w)' <=> Pending(q, w) /\ <<q, w>> # <<p, v>>
  <2>1. SetRun(p, v, "BUILD", "RUNNING") /\ "BUILD" \in Stages /\ "RUNNING" \in RunStatus
    BY DEF Claim, Stages, RunStatus
  <2>2. /\ run'[p][v]["BUILD"] = "RUNNING"
        /\ \A q \in Pipelines, w \in Versions :
             <<q, w>> # <<p, v>> => run'[q][w]["BUILD"] = run[q][w]["BUILD"]
    BY <2>1, SetRunTyped
  <2> QED BY <2>2 DEF Pending
<1>3. \A q \in Pipelines, w \in Versions :
        ~Holds(q, w) /\ (Holds(q, w)' <=> <<q, w>> = <<p, v>>)
  BY DEF Claim, Holds, WorkerRecord
<1>4. VersionRowsContiguous'
  BY <1>1 DEF JobInv, VersionRowsContiguous, VersionFree
<1>5. LiveJobBlocksRequeue'
  BY <1>1, <1>2, <1>3 DEF JobInv, LiveJobBlocksRequeue, QueuedOrBuilding, Claim
<1>6. \A q \in Pipelines, w \in Versions : LiveJob(q, w)' => LiveJob(q, w)
  BY <1>2, <1>3 DEF LiveJob, Claim
<1>7. EnqueueFindsNoLiveJob'
  BY <1>1, <1>6, EnqueueFrame
<1> QED BY <1>1, <1>4, <1>5, <1>7 DEF RowsInv, DownIsIdle

\* The worker writes the state of the job it holds, or lets go of it.
LEMMA WorkerWriteJobInv ==
  ASSUME Typed, Typed', JobInv, WorkerWrite
  PROVE  RowsInv' /\ DownIsIdle'
<1> USE DEF Typed, TypeOK, runRows
<1>1. /\ UNCHANGED <<activeVersion, versionStart, run, client, phase>> /\ phase # "down"
      /\ worker.p \in Pipelines /\ worker.v \in Versions /\ Holds(worker.p, worker.v)
  BY DEF WorkerWrite, JobInv, DownIsIdle, LocalsAreReal, RealJob, Holds
<1>2. /\ pstate'[worker.p] = worker.to
      /\ \A q \in Pipelines \ {worker.p} : pstate'[q] = pstate[q]
  BY <1>1 DEF WorkerWrite, SetState
<1>3. \/ /\ worker.to \in QueuedOrBuilding
         /\ \A q \in Pipelines, w \in Versions : Holds(q, w)' <=> Holds(q, w)
      \/ \A q \in Pipelines, w \in Versions : ~Holds(q, w)'
  <2>1. CASE worker.to \in {"BUILDING", "VALIDATING"}
    <3>1. /\ worker'.pc \notin {"idle", "claiming"} /\ worker.pc = "write"
          /\ worker'.p = worker.p /\ worker'.v = worker.v
      BY <2>1 DEF WorkerWrite, WorkerRecord, FailureStates
    <3> QED BY <2>1, <3>1 DEF QueuedOrBuilding, Holds
  <2>2. CASE worker.to \notin {"BUILDING", "VALIDATING"}
    BY <2>2 DEF WorkerWrite, Release, IdleWorker, Holds
  <2> QED BY <2>1, <2>2
<1>4. \A w \in Versions : ~Pending(worker.p, w)
  BY <1>1 DEF JobInv, LiveJobBlocksRequeue
<1>5. \A q \in Pipelines, w \in Versions : Pending(q, w)' <=> Pending(q, w)
  BY <1>1 DEF Pending
<1>6. LiveJobBlocksRequeue'
  <2> SUFFICES ASSUME NEW q \in Pipelines, NEW w \in Versions
               PROVE  (/\ Pending(q, w) => /\ w = activeVersion[q]
                                           /\ pstate[q] \in {"BUILD_QUEUED", "CANCELLED"}
                       /\ Holds(q, w) => /\ w = activeVersion[q]
                                         /\ pstate[q] \in QueuedOrBuilding \cup {"CANCELLED"}
                       /\ ~(Pending(q, w) /\ Holds(q, w)))'
    BY DEF LiveJobBlocksRequeue
  <2>1. CASE q = worker.p
    BY <1>1, <1>2, <1>3, <1>4, <1>5, <2>1 DEF JobInv, LiveJobBlocksRequeue, QueuedOrBuilding
  <2>2. CASE q # worker.p
    BY <1>1, <1>2, <1>3, <1>5, <2>2 DEF JobInv, LiveJobBlocksRequeue, QueuedOrBuilding
  <2> QED BY <2>1, <2>2
<1>7. VersionRowsContiguous'
  BY <1>1 DEF JobInv, VersionRowsContiguous, VersionFree
<1>8. \A q \in Pipelines, w \in Versions : LiveJob(q, w)' => LiveJob(q, w)
  BY <1>3, <1>5 DEF LiveJob
<1>9. EnqueueFindsNoLiveJob'
  BY <1>1, <1>8, EnqueueFrame
<1> QED BY <1>1, <1>6, <1>7, <1>9 DEF RowsInv, DownIsIdle

LEMMA WorkerJobInv ==
  ASSUME Typed, Typed', JobInv, Poll \/ WorkerStep
  PROVE  RowsInv' /\ DownIsIdle'
<1> USE DEF Typed, TypeOK, db, runRows
<1>1. CASE Poll \/ NothingToClaim
  <2>1. worker'.pc \in {"idle", "claiming"}
    BY <1>1 DEF Poll, ProcessNext, NothingToClaim, Release, IdleWorker, WorkerRecord
  <2>2. UNCHANGED <<pstate, activeVersion, versionStart, run, client, phase>> /\ phase # "down"
    BY <1>1 DEF Poll, NothingToClaim, JobInv, DownIsIdle
  <2>3. RowsInv'
    BY <2>1, <2>2, JobFrame DEF RowsInv, Pending, Holds
  <2> QED BY <2>2, <2>3 DEF DownIsIdle
<1>2. CASE WorkerRejects
  <2>1. worker'.pc = "idle" /\ \A c \in Clients : client'[c].pc = "idle"
    BY <1>2, DieTyped DEF WorkerRejects
  <2>2. RowsInv'
    BY <1>2, <2>1, JobFrame DEF WorkerRejects, Die, RowsInv, Pending, Holds
  <2> QED BY <2>1, <2>2 DEF DownIsIdle
<1>3. CASE \/ Activate \/ WorkerRead \/ WorkerRefused \/ Spawn \/ PrepareFails
           \/ CheckOutput \/ SaveArtifacts \/ Catch
  <2>1. /\ UNCHANGED <<pstate, activeVersion, versionStart, run, client, phase>>
        /\ worker.pc \notin {"idle", "claiming"}
    BY <1>3 DEF Activate, WorkerRead, WorkerRefused, Spawn, PrepareFails, CheckOutput,
                SaveArtifacts, Catch
  <2>2. worker' = IdleWorker \/ (worker'.p = worker.p /\ worker'.v = worker.v)
    BY <1>3, ThrowTyped
    DEF Activate, WorkerRead, WorkerRefused, Spawn, PrepareFails, CheckOutput,
        SaveArtifacts, Catch, Release, WorkerRecord
  <2>3. \A p \in Pipelines, v \in Versions : Holds(p, v)' => Holds(p, v)
    BY <2>1, <2>2 DEF Holds, IdleWorker
  <2>4. RowsInv'
    BY <2>1, <2>3, JobFrame DEF RowsInv, Pending
  <2> QED BY <2>1, <2>4 DEF JobInv, DownIsIdle
<1>4. ASSUME NEW o \in EndStatus, ChildExits(o)
      PROVE  RowsInv' /\ DownIsIdle'
  <2>1. /\ UNCHANGED <<pstate, activeVersion, versionStart, run, client, phase>>
        /\ worker.pc = "running" /\ worker'.p = worker.p /\ worker'.v = worker.v
    BY <1>4 DEF ChildExits, WorkerRecord
  <2>2. RowsInv'
    BY <2>1, JobFrame DEF RowsInv, Pending, Holds
  <2> QED BY <2>1, <2>2 DEF JobInv, DownIsIdle
<1>5. ASSUME NEW status \in RunStatus, status # "PENDING",
             worker.pc \notin {"idle", "claiming"},
             worker'.p = worker.p /\ worker'.v = worker.v,
             SetRun(worker.p, worker.v, worker.stage, status),
             UNCHANGED <<pstate, activeVersion, versionStart, client, phase>>
      PROVE  RowsInv' /\ DownIsIdle'
  <2>1. worker.p \in Pipelines /\ worker.v \in Versions /\ worker.stage \in Stages
    BY <1>5 DEF LocalsAreReal, RealJob, WorkerRecord
  <2>2. \A p \in Pipelines, v \in Versions :
          run'[p][v]["BUILD"] = run[p][v]["BUILD"] \/ run'[p][v]["BUILD"] = status
    BY <1>5, <2>1, SetRunTyped DEF Stages
  <2>3. RowsInv'
    BY <1>5, <2>2, JobFrame DEF RowsInv, Pending, Holds
  <2> QED BY <1>5, <2>3 DEF JobInv, DownIsIdle
<1>6. CASE CreateStageRun
  <2>1. worker'.p = worker.p /\ worker'.v = worker.v /\ "RUNNING" \in RunStatus
    BY <1>6 DEF CreateStageRun, WorkerRecord, RunStatus
  <2> QED BY <1>5, <1>6, <2>1 DEF CreateStageRun
<1>7. CASE FinishRun
  <2>1. worker.outcome \in RunStatus /\ worker.outcome # "PENDING"
    BY DEF WorkerRecord, RunStatus, EndStatus
  <2>2. worker'.p = worker.p /\ worker'.v = worker.v
    BY <1>7, ThrowTyped DEF FinishRun, AfterStage, WorkerRecord, Stages
  <2> QED BY <1>5, <1>7, <2>1, <2>2 DEF FinishRun
<1> QED
  BY <1>1, <1>2, <1>3, <1>4, <1>6, <1>7, ClaimJobInv, WorkerWriteJobInv DEF WorkerStep

LEMMA ProcessJobInv ==
  ASSUME Typed, Typed', JobInv, ProcessStep
  PROVE  RowsInv' /\ DownIsIdle'
<1> USE DEF Typed, TypeOK, db, runRows
<1>1. CASE Shutdown
  <2>1. worker'.pc = worker.pc /\ worker'.p = worker.p /\ worker'.v = worker.v
    BY <1>1, AbortJobTyped DEF Shutdown
  <2>2. RowsInv'
    BY <1>1, <2>1, JobFrame DEF Shutdown, RowsInv, Pending, Holds
  <2> QED BY <1>1, <2>2 DEF Shutdown, DownIsIdle
<1>2. CASE Exit
  <2>1. RowsInv'
    BY <1>2, JobFrame DEF Exit, RowsInv, Pending, Holds
  <2> QED BY <1>2, <2>1 DEF Exit, DownIsIdle
<1>3. CASE Crash
  <2>1. worker'.pc = "idle" /\ \A c \in Clients : client'[c].pc = "idle"
    BY <1>3 DEF Crash, IdleWorker, IdleClient
  <2>2. RowsInv'
    BY <1>3, <2>1, JobFrame DEF Crash, RowsInv, Pending, Holds
  <2> QED BY <2>1, <2>2 DEF DownIsIdle
<1>4. CASE Restart
  <2>1. /\ phase' = "up" /\ worker.pc = "idle" /\ \A c \in Clients : client[c].pc = "idle"
        /\ UNCHANGED <<activeVersion, versionStart, client, worker>>
    BY <1>4 DEF Restart, JobInv, DownIsIdle
  <2>2. \A p \in Pipelines, v \in Versions : ~Holds(p, v)'
    BY <2>1 DEF Holds
  <2>3. \A p \in Pipelines, v \in Versions : Pending(p, v)' => Pending(p, v)
    <3>1. \A p \in Pipelines, v \in Versions :
            run'[p][v]["BUILD"] \in {run[p][v]["BUILD"], "FAILED_INTERRUPTED"}
      BY <1>4 DEF Restart, Stages
    <3> QED BY <3>1 DEF Pending
  <2>4. \A p \in Pipelines : pstate[p] \notin {"BUILDING", "VALIDATING"} => pstate'[p] = pstate[p]
    BY <1>4 DEF Restart, InterruptedStates
  <2>5. VersionRowsContiguous'
    BY <2>1 DEF JobInv, VersionRowsContiguous, VersionFree
  <2>6. LiveJobBlocksRequeue'
    BY <2>1, <2>2, <2>3, <2>4 DEF JobInv, LiveJobBlocksRequeue
  <2>7. EnqueueFindsNoLiveJob'
    BY <2>1 DEF EnqueueFindsNoLiveJob
  <2> QED BY <2>1, <2>5, <2>6, <2>7 DEF RowsInv, DownIsIdle
<1> QED BY <1>1, <1>2, <1>3, <1>4 DEF ProcessStep

LEMMA NextJobInv ==
  ASSUME Typed, Typed', JobInv, [Next]_vars
  PROVE  JobInv'
<1>1. ASSUME NEW c \in Clients, ClientStep(c)
      PROVE  RowsInv' /\ DownIsIdle'
  BY <1>1, QueueBuildJobInv, EnqueueReadJobInv, EnqueueCommitJobInv, CancelJobInv
  DEF ClientStep
<1>2. CASE UNCHANGED vars
  <2>1. RowsInv'
    BY <1>2, JobFrame DEF vars, db, runRows, RowsInv, Pending, Holds
  <2> QED BY <1>2, <2>1 DEF vars, db, runRows, RowsInv, JobInv, DownIsIdle, Typed
<1>3. RowsInv' /\ DownIsIdle'
  BY <1>1, <1>2, WorkerJobInv, ProcessJobInv DEF Next, RowsInv, JobInv
<1> QED BY <1>3 DEF RowsInv, JobInv, Typed

\* Version rows, queued and held jobs and enqueue transactions in flight always fit
\* together: JobInv is inductive, whatever the interleaving of requests, worker,
\* shutdowns, crashes and restarts.
THEOREM JobsFitTogether == Spec => []JobInv
<1>1. Init /\ Typed => JobInv
  BY InitJobInv
<1>2. Typed /\ Typed' /\ JobInv /\ [Next]_vars => JobInv'
  BY NextJobInv
<1> QED BY <1>1, <1>2, InitTyped, AlwaysTyped, PTL DEF Spec

\* A job that is queued or executing builds the active version of its pipeline, for
\* any number of pipelines, concurrent requests, versions and restarts.
THEOREM LiveJobIsNewest == Spec => []LiveJobIsActiveVersion
<1>1. JobInv => LiveJobIsActiveVersion
  BY DEF JobInv, LiveJobBlocksRequeue, LiveJobIsActiveVersion, LiveJob
<1> QED BY <1>1, JobsFitTogether, PTL

-----------------------------------------------------------------------------
(* What a composition with other handlers of the pipelines relies on.      *)

\* Packages stay, and no step of the queue makes a pipeline LIVE.
KeepsToBuilds ==
  /\ packaged \subseteq packaged'
  /\ \A p \in Pipelines : pstate'[p] = "LIVE" => pstate[p] = "LIVE"

LEMMA UnchangedKeeps ==
  ASSUME UNCHANGED <<pstate, packaged>>
  PROVE  KeepsToBuilds
BY DEF KeepsToBuilds

LEMMA WriteKeeps ==
  ASSUME Typed, UNCHANGED packaged, NEW p \in Pipelines, NEW to \in PipelineState \ {"LIVE"},
         SetState(p, to)
  PROVE  KeepsToBuilds
BY SetStateTyped DEF Typed, TypeOK, KeepsToBuilds

LEMMA ClientKeepsToBuilds ==
  ASSUME Typed, NEW c \in Clients, ClientStep(c)
  PROVE  KeepsToBuilds /\ phase' = phase
<1> USE DEF db, runRows
<1>1. CASE EnqueueCommit(c)
  <2>1. client[c].p \in Pipelines
    BY <1>1 DEF Typed, LocalsAreReal, RealRequest, EnqueueCommit
  <2> QED BY <1>1, <2>1, WriteKeeps DEF EnqueueCommit, PipelineState
<1>2. CASE CancelWrite(c)
  <2>1. client[c].p \in Pipelines
    BY <1>2 DEF Typed, LocalsAreReal, RealRequest, CancelWrite
  <2> QED BY <1>2, <2>1, WriteKeeps DEF CancelWrite, PipelineState
<1>3. CASE ~EnqueueCommit(c) /\ ~CancelWrite(c)
  <2>1. UNCHANGED <<pstate, packaged, phase>>
    BY <1>3 DEF ClientStep, RequestBuild, SaveSpec, RenderFails, EnqueueRead, EnqueueAborts,
                RespondBuild, RequestCancel, CancelJob, CancelPendingRuns, CancelRead
  <2> QED BY <2>1, UnchangedKeeps
<1> QED BY <1>1, <1>2, <1>3

LEMMA WorkerKeepsToBuilds ==
  ASSUME Typed, Poll \/ WorkerStep
  PROVE  KeepsToBuilds /\ phase' \in {phase, "down"}
<1> USE DEF db, runRows
<1>1. CASE WorkerWrite
  <2>1. worker.p \in Pipelines
    BY <1>1 DEF Typed, LocalsAreReal, RealJob, WorkerWrite
  <2>2. worker.to \in PipelineState \ {"LIVE"}
    BY <1>1 DEF WorkerWrite, FailureStates, PipelineState
  <2> QED BY <1>1, <2>1, <2>2, WriteKeeps DEF WorkerWrite
<1>2. CASE SaveArtifacts
  BY <1>2 DEF SaveArtifacts, KeepsToBuilds
<1>3. CASE WorkerRejects
  BY <1>3, UnchangedKeeps DEF WorkerRejects, Die
<1>4. CASE ~WorkerWrite /\ ~SaveArtifacts /\ ~WorkerRejects
  <2>1. UNCHANGED <<pstate, packaged, phase>>
    BY <1>4 DEF WorkerStep, Poll, Claim, NothingToClaim, Activate, WorkerRead, WorkerRefused,
                CreateStageRun, Spawn, PrepareFails, ChildExits, FinishRun, CheckOutput, Catch
  <2> QED BY <2>1, UnchangedKeeps
<1> QED BY <1>1, <1>2, <1>3, <1>4

LEMMA ProcessKeepsToBuilds ==
  ASSUME Typed, ProcessStep
  PROVE  KeepsToBuilds
<1> USE DEF db, runRows
<1>1. CASE Restart
  <2>1. \A p \in Pipelines : pstate'[p] = "LIVE" => pstate[p] = "LIVE"
    BY <1>1 DEF Restart
  <2> QED BY <1>1, <2>1 DEF Restart, KeepsToBuilds
<1>2. CASE ~Restart
  <2>1. UNCHANGED <<pstate, packaged>>
    BY <1>2 DEF ProcessStep, Shutdown, Exit, Crash
  <2> QED BY <2>1, UnchangedKeeps
<1> QED BY <1>1, <1>2
=============================================================================
