---------------------------- MODULE DeploymentProofs ----------------------------
(***************************************************************************)
(* Proofs about approvals, sinks and the life of the API process, for      *)
(* every number of pipelines, approvals, deployments and restarts: type    *)
(* correctness, the inductive invariant DeployInv, and what it says about  *)
(* products and sinks.                                                     *)
(***************************************************************************)
EXTENDS Deployment, NaturalLemmas

\* The build queue together with what is proved of it.
Proved == INSTANCE BuildQueueProofs

QueueTyped == Queue!TypeOK /\ Queue!LocalsAreReal

-----------------------------------------------------------------------------
(* Both instances of the build queue are the same: definition by           *)
(* definition, their text is equal.                                        *)

LEMMA AssumptionHolds == Proved!QueueAssumption
BY DeploymentAssumption DEF Proved!QueueAssumption,
   PipelineState, Proved!PipelineState

LEMMA SameTypes == QueueTyped <=> Proved!Typed
BY DEF QueueTyped, Proved!Typed,
   Queue!TypeOK, Proved!TypeOK, Queue!LocalsAreReal, Proved!LocalsAreReal,
   Queue!RealRequest, Proved!RealRequest, Queue!RealJob, Proved!RealJob, Queue!Versions,
   Proved!Versions, Queue!Stages, Proved!Stages, Queue!EndStatus, Proved!EndStatus,
   Queue!RunStatus, Proved!RunStatus, Queue!ClientPc, Proved!ClientPc, Queue!WorkerPc,
   Proved!WorkerPc, Queue!ClientRecord, Proved!ClientRecord, Queue!WorkerRecord,
   Proved!WorkerRecord, Queue!PipelineState, Proved!PipelineState

LEMMA SameTypesNext == Proved!Typed' => QueueTyped'
BY DEF QueueTyped, Proved!Typed,
   Queue!TypeOK, Proved!TypeOK, Queue!LocalsAreReal, Proved!LocalsAreReal,
   Queue!RealRequest, Proved!RealRequest, Queue!RealJob, Proved!RealJob, Queue!Versions,
   Proved!Versions, Queue!Stages, Proved!Stages, Queue!EndStatus, Proved!EndStatus,
   Queue!RunStatus, Proved!RunStatus, Queue!ClientPc, Proved!ClientPc, Queue!WorkerPc,
   Proved!WorkerPc, Queue!ClientRecord, Proved!ClientRecord, Queue!WorkerRecord,
   Proved!WorkerRecord, Queue!PipelineState, Proved!PipelineState

LEMMA SameClientStep == ASSUME NEW c \in Clients, Queue!ClientStep(c) PROVE Proved!ClientStep(c)
BY DEF
   Queue!ClientStep, Proved!ClientStep, Queue!RequestBuild, Proved!RequestBuild,
   Queue!SaveSpec, Proved!SaveSpec, Queue!RenderFails, Proved!RenderFails,
   Queue!EnqueueRead, Proved!EnqueueRead, Queue!EnqueueCommit, Proved!EnqueueCommit,
   Queue!EnqueueAborts, Proved!EnqueueAborts, Queue!RespondBuild, Proved!RespondBuild,
   Queue!RequestCancel, Proved!RequestCancel, Queue!CancelJob, Proved!CancelJob,
   Queue!CancelPendingRuns, Proved!CancelPendingRuns, Queue!CancelRead, Proved!CancelRead,
   Queue!CancelWrite, Proved!CancelWrite, Queue!db, Proved!db, Queue!runRows,
   Proved!runRows, Queue!Versions, Proved!Versions, Queue!Stages, Proved!Stages,
   Queue!QueuedOrBuilding, Proved!QueuedOrBuilding, Queue!IdleClient, Proved!IdleClient,
   Queue!Pending, Proved!Pending, Queue!PendingJobs, Proved!PendingJobs, Queue!Alive,
   Proved!Alive, Queue!Active, Proved!Active, Queue!AbortJob, Proved!AbortJob,
   Queue!SetState, Proved!SetState, Queue!SetRun, Proved!SetRun, Queue!Goto, Proved!Goto,
   Queue!Leave, Proved!Leave, Queue!Enqueueable, Proved!Enqueueable, Queue!VersionFree,
   Proved!VersionFree, Queue!ProcessNext, Proved!ProcessNext, Queue!CancellableRun,
   Proved!CancellableRun, Queue!CanTransition, Proved!CanTransition, Queue!Transitions,
   Proved!Transitions, Queue!Requeueable, Proved!Requeueable, Queue!Cancellable,
   Proved!Cancellable, Queue!PipelineState, Proved!PipelineState

LEMMA SameWorkerStep == Queue!Poll \/ Queue!WorkerStep => Proved!Poll \/ Proved!WorkerStep
BY DEF
   Queue!Poll, Proved!Poll, Queue!WorkerStep, Proved!WorkerStep, Queue!Claim, Proved!Claim,
   Queue!NothingToClaim, Proved!NothingToClaim, Queue!Activate, Proved!Activate,
   Queue!WorkerRead, Proved!WorkerRead, Queue!WorkerRefused, Proved!WorkerRefused,
   Queue!WorkerRejects, Proved!WorkerRejects, Queue!WorkerWrite, Proved!WorkerWrite,
   Queue!CreateStageRun, Proved!CreateStageRun, Queue!Spawn, Proved!Spawn,
   Queue!PrepareFails, Proved!PrepareFails, Queue!ChildExits, Proved!ChildExits,
   Queue!FinishRun, Proved!FinishRun, Queue!CheckOutput, Proved!CheckOutput,
   Queue!SaveArtifacts, Proved!SaveArtifacts, Queue!Catch, Proved!Catch, Queue!db,
   Proved!db, Queue!runRows, Proved!runRows, Queue!Versions, Proved!Versions, Queue!Stages,
   Proved!Stages, Queue!FailureStates, Proved!FailureStates, Queue!EndStatus,
   Proved!EndStatus, Queue!IdleClient, Proved!IdleClient, Queue!IdleWorker,
   Proved!IdleWorker, Queue!Pending, Proved!Pending, Queue!PendingJobs, Proved!PendingJobs,
   Queue!SetState, Proved!SetState, Queue!SetRun, Proved!SetRun, Queue!Die, Proved!Die,
   Queue!ProcessNext, Proved!ProcessNext, Queue!Release, Proved!Release, Queue!Throw,
   Proved!Throw, Queue!Outcomes, Proved!Outcomes, Queue!Succeeded, Proved!Succeeded,
   Queue!AfterStage, Proved!AfterStage, Queue!FailureState, Proved!FailureState,
   Queue!CanTransition, Proved!CanTransition, Queue!Transitions, Proved!Transitions,
   Queue!Requeueable, Proved!Requeueable, Queue!Cancellable, Proved!Cancellable,
   Queue!PipelineState, Proved!PipelineState

LEMMA SameProcessStep ==
  /\ Queue!Shutdown => Proved!Shutdown
  /\ Queue!Exit => Proved!Exit
  /\ Queue!Crash => Proved!Crash
  /\ Queue!Restart => Proved!Restart
BY DEF
   Queue!Shutdown, Proved!Shutdown, Queue!Exit, Proved!Exit, Queue!Crash, Proved!Crash,
   Queue!Restart, Proved!Restart, Queue!db, Proved!db, Queue!runRows, Proved!runRows,
   Queue!Versions, Proved!Versions, Queue!Stages, Proved!Stages, Queue!IdleClient,
   Proved!IdleClient, Queue!IdleWorker, Proved!IdleWorker, Queue!Alive, Proved!Alive,
   Queue!Active, Proved!Active, Queue!AbortJob, Proved!AbortJob, Queue!InterruptedStages,
   Proved!InterruptedStages, Queue!InterruptedStates, Proved!InterruptedStates

LEMMA SameDeath == Queue!Die => Proved!Die
BY DEF Queue!Die, Proved!Die, Queue!IdleClient, Proved!IdleClient, Queue!IdleWorker,
   Proved!IdleWorker, Queue!db, Proved!db

-----------------------------------------------------------------------------
(* What a step of the build queue means here.                              *)

LEMMA InitQueue == Queue!Init => QueueTyped
<1>1. Queue!Init => Proved!Init
  BY DEF Queue!Init, Proved!Init, Queue!Versions, Proved!Versions, Queue!Stages, Proved!Stages,
         Queue!IdleClient, Proved!IdleClient, Queue!IdleWorker, Proved!IdleWorker
<1> QED BY <1>1, SameTypes, AssumptionHolds, Proved!InitTyped

LEMMA HandlersOfQueue ==
  ASSUME QueueTyped, (\E c \in Clients : Queue!ClientStep(c)) \/ Queue!Poll \/ Queue!WorkerStep
  PROVE  QueueTyped' /\ Proved!KeepsToBuilds /\ phase' \in {phase, "down"}
<1>1. Proved!Typed
  BY SameTypes
<1>2. ASSUME NEW c \in Clients, Queue!ClientStep(c)
      PROVE  Proved!Next /\ Proved!KeepsToBuilds /\ phase' = phase
  <2>1. Proved!ClientStep(c)
    BY <1>2, SameClientStep
  <2> QED BY <1>1, <2>1, AssumptionHolds, Proved!ClientKeepsToBuilds DEF Proved!Next
<1>3. CASE Queue!Poll \/ Queue!WorkerStep
  <2>1. Proved!Poll \/ Proved!WorkerStep
    BY <1>3, SameWorkerStep
  <2>2. Proved!KeepsToBuilds /\ phase' \in {phase, "down"}
    BY <1>1, <2>1, AssumptionHolds, Proved!WorkerKeepsToBuilds
  <2>3. Proved!Typed'
    BY <1>1, <2>1, AssumptionHolds, Proved!NextTyped DEF Proved!Next
  <2> QED BY <2>2, <2>3, SameTypesNext
<1>4. CASE \E c \in Clients : Queue!ClientStep(c)
  <2>1. Proved!Next /\ Proved!KeepsToBuilds /\ phase' = phase
    BY <1>2, <1>4
  <2>2. Proved!Typed'
    BY <1>1, <2>1, AssumptionHolds, Proved!NextTyped
  <2> QED BY <2>1, <2>2, SameTypesNext
<1> QED BY <1>3, <1>4

LEMMA LifeOfQueue ==
  ASSUME QueueTyped, Queue!Shutdown \/ Queue!Exit \/ Queue!Crash \/ Queue!Restart
  PROVE  QueueTyped' /\ Proved!KeepsToBuilds
<1>1. Proved!Typed
  BY SameTypes
<1>2. Proved!ProcessStep
  BY SameProcessStep DEF Proved!ProcessStep
<1>3. Proved!KeepsToBuilds
  BY <1>1, <1>2, AssumptionHolds, Proved!ProcessKeepsToBuilds
<1>4. Proved!Typed'
  BY <1>1, <1>2, AssumptionHolds, Proved!NextTyped DEF Proved!Next
<1> QED BY <1>3, <1>4, SameTypesNext

LEMMA DeathOfQueue ==
  ASSUME QueueTyped, Queue!Die
  PROVE  QueueTyped' /\ Proved!KeepsToBuilds /\ phase' = "down"
<1>1. Proved!Typed /\ Proved!Die
  BY SameTypes, SameDeath
<1>2. Proved!Typed'
  BY <1>1, AssumptionHolds, Proved!DieTyped
<1>3. Proved!KeepsToBuilds
  BY <1>1 DEF Proved!Die, Proved!db, Proved!KeepsToBuilds
<1> QED BY <1>1, <1>2, <1>3, SameTypesNext DEF Queue!Die

LEMMA QueueUnchanged ==
  ASSUME QueueTyped, UNCHANGED qvars
  PROVE  QueueTyped' /\ Proved!KeepsToBuilds
BY DEF qvars, QueueTyped, Queue!TypeOK, Queue!LocalsAreReal, Proved!KeepsToBuilds

LEMMA StateWritten ==
  ASSUME QueueTyped, NEW p \in Pipelines, NEW to \in PipelineState,
         SetState(p, to), UnchangedButState
  PROVE  /\ QueueTyped'
         /\ pstate'[p] = to
         /\ \A q \in Pipelines \ {p} : pstate'[q] = pstate[q]
         /\ phase' = phase /\ packaged' = packaged
<1>1. Queue!PipelineState = PipelineState
  BY DEF Queue!PipelineState, PipelineState
<1> QED BY <1>1
  DEF SetState, UnchangedButState, QueueTyped, Queue!TypeOK, Queue!LocalsAreReal

-----------------------------------------------------------------------------
(* Types of what this module adds.                                         *)

OwnTyped ==
  /\ deployment \in [Deployments -> RowRecord]
  /\ product \in SUBSET Pipelines
  /\ approval \in [Approvals -> ApprovalRecord]
  /\ child \in [Deployments -> {"none", "running", "told"}]
  /\ exitRow \in SUBSET Deployments
  /\ exitPc \in [Deployments -> {"none", "snapshot", "assert", "write"}]
  /\ stopWrites \in SUBSET Deployments
  /\ boot \in [pc : {"off", "spawn", "mark"}, todo : SUBSET Deployments]

LEMMA TypeOKIsBoth == TypeOK /\ Queue!LocalsAreReal <=> QueueTyped /\ OwnTyped
BY DEF TypeOK, QueueTyped, OwnTyped

LEMMA GotoTyped ==
  ASSUME approval \in [Approvals -> ApprovalRecord], NEW a \in Approvals, NEW pc \in ApprovalPc,
         Goto(a, pc)
  PROVE  /\ approval' \in [Approvals -> ApprovalRecord]
         /\ approval'[a].pc = pc
         /\ approval'[a].p = approval[a].p /\ approval'[a].v = approval[a].v
         /\ approval'[a].d = approval[a].d
         /\ \A b \in Approvals \ {a} : approval'[b] = approval[b]
BY DEF Goto, ApprovalRecord

LEMMA IdleApprovalTyped == IdleApproval \in ApprovalRecord
BY DeploymentAssumption DEF IdleApproval, ApprovalRecord, ApprovalPc

LEMMA StoreApproval ==
  ASSUME approval \in [Approvals -> ApprovalRecord], NEW a \in Approvals,
         NEW r \in ApprovalRecord, approval' = [approval EXCEPT ![a] = r]
  PROVE  /\ approval' \in [Approvals -> ApprovalRecord]
         /\ approval'[a] = r
         /\ \A b \in Approvals \ {a} : approval'[b] = approval[b]
OBVIOUS

LEMMA LeaveTyped ==
  ASSUME approval \in [Approvals -> ApprovalRecord], NEW a \in Approvals, Leave(a)
  PROVE  /\ approval' \in [Approvals -> ApprovalRecord]
         /\ approval'[a].pc = "idle" /\ approval'[a].d = 0
         /\ \A b \in Approvals \ {a} : approval'[b] = approval[b]
<1>1. IdleApproval.pc = "idle" /\ IdleApproval.d = 0
  BY DEF IdleApproval
<1> QED BY <1>1, IdleApprovalTyped, StoreApproval DEF Leave

LEMMA StatusSet ==
  ASSUME deployment \in [Deployments -> RowRecord], NEW d \in Deployments,
         NEW status \in DeploymentStatus, SetStatus(d, status)
  PROVE  /\ deployment' \in [Deployments -> RowRecord]
         /\ deployment'[d].status = status
         /\ deployment'[d].p = deployment[d].p /\ deployment'[d].v = deployment[d].v
         /\ \A e \in Deployments \ {d} : deployment'[e] = deployment[e]
BY DEF SetStatus, RowRecord

LEMMA AbandonTyped ==
  ASSUME OwnTyped, Abandon
  PROVE  /\ OwnTyped'
         /\ UNCHANGED <<deployment, product>>
         /\ \A a \in Approvals : approval'[a].pc = "idle" /\ approval'[a].d = 0
         /\ \A d \in Deployments : child'[d] = "none" /\ exitPc'[d] = "none"
         /\ exitRow' = {} /\ stopWrites' = {} /\ boot'.pc = "off"
<1>1. IdleApproval.pc = "idle" /\ IdleApproval.d = 0
  BY DEF IdleApproval
<1> QED BY <1>1, IdleApprovalTyped DEF OwnTyped, Abandon, NotBooting, rows

-----------------------------------------------------------------------------
(* The inductive invariant: what kinds of steps preserve it.               *)

Inv == QueueTyped /\ OwnTyped /\ DeployInv

\* Rows keep their number, pipeline and version; all but d keep their status as well.
LEMMA RowsKept ==
  ASSUME OwnTyped, NEW d \in Created, NEW status \in DeploymentStatus, SetStatus(d, status)
  PROVE  /\ Created' = Created
         /\ d \in Deployments /\ deployment'[d].status = status
         /\ deployment'[d].p = deployment[d].p /\ deployment'[d].v = deployment[d].v
         /\ \A e \in Deployments \ {d} : deployment'[e] = deployment[e]
<1>1. d \in Deployments
  BY DEF Created
<1>2. /\ deployment'[d].status = status
      /\ deployment'[d].p = deployment[d].p /\ deployment'[d].v = deployment[d].v
      /\ \A e \in Deployments \ {d} : deployment'[e] = deployment[e]
  BY <1>1, StatusSet DEF OwnTyped
<1>3. status # "ABSENT"
  BY DEF DeploymentStatus
<1>4. deployment[d].status # "ABSENT"
  BY DEF Created
<1>5. Created' = Created
  BY <1>2, <1>3, <1>4 DEF Created
<1> QED BY <1>1, <1>2, <1>5

LEMMA IntervalCounts ==
  ASSUME NEW n \in Nat
  PROVE  Cardinality(1..n) = n
<1>1. Cardinality(1..n) = IF 1 > n THEN 0 ELSE n - 1 + 1
  BY FS_Interval
<1> QED BY <1>1

LEMMA NumbersKept ==
  ASSUME RowsAreNumbered, Created' = Created, Undeployed' \subseteq Undeployed
  PROVE  RowsAreNumbered'
<1>1. IsFiniteSet(Undeployed')
  BY FS_Subset DEF RowsAreNumbered
<1>2. Cardinality(Undeployed') <= Cardinality(Undeployed)
  BY FS_Subset DEF RowsAreNumbered
<1>3. Cardinality(Undeployed') \in Nat /\ Cardinality(Undeployed) \in Nat
  BY <1>1, FS_CardinalityType DEF RowsAreNumbered
<1>4. PICK n \in 0..MaxDeployments : Created = 1..n
  BY DEF RowsAreNumbered
<1>5. Cardinality(Created) \in Nat
  BY <1>4, IntervalCounts, DeploymentAssumption
<1>6. Cardinality(Created)' + Cardinality(Undeployed)' <= MaxDeployments
  BY <1>2, <1>3, <1>5, DeploymentAssumption DEF RowsAreNumbered
<1> QED BY <1>1, <1>4, <1>6 DEF RowsAreNumbered

\* Handlers of requests run in a process that has started.
LEMMA ServesOnceUp ==
  ASSUME Inv, NEW a \in Approvals, approval[a].pc # "idle"
  PROVE  phase # "down" /\ boot.pc = "off"
BY DEF Inv, DeployInv, DownIsQuiet, BootFollowsRows

\* The row whose turn it is to be started.
LEMMA MinOfTodo ==
  ASSUME Inv, boot.todo # {}
  PROVE  Min(boot.todo) \in boot.todo /\ Min(boot.todo) \in Deployments
<1>1. boot.todo \in SUBSET Deployments /\ Deployments \subseteq Nat
  BY DeploymentAssumption DEF Inv, OwnTyped, Deployments
<1> QED BY <1>1, MinOfNaturals

LEMMA PackagedIsReal ==
  ASSUME Inv, NEW p, NEW v, <<p, v>> \in packaged
  PROVE  p \in Pipelines /\ v \in Queue!Versions
<1>1. packaged \in SUBSET (Pipelines \X Queue!Versions)
  BY DEF Inv, QueueTyped, Queue!TypeOK
<1> QED BY <1>1

\* An approval goes on or ends, and marks at most its own row.
Moves(a) ==
  /\ approval' \in [Approvals -> ApprovalRecord]
  /\ \A b \in Approvals \ {a} : approval'[b] = approval[b]
  /\ \/ approval'[a].pc = "idle" /\ approval'[a].d = 0
     \/ /\ approval'[a].pc \notin {"idle", "start"}
        /\ approval'[a].p = approval[a].p /\ approval'[a].v = approval[a].v
        /\ approval'[a].d = approval[a].d
        /\ approval'[a].pc \in BeforeRow <=> approval[a].pc \in BeforeRow

LEMMA ApprovalMoves ==
  ASSUME Inv, NEW a \in Approvals, approval[a].pc # "idle",
         Moves(a),
         \/ deployment' = deployment
         \/ /\ approval[a].pc \notin BeforeRow \cup {"start"}
            /\ SetStatus(approval[a].d, "LIVE") \/ SetStatus(approval[a].d, "FAILED"),
         UNCHANGED <<packaged, phase, sinks, boot>>, product \subseteq product',
         \A p \in Pipelines : pstate'[p] = "LIVE" =>
           \/ p \in product'
           \/ approval'[a].pc = "product" /\ approval'[a].p = p
           \/ pstate[p] = "LIVE" /\ ~(approval[a].pc = "product" /\ approval[a].p = p)
  PROVE  DeployInv'
<1> USE DEF sinks, Moves
<1>1. phase # "down" /\ boot.pc = "off"
  BY ServesOnceUp
<1>2. /\ Created' = Created
      /\ \A d \in Deployments :
           deployment'[d].p = deployment[d].p /\ deployment'[d].v = deployment[d].v
      /\ \A d \in Deployments : deployment'[d] # deployment[d] =>
           /\ d = approval[a].d /\ approval[a].pc \notin BeforeRow \cup {"start"}
           /\ deployment'[d].status # "STOPPED"
  <2>1. CASE deployment' = deployment
    BY <2>1 DEF Created
  <2>2. CASE /\ approval[a].pc \notin BeforeRow \cup {"start"}
             /\ SetStatus(approval[a].d, "LIVE") \/ SetStatus(approval[a].d, "FAILED")
    <3>1. approval[a].d \in Created
      BY <2>2 DEF Inv, DeployInv, ApprovalFollowsRow
    <3>2. PICK status \in {"LIVE", "FAILED"} : SetStatus(approval[a].d, status)
      BY <2>2
    <3>3. status \in DeploymentStatus /\ status # "STOPPED"
      BY DEF DeploymentStatus
    <3> QED BY <2>2, <3>1, <3>2, <3>3, RowsKept DEF Inv
  <2> QED BY <2>1, <2>2
<1>3. RowsAreNumbered'
  <2>1. Undeployed' \subseteq Undeployed
    BY DEF Undeployed
  <2> QED BY <1>2, <2>1, NumbersKept DEF Inv, DeployInv
<1>4. RowsArePackaged'
  BY <1>2 DEF Inv, DeployInv, RowsArePackaged, Created
<1>5. ASSUME NEW b \in Approvals
      PROVE  ApprovalFollowsRow(b)'
  <2>1. CASE b = a
    BY <1>2, <2>1 DEF Inv, DeployInv, ApprovalFollowsRow
  <2>2. CASE b # a
    <3>1. approval'[b] = approval[b] /\ ApprovalFollowsRow(b)
      BY <2>2 DEF Inv, DeployInv
    <3>2. approval[b].pc = "start" => deployment'[approval[b].d] = deployment[approval[b].d]
      <4>1. SUFFICES ASSUME approval[b].pc = "start"
                     PROVE  approval[b].d # approval[a].d \/ deployment' = deployment
        <5>1. approval[b].pc = "start" => approval[b].d \in Deployments
          BY <3>1 DEF ApprovalFollowsRow, Created, BeforeRow
        <5> QED BY <1>2, <5>1
      <4>2. approval[b].d \in Created
        BY <3>1, <4>1 DEF ApprovalFollowsRow, BeforeRow
      <4>3. approval[b].d # 0
        BY <4>2, DeploymentAssumption DEF Created, Deployments
      <4> QED BY <2>2, <4>3 DEF Inv, DeployInv, RowsAreTheirOwn
    <3> QED BY <1>2, <3>1, <3>2 DEF ApprovalFollowsRow
  <2> QED BY <2>1, <2>2
<1>6. RowsAreTheirOwn'
  BY DEF Inv, DeployInv, RowsAreTheirOwn
<1>7. SinksHaveRows'
  <2>1. RowsWith("STOPPED")' \subseteq RowsWith("STOPPED")
    BY <1>2 DEF RowsWith
  <2> QED BY <1>2, <2>1 DEF Inv, DeployInv, SinksHaveRows, StoppedHasNoSink, Attended
<1>8. DownIsQuiet' /\ BootFollowsRows'
  BY <1>1 DEF DownIsQuiet, BootFollowsRows
<1>9. LivePipelinesAreSold'
  BY <1>1 DEF Inv, DeployInv, LivePipelinesAreSold, LivePipelines
<1> QED BY <1>3, <1>4, <1>5, <1>6, <1>7, <1>8, <1>9 DEF DeployInv

\* The process is gone, with every handler and every sink it knew.
LEMMA DeathInv ==
  ASSUME Inv, Abandon, packaged \subseteq packaged', phase' = "down"
  PROVE  DeployInv'
<1>1. /\ UNCHANGED <<deployment, product>>
      /\ \A a \in Approvals : approval'[a].pc = "idle" /\ approval'[a].d = 0
      /\ \A d \in Deployments : child'[d] = "none" /\ exitPc'[d] = "none"
      /\ exitRow' = {} /\ stopWrites' = {} /\ boot'.pc = "off"
  BY AbandonTyped DEF Inv
<1>2. Created' = Created
  BY <1>1 DEF Created
<1>3. RowsAreNumbered'
  <2>1. Undeployed' \subseteq Undeployed
    BY <1>1 DEF Undeployed
  <2> QED BY <1>2, <2>1, NumbersKept DEF Inv, DeployInv
<1>4. RowsArePackaged'
  BY <1>1, <1>2 DEF Inv, DeployInv, RowsArePackaged
<1>5. RowsAreTheirOwn' /\ \A a \in Approvals : ApprovalFollowsRow(a)'
  BY <1>1 DEF RowsAreTheirOwn, ApprovalFollowsRow
<1>6. SinksHaveRows' /\ DownIsQuiet' /\ BootFollowsRows'
  BY <1>1 DEF SinksHaveRows, StoppedHasNoSink, Attended, RowsWith, DownIsQuiet, BootFollowsRows
<1>7. LivePipelinesAreSold'
  BY <1>1 DEF LivePipelinesAreSold
<1> QED BY <1>3, <1>4, <1>5, <1>6, <1>7 DEF DeployInv

\* A step of the build queue that leaves the process alive.
LEMMA QueueMoves ==
  ASSUME Inv, UNCHANGED dvars, Proved!KeepsToBuilds, phase' = phase
  PROVE  DeployInv'
<1> USE DEF dvars, rows, sinks, Proved!KeepsToBuilds
<1>1. UNCHANGED <<Created, Undeployed>>
  BY DEF Created, Undeployed
<1>2. RowsAreNumbered' /\ RowsArePackaged'
  BY <1>1 DEF Inv, DeployInv, RowsAreNumbered, RowsArePackaged
<1>3. RowsAreTheirOwn' /\ \A a \in Approvals : ApprovalFollowsRow(a)'
  BY <1>1 DEF Inv, DeployInv, RowsAreTheirOwn, ApprovalFollowsRow
<1>4. SinksHaveRows' /\ DownIsQuiet'
  BY <1>1 DEF Inv, DeployInv, SinksHaveRows, StoppedHasNoSink, Attended, RowsWith, DownIsQuiet
<1>5. BootFollowsRows'
  <2> SUFFICES ASSUME boot.pc # "off" PROVE BootFollowsRows'
    BY DEF BootFollowsRows
  <2>1. /\ phase' = "down" /\ boot.todo \subseteq Created' /\ (boot.pc = "mark" => boot.todo # {})
        /\ \A d \in Waiting' : deployment[d].status = "LIVE" /\ ~Attended(d)'
    BY <1>1 DEF Inv, DeployInv, BootFollowsRows, Waiting, Attended
  <2>2. ASSUME NEW d \in ((RowsWith("LIVE") \cup Started) \ Waiting)',
               pstate'[deployment[d].p] = "LIVE"
        PROVE  child[d] = "running" \/ exitPc[d] # "none"
    <3>1. d \in (RowsWith("LIVE") \cup Started) \ Waiting
      BY DEF RowsWith, Started, Waiting
    <3>2. d \in Created
      <4>1. "LIVE" # "ABSENT"
        OBVIOUS
      <4>2. RowsWith("LIVE") \subseteq Created
        BY <4>1 DEF RowsWith, Created
      <4>3. Started \subseteq Created
        BY MinOfTodo DEF Inv, DeployInv, BootFollowsRows, Started
      <4> QED BY <3>1, <4>2, <4>3
    <3>3. deployment[d].p \in Pipelines
      BY <3>2, PackagedIsReal DEF Inv, DeployInv, RowsArePackaged
    <3> QED BY <2>2, <3>1, <3>3 DEF Inv, DeployInv, BootFollowsRows
  <2> QED BY <2>1, <2>2 DEF BootFollowsRows
<1>6. LivePipelinesAreSold'
  BY DEF Inv, DeployInv, LivePipelinesAreSold, LivePipelines
<1> QED BY <1>2, <1>3, <1>4, <1>5, <1>6 DEF DeployInv

-----------------------------------------------------------------------------
(* The inductive invariant, one lemma per action: approvals.               *)

LEMMA InitInv == Init => Inv
<1> SUFFICES ASSUME Init PROVE Inv
  OBVIOUS
<1> USE DEF Init
<1>1. IdleApproval.pc = "idle" /\ IdleApproval.d = 0 /\ NoRow.status = "ABSENT"
  BY DEF IdleApproval, NoRow
<1>2. OwnTyped
  <2>1. NoRow \in RowRecord
    BY DeploymentAssumption DEF NoRow, RowRecord
  <2> QED BY <2>1, IdleApprovalTyped DEF OwnTyped, NotBooting
<1>3. Created = {} /\ Undeployed = {} /\ \A d \in Deployments : ~Attended(d)
  BY <1>1 DEF Created, Undeployed, Attended
<1>4. RowsAreNumbered
  <2>1. 0 \in 0..MaxDeployments /\ 1..0 = {} /\ 0 + 0 <= MaxDeployments
    BY DeploymentAssumption
  <2> QED BY <1>3, <2>1, FS_EmptySet DEF RowsAreNumbered
<1>5. /\ RowsArePackaged /\ RowsAreTheirOwn
      /\ \A a \in Approvals : ApprovalFollowsRow(a)
  BY <1>1, <1>3 DEF RowsArePackaged, RowsAreTheirOwn, ApprovalFollowsRow
<1>6. SinksHaveRows /\ DownIsQuiet /\ BootFollowsRows
  BY <1>3 DEF SinksHaveRows, StoppedHasNoSink, RowsWith, DownIsQuiet, BootFollowsRows, NotBooting,
              Queue!Init
<1>7. LivePipelinesAreSold
  BY DEF LivePipelinesAreSold, LivePipelines, Queue!Init
<1>8. DeployInv
  BY <1>4, <1>5, <1>6, <1>7 DEF DeployInv
<1> QED BY <1>2, <1>8, InitQueue DEF Inv

LEMMA RequestApprovalInv ==
  ASSUME Inv, NEW a \in Approvals, NEW p \in Pipelines, NEW v \in Queue!Versions,
         RequestApproval(a, p, v)
  PROVE  Inv'
<1> DEFINE r == [pc |-> "verify", p |-> p, v |-> v, start |-> specStart[p], d |-> 0]
<1> USE DEF rows, sinks
<1>1. r \in ApprovalRecord
  <2>1. specStart[p] \in StartBlocks
    BY DEF Inv, QueueTyped, Queue!TypeOK
  <2>2. v \in 0..MaxVersion /\ 0 \in 0..MaxDeployments
    BY DeploymentAssumption DEF Queue!Versions
  <2> QED BY <2>1, <2>2 DEF ApprovalRecord, ApprovalPc
<1>2. /\ approval' \in [Approvals -> ApprovalRecord] /\ approval'[a] = r
      /\ \A b \in Approvals \ {a} : approval'[b] = approval[b]
  BY <1>1, StoreApproval DEF Inv, OwnTyped, RequestApproval
<1>3. /\ approval'[a].pc = "verify" /\ approval'[a].p = p /\ approval'[a].v = v
      /\ approval'[a].d = 0 /\ approval[a].pc = "idle"
  BY <1>2 DEF RequestApproval
<1>4. QueueTyped' /\ OwnTyped'
  BY <1>2, QueueUnchanged DEF RequestApproval, Inv, OwnTyped
<1>5. phase # "down" /\ boot.pc = "off"
  BY DEF RequestApproval, Serving, Inv, DeployInv, DownIsQuiet, BootFollowsRows
<1>6. UNCHANGED <<Created, deployment, packaged, pstate, phase>>
  BY DEF RequestApproval, Created, qvars
<1>7. RowsAreNumbered'
  <2>1. Undeployed' = Undeployed \cup {a} /\ a \notin Undeployed
    BY <1>2, <1>3 DEF Undeployed
  <2>2. /\ IsFiniteSet(Undeployed)
        /\ Cardinality(Created) + Cardinality(Undeployed) < MaxDeployments
    BY DEF Inv, DeployInv, RowsAreNumbered, RequestApproval
  <2>3. IsFiniteSet(Undeployed') /\ Cardinality(Undeployed') = Cardinality(Undeployed) + 1
    BY <2>1, <2>2, FS_AddElement
  <2>4. PICK n \in 0..MaxDeployments : Created = 1..n
    BY DEF Inv, DeployInv, RowsAreNumbered
  <2>5. Cardinality(Created) \in Nat /\ Cardinality(Undeployed) \in Nat
    BY <2>2, <2>4, IntervalCounts, FS_CardinalityType, DeploymentAssumption
  <2>6. Cardinality(Created') + Cardinality(Undeployed') <= MaxDeployments
    BY <1>6, <2>2, <2>3, <2>5, DeploymentAssumption
  <2> QED BY <1>6, <2>3, <2>4, <2>6 DEF RowsAreNumbered
<1>8. ASSUME NEW b \in Approvals
      PROVE  ApprovalFollowsRow(b)'
  <2>1. CASE b = a
    BY <1>3, <1>6, <2>1 DEF RequestApproval, qvars, ApprovalFollowsRow, BeforeRow
  <2>2. CASE b # a
    BY <1>2, <1>6, <2>2 DEF RequestApproval, Inv, DeployInv, ApprovalFollowsRow
  <2> QED BY <2>1, <2>2
<1>9. RowsAreTheirOwn'
  BY <1>2, <1>3 DEF Inv, DeployInv, RowsAreTheirOwn
<1>10. RowsArePackaged' /\ SinksHaveRows' /\ DownIsQuiet' /\ BootFollowsRows'
  BY <1>5, <1>6 DEF RequestApproval, Inv, DeployInv, RowsArePackaged, SinksHaveRows,
    StoppedHasNoSink, Attended, RowsWith, DownIsQuiet, BootFollowsRows
<1>11. LivePipelinesAreSold'
  BY <1>2, <1>3, <1>5, <1>6
  DEF RequestApproval, Inv, DeployInv, LivePipelinesAreSold, LivePipelines
<1>12. DeployInv'
  BY <1>7, <1>8, <1>9, <1>10, <1>11 DEF DeployInv
<1> QED BY <1>4, <1>12 DEF Inv

LEMMA CreateDeploymentInv ==
  ASSUME Inv, NEW a \in Approvals, CreateDeployment(a)
  PROVE  Inv'
<1> DEFINE d == Cardinality(Created) + 1
           row == [p |-> approval[a].p, v |-> approval[a].v, start |-> approval[a].start,
                   status |-> "STARTING"]
           r == [approval[a] EXCEPT !.pc = "start", !.d = d]
<1> USE DEF rows, sinks
<1>1. /\ approval[a].pc = "create" /\ approval[a].d = 0 /\ approval[a] \in ApprovalRecord
      /\ <<approval[a].p, approval[a].v>> \in packaged
  BY DEF CreateDeployment, Inv, DeployInv, ApprovalFollowsRow, BeforeRow, OwnTyped
<1>2. PICK n \in 0..MaxDeployments : Created = 1..n
  BY DEF Inv, DeployInv, RowsAreNumbered
<1>3. n \in Nat /\ d = n + 1
  BY <1>2, IntervalCounts, DeploymentAssumption
<1>4. /\ IsFiniteSet(Undeployed) /\ a \in Undeployed /\ Cardinality(Undeployed) \in Nat \ {0}
      /\ n + Cardinality(Undeployed) <= MaxDeployments
  <2>1. IsFiniteSet(Undeployed) /\ a \in Undeployed
    BY <1>1 DEF Undeployed, Inv, DeployInv, RowsAreNumbered
  <2>2. Cardinality(Undeployed) \in Nat /\ Cardinality(Undeployed) # 0
    BY <2>1, FS_CardinalityType, FS_EmptySet
  <2>3. Cardinality(Created) + Cardinality(Undeployed) <= MaxDeployments
    BY DEF Inv, DeployInv, RowsAreNumbered
  <2> QED BY <1>2, <1>3, <2>1, <2>2, <2>3, IntervalCounts
<1>5. d \in Deployments /\ d \notin Created /\ n + 1 \in 0..MaxDeployments
  BY <1>2, <1>3, <1>4, DeploymentAssumption DEF Deployments
<1>6. /\ r \in ApprovalRecord /\ r.pc = "start" /\ r.d = d
      /\ r.p = approval[a].p /\ r.v = approval[a].v
  <2> DEFINE g == [approval[a] EXCEPT !.pc = "start"]
  <2>1. /\ g \in ApprovalRecord /\ g.pc = "start"
        /\ g.p = approval[a].p /\ g.v = approval[a].v
    BY <1>1 DEF ApprovalRecord, ApprovalPc
  <2>2. r = [g EXCEPT !.d = d]
    OBVIOUS
  <2>3. d \in 0..MaxDeployments
    BY <1>3, <1>5
  <2> HIDE DEF g, d
  <2> QED BY <2>1, <2>2, <2>3 DEF ApprovalRecord
<1>7. /\ approval' \in [Approvals -> ApprovalRecord] /\ approval'[a] = r
      /\ \A b \in Approvals \ {a} : approval'[b] = approval[b]
  <2>1. approval' = [approval EXCEPT ![a] = r]
    BY DEF CreateDeployment
  <2> HIDE DEF r
  <2> QED BY <1>6, <2>1, StoreApproval DEF Inv, OwnTyped
<1>8. /\ deployment' \in [Deployments -> RowRecord] /\ deployment'[d] = row
      /\ \A e \in Deployments \ {d} : deployment'[e] = deployment[e]
  <2>1. row \in RowRecord
    BY <1>1 DEF ApprovalRecord, RowRecord, DeploymentStatus
  <2>2. deployment' = [deployment EXCEPT ![d] = row]
    BY DEF CreateDeployment
  <2> HIDE DEF row, d
  <2> QED BY <1>5, <2>1, <2>2 DEF Inv, OwnTyped
<1>9. row.status = "STARTING" /\ row.p = approval[a].p /\ row.v = approval[a].v
  OBVIOUS
<1> HIDE DEF row, r, d
<1>10. QueueTyped' /\ OwnTyped'
  BY <1>7, <1>8, QueueUnchanged DEF CreateDeployment, Inv, OwnTyped
<1>11. phase # "down" /\ boot.pc = "off"
  BY <1>1, ServesOnceUp
<1>12. Created' = Created \cup {d} /\ RowsWith("STOPPED")' \subseteq RowsWith("STOPPED")
  BY <1>5, <1>8, <1>9 DEF Created, RowsWith
<1>13. UNCHANGED <<packaged, pstate, phase, product, child, exitRow, exitPc, stopWrites, boot>>
  BY DEF CreateDeployment, qvars
<1>14. RowsAreNumbered'
  <2>1. Created' = 1..(n + 1)
    BY <1>2, <1>3, <1>12
  <2>2. Undeployed' = Undeployed \ {a}
    BY <1>3, <1>6, <1>7 DEF Undeployed
  <2>3. IsFiniteSet(Undeployed') /\ Cardinality(Undeployed') = Cardinality(Undeployed) - 1
    BY <1>4, <2>2, FS_RemoveElement
  <2>4. Cardinality(Created') = n + 1
    BY <1>3, <2>1, IntervalCounts
  <2>5. Cardinality(Created') + Cardinality(Undeployed') <= MaxDeployments
    <3>1. /\ Cardinality(Undeployed) - 1 \in Nat
          /\ n + 1 + (Cardinality(Undeployed) - 1) <= MaxDeployments
      BY <1>3, <1>4, DeploymentAssumption
    <3> QED BY <2>3, <2>4, <3>1
  <2> QED BY <1>5, <2>1, <2>3, <2>5 DEF RowsAreNumbered
<1>15. RowsArePackaged'
  BY <1>1, <1>8, <1>9, <1>12, <1>13 DEF Inv, DeployInv, RowsArePackaged, Created
<1>16. ASSUME NEW b \in Approvals
       PROVE  ApprovalFollowsRow(b)'
  <2>1. CASE b = a
    <3>1. ~Attended(d)
      BY <1>5 DEF Inv, DeployInv, SinksHaveRows
    <3>2. approval'[a].pc = "start" /\ approval'[a].d = d /\ approval'[a].d \in Created'
          /\ <<approval'[a].p, approval'[a].v>> \in packaged'
      BY <1>1, <1>6, <1>7, <1>12, <1>13
    <3> QED BY <1>8, <1>9, <1>13, <2>1, <3>1, <3>2 DEF ApprovalFollowsRow, Attended, BeforeRow
  <2>2. CASE b # a
    <3>1. approval'[b] = approval[b] /\ ApprovalFollowsRow(b)
      BY <1>7, <2>2 DEF Inv, DeployInv
    <3>2. approval[b].pc = "start" => deployment'[approval[b].d] = deployment[approval[b].d]
      BY <1>5, <1>8, <3>1 DEF ApprovalFollowsRow, BeforeRow, Created
    <3> QED BY <1>12, <1>13, <3>1, <3>2 DEF ApprovalFollowsRow
  <2> QED BY <2>1, <2>2
<1>17. RowsAreTheirOwn'
  <2>1. \A b \in Approvals : approval[b].d # d
    <3>1. \A b \in Approvals : approval[b].d = 0 \/ approval[b].d \in Created
      BY DEF Inv, DeployInv, ApprovalFollowsRow
    <3>2. d # 0
      BY <1>3
    <3> QED BY <1>5, <3>1, <3>2
  <2> QED BY <1>6, <1>7, <2>1 DEF Inv, DeployInv, RowsAreTheirOwn
<1>18. SinksHaveRows' /\ DownIsQuiet' /\ BootFollowsRows'
  BY <1>11, <1>12, <1>13 DEF Inv, DeployInv, SinksHaveRows, StoppedHasNoSink, Attended,
    DownIsQuiet, BootFollowsRows
<1>19. LivePipelinesAreSold'
  BY <1>1, <1>6, <1>7, <1>11, <1>13 DEF Inv, DeployInv, LivePipelinesAreSold, LivePipelines
<1>20. DeployInv'
  BY <1>14, <1>15, <1>16, <1>17, <1>18, <1>19 DEF DeployInv
<1> QED BY <1>10, <1>20 DEF Inv

LEMMA SpawnSinkInv ==
  ASSUME Inv, NEW a \in Approvals, SpawnSink(a)
  PROVE  Inv'
<1> DEFINE d == approval[a].d
<1> USE DEF rows, sinks
<1>1. /\ approval[a].pc = "start" /\ d \in Created /\ d \in Deployments /\ d \notin stopWrites
      /\ deployment[d].status = "STARTING" /\ <<approval[a].p, approval[a].v>> \in packaged
  BY DEF SpawnSink, Inv, DeployInv, ApprovalFollowsRow, BeforeRow, Created
<1>2. /\ approval' \in [Approvals -> ApprovalRecord] /\ approval'[a].pc = "markLive"
      /\ approval'[a].p = approval[a].p /\ approval'[a].v = approval[a].v /\ approval'[a].d = d
      /\ \A b \in Approvals \ {a} : approval'[b] = approval[b]
  BY GotoTyped DEF SpawnSink, Inv, OwnTyped, ApprovalPc
<1>3. child' = [child EXCEPT ![d] = "running"]
  BY DEF SpawnSink
<1>4. QueueTyped' /\ OwnTyped'
  BY <1>1, <1>2, <1>3, QueueUnchanged DEF SpawnSink, Inv, OwnTyped
<1>5. phase # "down" /\ boot.pc = "off"
  BY <1>1, ServesOnceUp
<1>6. /\ child'[d] = "running"
      /\ \A e \in Deployments \ {d} : child'[e] = child[e]
  BY <1>1, <1>3 DEF Inv, OwnTyped
<1> HIDE DEF d
<1>7. UNCHANGED <<packaged, pstate, phase, deployment, Created, product, exitRow, exitPc,
                  stopWrites, boot>>
  BY DEF SpawnSink, qvars, Created
<1>8. RowsAreNumbered' /\ RowsArePackaged'
  <2>1. Undeployed' \subseteq Undeployed
    BY <1>1, <1>2 DEF Undeployed, d
  <2> QED BY <1>7, <2>1, NumbersKept DEF Inv, DeployInv, RowsArePackaged
<1>9. ASSUME NEW b \in Approvals
      PROVE  ApprovalFollowsRow(b)'
  <2>1. CASE b = a
    BY <1>1, <1>2, <1>7, <2>1 DEF ApprovalFollowsRow, BeforeRow
  <2>2. CASE b # a
    <3>1. approval'[b] = approval[b] /\ ApprovalFollowsRow(b)
      BY <1>2, <2>2 DEF Inv, DeployInv
    <3>2. approval[b].d # d
      <4>1. d # 0
        BY <1>1, DeploymentAssumption DEF Deployments
      <4> QED BY <2>2, <4>1 DEF Inv, DeployInv, RowsAreTheirOwn, d
    <3>3. approval[b].pc = "start" => approval[b].d \in Deployments
      BY <3>1 DEF ApprovalFollowsRow, BeforeRow, Created
    <3> QED BY <1>6, <1>7, <3>1, <3>2, <3>3 DEF ApprovalFollowsRow
  <2> QED BY <2>1, <2>2
<1>10. RowsAreTheirOwn'
  BY <1>2 DEF Inv, DeployInv, RowsAreTheirOwn, d
<1>11. SinksHaveRows'
  <2>1. \A e \in Deployments : Attended(e)' => e \in Created'
    BY <1>1, <1>6, <1>7 DEF Inv, DeployInv, SinksHaveRows, Attended
  <2>2. stopWrites' \subseteq Deployments \ {d} /\ \A e \in stopWrites' : child'[e] # "running"
    BY <1>1, <1>6, <1>7 DEF Inv, OwnTyped, DeployInv, SinksHaveRows
  <2>3. StoppedHasNoSink'
    BY <1>1, <1>6, <1>7 DEF Inv, DeployInv, SinksHaveRows, StoppedHasNoSink, RowsWith
  <2> QED BY <2>1, <2>2, <2>3 DEF SinksHaveRows
<1>12. DownIsQuiet' /\ BootFollowsRows'
  BY <1>5, <1>7 DEF DownIsQuiet, BootFollowsRows
<1>13. LivePipelinesAreSold'
  BY <1>1, <1>2, <1>5, <1>7 DEF Inv, DeployInv, LivePipelinesAreSold, LivePipelines
<1>14. DeployInv'
  BY <1>8, <1>9, <1>10, <1>11, <1>12, <1>13 DEF DeployInv
<1> QED BY <1>4, <1>14 DEF Inv

\* The other steps of an approval: each goes on to the next await, or leaves.
LEMMA StayInv ==
  ASSUME Inv, NEW a \in Approvals,
         ApproveRead(a) \/ CreateFails(a) \/ StartFails(a) \/ LiveRead(a) \/ FailedRead(a)
  PROVE  Inv'
<1> USE DEF rows, sinks, BeforeRow
<1>1. QueueTyped' /\ UNCHANGED <<pstate, packaged, phase, deployment, product, sinks, boot>>
  BY QueueUnchanged
  DEF Inv, qvars, ApproveRead, CreateFails, StartFails, LiveRead, FailedRead
<1>2. /\ approval[a].pc \in {"verify", "create", "start", "assertLive", "assertFailed"}
      /\ \/ Leave(a)
         \/ approval[a].pc = "verify" /\ Goto(a, "writeDeploying")
         \/ approval[a].pc = "start" /\ Goto(a, "markFailed")
         \/ approval[a].pc = "assertLive" /\ Goto(a, "writeLive")
         \/ approval[a].pc = "assertLive" /\ Goto(a, "markFailed")
         \/ approval[a].pc = "assertFailed" /\ Goto(a, "writeFailed")
  BY DEF ApproveRead, CreateFails, StartFails, LiveRead, FailedRead
<1>3. Moves(a)
  <2>1. CASE Leave(a)
    BY <2>1, LeaveTyped DEF Inv, OwnTyped, Moves
  <2>2. CASE approval[a].pc = "verify" /\ Goto(a, "writeDeploying")
    BY <2>2, GotoTyped DEF Inv, OwnTyped, ApprovalPc, Moves
  <2>3. ASSUME NEW pc \in {"markFailed", "writeLive", "writeFailed"}, Goto(a, pc),
               approval[a].pc \in {"start", "assertLive", "assertFailed"}
        PROVE  Moves(a)
    BY <2>3, GotoTyped DEF Inv, OwnTyped, ApprovalPc, Moves
  <2> QED BY <1>2, <2>1, <2>2, <2>3
<1>4. OwnTyped'
  BY <1>1, <1>3 DEF Inv, OwnTyped, Moves
<1>5. DeployInv'
  <2>1. approval[a].pc \notin {"idle", "product"}
    BY <1>2
  <2> HIDE DEF BeforeRow, sinks
  <2> QED BY <1>1, <1>3, <2>1, ApprovalMoves
<1> QED BY <1>1, <1>4, <1>5 DEF Inv

LEMMA ApprovalWritesInv ==
  ASSUME Inv, NEW a \in Approvals, ApproveWrite(a) \/ LiveWrite(a) \/ FailedWrite(a)
  PROVE  Inv'
<1> DEFINE p == approval[a].p
<1>1. approval[a].pc # "idle" /\ p \in Pipelines
  <2>1. approval[a].pc # "idle"
    BY DEF ApproveWrite, LiveWrite, FailedWrite
  <2>2. <<p, approval[a].v>> \in packaged
    BY <2>1 DEF Inv, DeployInv, ApprovalFollowsRow
  <2> QED BY <2>1, <2>2, PackagedIsReal
<1>2. UNCHANGED <<deployment, product, sinks, boot>>
  BY DEF ApproveWrite, LiveWrite, FailedWrite, rows, sinks
<1>3. CASE ApproveWrite(a)
  <2>1. /\ QueueTyped' /\ pstate'[p] = "DEPLOYING" /\ phase' = phase /\ packaged' = packaged
        /\ \A q \in Pipelines \ {p} : pstate'[q] = pstate[q]
    BY <1>1, <1>3, StateWritten DEF ApproveWrite, Inv, PipelineState
  <2>2. approval[a].pc = "writeDeploying" /\ Moves(a)
    BY <1>3, GotoTyped DEF ApproveWrite, Inv, OwnTyped, ApprovalPc, Moves, BeforeRow
  <2>3. \A q \in Pipelines : pstate'[q] = "LIVE" => pstate[q] = "LIVE"
    BY <2>1
  <2>4. DeployInv'
    BY <1>1, <1>2, <2>1, <2>2, <2>3, ApprovalMoves
  <2>5. OwnTyped'
    BY <1>2, <2>2 DEF Inv, OwnTyped, Moves, sinks
  <2> QED BY <2>1, <2>4, <2>5 DEF Inv
<1>4. CASE LiveWrite(a)
  <2>1. /\ QueueTyped' /\ pstate'[p] = "LIVE" /\ phase' = phase /\ packaged' = packaged
        /\ \A q \in Pipelines \ {p} : pstate'[q] = pstate[q]
    BY <1>1, <1>4, StateWritten DEF LiveWrite, Inv, PipelineState
  <2>2. approval[a].pc = "writeLive" /\ Moves(a) /\ approval'[a].pc = "product" /\ approval'[a].p = p
    BY <1>4, GotoTyped DEF LiveWrite, Inv, OwnTyped, ApprovalPc, Moves, BeforeRow
  <2>3. \A q \in Pipelines : pstate'[q] = "LIVE" =>
          approval'[a].p = q \/ pstate[q] = "LIVE"
    BY <2>1, <2>2
  <2>4. DeployInv'
    BY <1>1, <1>2, <2>1, <2>2, <2>3, ApprovalMoves
  <2>5. OwnTyped'
    BY <1>2, <2>2 DEF Inv, OwnTyped, Moves, sinks
  <2> QED BY <2>1, <2>4, <2>5 DEF Inv
<1>5. CASE FailedWrite(a)
  <2>1. /\ QueueTyped' /\ pstate'[p] = "DEPLOYMENT_FAILED" /\ phase' = phase /\ packaged' = packaged
        /\ \A q \in Pipelines \ {p} : pstate'[q] = pstate[q]
    BY <1>1, <1>5, StateWritten DEF FailedWrite, Inv, PipelineState
  <2>2. approval[a].pc = "writeFailed" /\ Moves(a)
    BY <1>5, LeaveTyped DEF FailedWrite, Inv, OwnTyped, Moves
  <2>3. \A q \in Pipelines : pstate'[q] = "LIVE" => pstate[q] = "LIVE"
    BY <2>1
  <2>4. DeployInv'
    BY <1>1, <1>2, <2>1, <2>2, <2>3, ApprovalMoves
  <2>5. OwnTyped'
    BY <1>2, <2>2 DEF Inv, OwnTyped, Moves, sinks
  <2> QED BY <2>1, <2>4, <2>5 DEF Inv
<1> QED BY <1>3, <1>4, <1>5

LEMMA ApprovalMarksInv ==
  ASSUME Inv, NEW a \in Approvals, MarkLive(a) \/ MarkFailed(a)
  PROVE  Inv'
<1>1. QueueTyped' /\ UNCHANGED <<pstate, packaged, phase, product, sinks, boot>>
  BY QueueUnchanged DEF Inv, MarkLive, MarkFailed, qvars
<1>2. /\ approval[a].pc \in {"markLive", "markFailed"}
      /\ SetStatus(approval[a].d, "LIVE") \/ SetStatus(approval[a].d, "FAILED")
      /\ Goto(a, "assertLive") \/ Goto(a, "assertFailed")
  BY DEF MarkLive, MarkFailed
<1>3. Moves(a)
  BY <1>2, GotoTyped DEF Inv, OwnTyped, ApprovalPc, Moves, BeforeRow
<1>4. OwnTyped'
  <2>1. approval[a].d \in Deployments
    BY <1>2 DEF Inv, DeployInv, ApprovalFollowsRow, BeforeRow, Created
  <2>2. deployment' \in [Deployments -> RowRecord]
    BY <1>2, <2>1, StatusSet DEF Inv, OwnTyped, DeploymentStatus
  <2> QED BY <1>1, <1>3, <2>2 DEF Inv, OwnTyped, Moves, sinks
<1>5. DeployInv'
  <2>1. approval[a].pc \notin BeforeRow \cup {"idle", "start", "product"}
    BY <1>2 DEF BeforeRow
  <2> QED BY <1>1, <1>2, <1>3, <2>1, ApprovalMoves
<1> QED BY <1>1, <1>4, <1>5 DEF Inv

LEMMA UpsertProductInv ==
  ASSUME Inv, NEW a \in Approvals, UpsertProduct(a)
  PROVE  Inv'
<1>1. QueueTyped' /\ UNCHANGED <<pstate, packaged, phase, deployment, sinks, boot>>
  BY QueueUnchanged DEF Inv, UpsertProduct, qvars
<1>2. approval[a].pc = "product" /\ product' = product \cup {approval[a].p} /\ Moves(a)
  BY LeaveTyped DEF UpsertProduct, Inv, OwnTyped, Moves
<1>3. approval[a].p \in Pipelines
  <2>1. <<approval[a].p, approval[a].v>> \in packaged
    BY <1>2 DEF Inv, DeployInv, ApprovalFollowsRow
  <2> QED BY <2>1, PackagedIsReal
<1>4. OwnTyped'
  BY <1>1, <1>2, <1>3 DEF Inv, OwnTyped, Moves, sinks
<1>5. DeployInv'
  BY <1>1, <1>2, ApprovalMoves
<1> QED BY <1>1, <1>4, <1>5 DEF Inv

LEMMA ApprovalStepInv ==
  ASSUME Inv, NEW a \in Approvals, ApprovalStep(a)
  PROVE  Inv'
BY RequestApprovalInv, StayInv, ApprovalWritesInv, CreateDeploymentInv, SpawnSinkInv,
   ApprovalMarksInv, UpsertProductInv
DEF ApprovalStep

-----------------------------------------------------------------------------
(* The inductive invariant, one lemma per action: sinks.                   *)

\* What is left alone by a step of a sink's handlers that does not touch approvals.
LEMMA SinkMoves ==
  ASSUME Inv, UNCHANGED <<packaged, phase, product, approval, boot>>,
         Created' = Created,
         \A d \in Deployments :
           deployment'[d].p = deployment[d].p /\ deployment'[d].v = deployment[d].v,
         \A p \in Pipelines : pstate'[p] = "LIVE" => pstate[p] = "LIVE"
  PROVE  RowsAreNumbered' /\ RowsArePackaged' /\ RowsAreTheirOwn' /\ LivePipelinesAreSold'
<1>1. RowsAreNumbered'
  <2>1. Undeployed' = Undeployed
    BY DEF Undeployed
  <2> QED BY <2>1, NumbersKept DEF Inv, DeployInv
<1>2. RowsArePackaged'
  BY DEF Inv, DeployInv, RowsArePackaged, Created
<1>3. RowsAreTheirOwn'
  BY DEF Inv, DeployInv, RowsAreTheirOwn
<1>4. LivePipelinesAreSold'
  BY DEF Inv, DeployInv, LivePipelinesAreSold, LivePipelines
<1> QED BY <1>1, <1>2, <1>3, <1>4

\* The rows that boot looks at: those that wait, and those that have had their sink.
LEMMA BootKept ==
  ASSUME Inv, UNCHANGED <<phase, boot>>, Created' = Created,
         \A d \in Waiting : deployment'[d] = deployment[d] /\ (Attended(d)' => Attended(d)),
         \A d \in Created :
           /\ deployment'[d].p = deployment[d].p
           /\ deployment'[d].status = "LIVE" => deployment[d].status = "LIVE",
         boot.pc # "off" => \A d \in Created :
           /\ child[d] = "running" \/ exitPc[d] # "none"
           /\ pstate'[deployment[d].p] = "LIVE"
           => child'[d] = "running" \/ exitPc'[d] # "none",
         \A p \in Pipelines : pstate'[p] = "LIVE" => pstate[p] = "LIVE"
  PROVE  BootFollowsRows'
<1> SUFFICES ASSUME boot.pc # "off" PROVE BootFollowsRows'
  BY DEF BootFollowsRows
<1>1. Waiting' = Waiting /\ Started' = Started
  BY DEF Waiting, Started
<1>2. /\ phase' = "down" /\ boot'.todo \subseteq Created' /\ (boot'.pc = "mark" => boot'.todo # {})
      /\ \A d \in Waiting' : deployment'[d].status = "LIVE" /\ ~Attended(d)'
  BY <1>1 DEF Inv, DeployInv, BootFollowsRows
<1>3. ASSUME NEW d \in ((RowsWith("LIVE") \cup Started) \ Waiting)',
             pstate'[deployment'[d].p] = "LIVE"
      PROVE  child'[d] = "running" \/ exitPc'[d] # "none"
  <2>1. d \in Created
    <3>1. "LIVE" # "ABSENT"
      OBVIOUS
    <3>2. RowsWith("LIVE")' \subseteq Created
      BY <3>1 DEF RowsWith, Created
    <3>3. Started \subseteq Created
      BY MinOfTodo DEF Inv, DeployInv, BootFollowsRows, Started
    <3> QED BY <1>1, <3>2, <3>3
  <2>2. d \in (RowsWith("LIVE") \cup Started) \ Waiting
    BY <1>1, <2>1 DEF RowsWith
  <2>3. deployment[d].p \in Pipelines /\ deployment'[d].p = deployment[d].p
    BY <2>1, PackagedIsReal DEF Inv, DeployInv, RowsArePackaged
  <2>4. child[d] = "running" \/ exitPc[d] # "none"
    BY <1>3, <2>2, <2>3 DEF Inv, DeployInv, BootFollowsRows
  <2> QED BY <1>3, <2>1, <2>3, <2>4
<1> QED BY <1>2, <1>3 DEF BootFollowsRows

LEMMA SinkClosesInv ==
  ASSUME Inv, NEW d \in Deployments, SinkCloses(d)
  PROVE  Inv'
<1> USE DEF rows
<1>1. QueueTyped' /\ UNCHANGED <<pstate, packaged, phase, deployment, product, approval,
                                 stopWrites, boot, Created>>
  BY QueueUnchanged DEF Inv, SinkCloses, qvars, Created
<1>2. /\ child[d] # "none" /\ d \in Created
      /\ child'[d] = "none" /\ \A e \in Deployments \ {d} : child'[e] = child[e]
      /\ \A e \in Deployments \ {d} : (e \in exitRow' <=> e \in exitRow) /\ exitPc'[e] = exitPc[e]
      /\ child[d] # "told" => exitPc'[d] = "snapshot"
      /\ OwnTyped'
  <2>1. child[d] # "none" /\ d \in Created
    BY DEF SinkCloses, Inv, DeployInv, SinksHaveRows, Attended
  <2>2. child'[d] = "none" /\ \A e \in Deployments \ {d} : child'[e] = child[e]
    BY DEF SinkCloses, Inv, OwnTyped
  <2>3. CASE child[d] = "told"
    <3>1. UNCHANGED <<exitRow, exitPc>>
      BY <2>3 DEF SinkCloses
    <3> QED BY <1>1, <2>1, <2>2, <2>3, <3>1 DEF SinkCloses, Inv, OwnTyped
  <2>4. CASE child[d] # "told"
    <3>1. exitRow' = exitRow \cup {d} /\ exitPc' = [exitPc EXCEPT ![d] = "snapshot"]
      BY <2>4 DEF SinkCloses
    <3>2. OwnTyped'
      BY <1>1, <2>2, <3>1 DEF SinkCloses, Inv, OwnTyped
    <3> QED BY <2>1, <2>2, <2>4, <3>1, <3>2 DEF Inv, OwnTyped
  <2> QED BY <2>3, <2>4
<1>3. RowsAreNumbered' /\ RowsArePackaged' /\ RowsAreTheirOwn' /\ LivePipelinesAreSold'
  BY <1>1, SinkMoves
<1>4. \A e \in Deployments \ {d} : Attended(e)' <=> Attended(e)
  BY <1>1, <1>2 DEF Attended
<1>5. ASSUME NEW a \in Approvals
      PROVE  ApprovalFollowsRow(a)'
  <2>1. ApprovalFollowsRow(a)
    BY DEF Inv, DeployInv
  <2>2. approval[a].pc = "start" => approval[a].d \in Deployments \ {d}
    BY <1>2, <2>1 DEF ApprovalFollowsRow, BeforeRow, Created
  <2> QED BY <1>1, <1>2, <2>1, <2>2 DEF ApprovalFollowsRow
<1>6. SinksHaveRows'
  <2>1. \A e \in Deployments : Attended(e)' => e \in Created'
    BY <1>1, <1>2, <1>4 DEF Inv, DeployInv, SinksHaveRows
  <2>2. \A e \in Deployments : child[e] # "running" => child'[e] # "running"
    BY <1>2
  <2>3. stopWrites \subseteq Deployments /\ RowsWith("STOPPED")' = RowsWith("STOPPED")
    BY <1>1 DEF Inv, OwnTyped, RowsWith
  <2> QED BY <1>1, <2>1, <2>2, <2>3
          DEF Inv, DeployInv, SinksHaveRows, StoppedHasNoSink, RowsWith
<1>7. DownIsQuiet'
  <2>1. Attended(d)
    BY <1>2 DEF Attended
  <2> QED BY <1>1, <1>2, <1>4, <2>1 DEF Inv, DeployInv, DownIsQuiet
<1>8. BootFollowsRows'
  <2>1. boot.pc # "off" => child[d] # "told"
    BY DEF Inv, DeployInv, BootFollowsRows, DownIsQuiet
  <2>2. boot.pc # "off" => d \notin Waiting
    BY <1>2 DEF Inv, DeployInv, BootFollowsRows, Attended
  <2>3. CASE boot.pc = "off"
    BY <1>1, <2>3 DEF BootFollowsRows
  <2>4. CASE boot.pc # "off"
    <3>1. Waiting \subseteq Deployments \ {d} /\ Created \subseteq Deployments
      BY <2>2, <2>4 DEF Waiting, Inv, OwnTyped, Created
    <3> QED BY <1>1, <1>2, <1>4, <2>1, <2>4, <3>1, BootKept
  <2> QED BY <2>3, <2>4
<1>9. DeployInv'
  BY <1>3, <1>5, <1>6, <1>7, <1>8 DEF DeployInv
<1> QED BY <1>1, <1>2, <1>9 DEF Inv

LEMMA ExitMarksRowInv ==
  ASSUME Inv, NEW d \in Deployments, ExitMarksRow(d)
  PROVE  Inv'
<1>1. QueueTyped' /\ UNCHANGED <<pstate, packaged, phase, product, approval, child, exitPc,
                                 stopWrites, boot>>
  BY QueueUnchanged DEF Inv, ExitMarksRow, qvars
<1>2. d \in exitRow /\ d \in Created /\ exitRow' = exitRow \ {d} /\ Attended(d)
  BY DEF ExitMarksRow, Inv, DeployInv, SinksHaveRows, Attended
<1>3. /\ Created' = Created /\ deployment' \in [Deployments -> RowRecord]
      /\ deployment'[d].status = "FAILED"
      /\ deployment'[d].p = deployment[d].p /\ deployment'[d].v = deployment[d].v
      /\ \A e \in Deployments \ {d} : deployment'[e] = deployment[e]
  BY <1>2, RowsKept, StatusSet DEF ExitMarksRow, StatusAfterExit, DeploymentStatus, Inv, OwnTyped
<1>4. OwnTyped'
  BY <1>1, <1>2, <1>3 DEF Inv, OwnTyped
<1>5. RowsAreNumbered' /\ RowsArePackaged' /\ RowsAreTheirOwn' /\ LivePipelinesAreSold'
  BY <1>1, <1>3, SinkMoves
<1>6. \A e \in Deployments : Attended(e)' => Attended(e)
  BY <1>1, <1>2 DEF Attended
<1>7. ASSUME NEW a \in Approvals
      PROVE  ApprovalFollowsRow(a)'
  <2>1. ApprovalFollowsRow(a)
    BY DEF Inv, DeployInv
  <2>2. approval[a].pc = "start" => approval[a].d \in Deployments \ {d}
    BY <1>2, <2>1 DEF ApprovalFollowsRow, BeforeRow, Created
  <2> QED BY <1>1, <1>2, <1>3, <2>1, <2>2 DEF ApprovalFollowsRow
<1>8. SinksHaveRows'
  <2>1. RowsWith("STOPPED")' \subseteq RowsWith("STOPPED")
    BY <1>3 DEF RowsWith
  <2> QED BY <1>1, <1>3, <1>6, <2>1 DEF Inv, DeployInv, SinksHaveRows, StoppedHasNoSink
<1>9. DownIsQuiet'
  BY <1>1, <1>6 DEF Inv, DeployInv, DownIsQuiet
<1>10. BootFollowsRows'
  <2>1. CASE boot.pc = "off"
    BY <1>1, <2>1 DEF BootFollowsRows
  <2>2. CASE boot.pc # "off"
    <3>1. Waiting \subseteq Deployments \ {d} /\ Created \subseteq Deployments
      BY <1>2, <2>2 DEF Waiting, Inv, OwnTyped, Created, DeployInv, BootFollowsRows
    <3> QED BY <1>1, <1>3, <1>6, <2>2, <3>1, BootKept
  <2> QED BY <2>1, <2>2
<1>11. DeployInv'
  BY <1>5, <1>7, <1>8, <1>9, <1>10 DEF DeployInv
<1> QED BY <1>1, <1>4, <1>11 DEF Inv

\* #markPipelineFailed: it moves on only while its pipeline is LIVE or DEPLOYING.
LEMMA ExitPcInv ==
  ASSUME Inv, NEW d \in Deployments, ExitSnapshot(d) \/ ExitRead(d) \/ ExitWrite(d)
  PROVE  Inv'
<1> USE DEF rows
<1>1. UNCHANGED <<packaged, phase, deployment, product, approval, child, exitRow, stopWrites, boot>>
  BY DEF ExitSnapshot, ExitRead, ExitWrite, qvars, UnchangedButState
<1>2. exitPc[d] # "none" /\ d \in Created /\ deployment[d].p \in Pipelines
  <2>1. exitPc[d] # "none"
    BY DEF ExitSnapshot, ExitRead, ExitWrite
  <2>2. d \in Created
    BY <2>1 DEF Inv, DeployInv, SinksHaveRows, Attended
  <2> QED BY <2>1, <2>2, PackagedIsReal DEF Inv, DeployInv, RowsArePackaged
<1>3. /\ QueueTyped'
      /\ \A p \in Pipelines : pstate'[p] = "LIVE" => pstate[p] = "LIVE"
      /\ exitPc'[d] = "none" => pstate'[deployment[d].p] # "LIVE"
  <2>1. CASE ExitSnapshot(d)
    BY <2>1, QueueUnchanged DEF ExitSnapshot, qvars, FailableStates, Inv, OwnTyped
  <2>2. CASE ExitRead(d)
    BY <2>2, QueueUnchanged DEF ExitRead, qvars, Inv, OwnTyped
  <2>3. CASE ExitWrite(d)
    <3>1. /\ QueueTyped' /\ pstate'[deployment[d].p] = "DEPLOYMENT_FAILED"
          /\ \A q \in Pipelines \ {deployment[d].p} : pstate'[q] = pstate[q]
      BY <1>2, <2>3, StateWritten DEF ExitWrite, Inv, PipelineState
    <3> QED BY <3>1
  <2> QED BY <2>1, <2>2, <2>3
<1>4. /\ exitPc' \in [Deployments -> {"none", "snapshot", "assert", "write"}]
      /\ \A e \in Deployments \ {d} : exitPc'[e] = exitPc[e]
  BY DEF ExitSnapshot, ExitRead, ExitWrite, Inv, OwnTyped
<1>5. OwnTyped'
  BY <1>1, <1>4 DEF Inv, OwnTyped
<1>6. Created' = Created
  BY <1>1 DEF Created
<1>7. RowsAreNumbered' /\ RowsArePackaged' /\ RowsAreTheirOwn' /\ LivePipelinesAreSold'
  BY <1>1, <1>3, <1>6, SinkMoves
<1>8. \A e \in Deployments : Attended(e)' => Attended(e)
  BY <1>1, <1>2, <1>4 DEF Attended
<1>9. \A a \in Approvals : ApprovalFollowsRow(a)'
  BY <1>1, <1>6 DEF Inv, DeployInv, ApprovalFollowsRow
<1>10. SinksHaveRows' /\ DownIsQuiet'
  BY <1>1, <1>6, <1>8 DEF Inv, DeployInv, SinksHaveRows, StoppedHasNoSink, RowsWith, DownIsQuiet
<1>11. BootFollowsRows'
  <2>1. CASE boot.pc = "off"
    BY <1>1, <2>1 DEF BootFollowsRows
  <2>2. CASE boot.pc # "off"
    <3>1. Waiting \subseteq Deployments /\ Created \subseteq Deployments
      BY DEF Waiting, Inv, OwnTyped, Created
    <3>2. \A e \in Created :
            /\ child[e] = "running" \/ exitPc[e] # "none"
            /\ pstate'[deployment[e].p] = "LIVE"
            => child'[e] = "running" \/ exitPc'[e] # "none"
      BY <1>1, <1>3, <1>4, <3>1
    <3> QED BY <1>1, <1>3, <1>6, <1>8, <2>2, <3>1, <3>2, BootKept
  <2> QED BY <2>1, <2>2
<1>12. DeployInv'
  BY <1>7, <1>9, <1>10, <1>11 DEF DeployInv
<1> QED BY <1>3, <1>5, <1>12 DEF Inv

LEMMA StopWriteInv ==
  ASSUME Inv, NEW d \in Deployments, StopWrite(d)
  PROVE  Inv'
<1>1. QueueTyped' /\ UNCHANGED <<pstate, packaged, phase, product, approval, child, exitRow,
                                 exitPc, boot>>
  BY QueueUnchanged DEF Inv, StopWrite, qvars
<1>2. /\ d \in stopWrites /\ d \in Created /\ stopWrites' = stopWrites \ {d}
      /\ child[d] # "running"
  BY DEF StopWrite, Inv, DeployInv, SinksHaveRows, Attended
<1>3. /\ Created' = Created /\ deployment' \in [Deployments -> RowRecord]
      /\ deployment'[d].p = deployment[d].p /\ deployment'[d].v = deployment[d].v
      /\ \A e \in Deployments \ {d} : deployment'[e] = deployment[e]
  BY <1>2, RowsKept, StatusSet DEF StopWrite, DeploymentStatus, Inv, OwnTyped
<1>4. OwnTyped'
  BY <1>1, <1>2, <1>3 DEF Inv, OwnTyped
<1>5. RowsAreNumbered' /\ RowsArePackaged' /\ RowsAreTheirOwn' /\ LivePipelinesAreSold'
  BY <1>1, <1>3, SinkMoves
<1>6. \A e \in Deployments : Attended(e)' => Attended(e)
  BY <1>1, <1>2 DEF Attended
<1>7. ASSUME NEW a \in Approvals
      PROVE  ApprovalFollowsRow(a)'
  <2>1. ApprovalFollowsRow(a)
    BY DEF Inv, DeployInv
  <2>2. approval[a].pc = "start" => approval[a].d \in Deployments \ {d}
    BY <1>2, <2>1 DEF ApprovalFollowsRow, BeforeRow, Created
  <2> QED BY <1>1, <1>2, <1>3, <2>1, <2>2 DEF ApprovalFollowsRow
<1>8. SinksHaveRows'
  <2>1. RowsWith("STOPPED")' \subseteq RowsWith("STOPPED") \cup {d}
    BY <1>3 DEF RowsWith
  <2> QED BY <1>1, <1>2, <1>3, <1>6, <2>1 DEF Inv, DeployInv, SinksHaveRows, StoppedHasNoSink
<1>9. phase # "down" /\ boot.pc = "off"
  BY <1>2 DEF Inv, DeployInv, DownIsQuiet, BootFollowsRows
<1>10. DownIsQuiet' /\ BootFollowsRows'
  BY <1>1, <1>9 DEF DownIsQuiet, BootFollowsRows
<1>11. DeployInv'
  BY <1>5, <1>7, <1>8, <1>10 DEF DeployInv
<1> QED BY <1>1, <1>4, <1>11 DEF Inv

LEMMA SinkStepInv ==
  ASSUME Inv, NEW d \in Deployments, SinkStep(d)
  PROVE  Inv'
<1>1. CASE ExitRejects(d)
  <2>1. /\ QueueTyped' /\ OwnTyped' /\ packaged \subseteq packaged' /\ phase' = "down"
    BY <1>1, DeathOfQueue, AbandonTyped DEF ExitRejects, Inv, Proved!KeepsToBuilds
  <2> QED BY <1>1, <2>1, DeathInv DEF ExitRejects, Inv
<1> QED BY <1>1, SinkClosesInv, ExitMarksRowInv, ExitPcInv, StopWriteInv DEF SinkStep

-----------------------------------------------------------------------------
(* The inductive invariant, one lemma per action: the process.             *)

LEMMA ShutdownInv ==
  ASSUME Inv, Shutdown
  PROVE  Inv'
<1> USE DEF rows
<1>1. QueueTyped' /\ UNCHANGED <<pstate, packaged, deployment, product, approval, exitRow, exitPc,
                                 boot, Created, Undeployed>>
  BY LifeOfQueue DEF Shutdown, Inv, Queue!Shutdown, Queue!db, Queue!runRows, Created, Undeployed
<1>2. phase = "up" /\ phase' = "stopping" /\ boot.pc = "off"
  BY DEF Shutdown, Queue!Shutdown, Inv, DeployInv, BootFollowsRows
<1>3. /\ child' \in [Deployments -> {"none", "told"}]
      /\ \A d \in Deployments : child'[d] # "none" <=> child[d] # "none"
      /\ \A d \in Deployments : d \in stopWrites' <=> child[d] = "running"
      /\ stopWrites' \subseteq Deployments
  <2>1. \A d \in Deployments : /\ child[d] \in {"none", "running", "told"}
                               /\ Stopped(d) \in {"none", "told"}
                               /\ Stopped(d) # "none" <=> child[d] # "none"
    BY DEF Stopped, Inv, OwnTyped
  <2>2. child' = [d \in Deployments |-> Stopped(d)] /\ stopWrites' = Running
    BY DEF Shutdown
  <2> QED BY <2>1, <2>2 DEF Running
<1>4. OwnTyped'
  BY <1>1, <1>3 DEF Inv, OwnTyped
<1>5. RowsAreNumbered' /\ RowsArePackaged' /\ RowsAreTheirOwn'
  BY <1>1 DEF Inv, DeployInv, RowsAreNumbered, RowsArePackaged, RowsAreTheirOwn
<1>6. ASSUME NEW a \in Approvals
      PROVE  ApprovalFollowsRow(a)'
  <2>1. ApprovalFollowsRow(a)
    BY DEF Inv, DeployInv
  <2>2. approval[a].pc = "start" => approval[a].d \in Deployments
    BY <2>1 DEF ApprovalFollowsRow, BeforeRow, Created
  <2> QED BY <1>1, <1>3, <2>1, <2>2 DEF ApprovalFollowsRow
<1>7. SinksHaveRows'
  <2>1. \A d \in Deployments : Attended(d)' => Attended(d)
    BY <1>1, <1>3 DEF Attended
  <2>2. RowsWith("STOPPED")' \subseteq Deployments
    BY <1>1 DEF RowsWith
  <2>3. \A d \in Deployments : child'[d] # "running"
    BY <1>3
  <2> QED BY <1>1, <1>3, <2>1, <2>2, <2>3 DEF Inv, DeployInv, SinksHaveRows, StoppedHasNoSink
<1>8. DownIsQuiet' /\ BootFollowsRows'
  BY <1>1, <1>2 DEF DownIsQuiet, BootFollowsRows
<1>9. LivePipelinesAreSold'
  BY <1>1, <1>2 DEF Inv, DeployInv, LivePipelinesAreSold, LivePipelines
<1>10. DeployInv'
  BY <1>5, <1>6, <1>7, <1>8, <1>9 DEF DeployInv
<1> QED BY <1>1, <1>4, <1>10 DEF Inv

LEMMA ExitInv ==
  ASSUME Inv, Exit
  PROVE  Inv'
<1> USE DEF dvars, rows, sinks
<1>1. QueueTyped' /\ UNCHANGED <<pstate, packaged, deployment, product, approval, child, exitRow,
                                 exitPc, stopWrites, boot, Created, Undeployed>>
  BY LifeOfQueue DEF Exit, Inv, Queue!Exit, Queue!db, Queue!runRows, Created, Undeployed
<1>2. phase = "stopping" /\ phase' = "down" /\ boot.pc = "off"
  BY DEF Exit, Queue!Exit, Inv, DeployInv, BootFollowsRows
<1>3. OwnTyped'
  BY <1>1 DEF Inv, OwnTyped
<1>4. /\ RowsAreNumbered' /\ RowsArePackaged' /\ RowsAreTheirOwn'
      /\ \A a \in Approvals : ApprovalFollowsRow(a)'
  BY <1>1
  DEF Inv, DeployInv, RowsAreNumbered, RowsArePackaged, RowsAreTheirOwn, ApprovalFollowsRow
<1>5. SinksHaveRows'
  BY <1>1 DEF Inv, DeployInv, SinksHaveRows, StoppedHasNoSink, RowsWith, Attended
<1>6. DownIsQuiet' /\ BootFollowsRows' /\ LivePipelinesAreSold'
  BY <1>1, <1>2 DEF Exit, DownIsQuiet, BootFollowsRows, LivePipelinesAreSold, Attended
<1>7. DeployInv'
  BY <1>4, <1>5, <1>6 DEF DeployInv
<1> QED BY <1>1, <1>3, <1>7 DEF Inv

LEMMA DeathOfProcessInv ==
  ASSUME Inv, Crash \/ BootFails
  PROVE  Inv'
<1>1. QueueTyped' /\ OwnTyped' /\ packaged \subseteq packaged' /\ phase' = "down" /\ Abandon
  <2>1. CASE Crash
    BY <2>1, LifeOfQueue, AbandonTyped DEF Crash, Inv, Proved!KeepsToBuilds, Queue!Crash
  <2>2. CASE BootFails
    BY <2>2, QueueUnchanged, AbandonTyped
    DEF BootFails, Inv, DeployInv, BootFollowsRows, qvars
  <2> QED BY <2>1, <2>2
<1> QED BY <1>1, DeathInv DEF Inv

LEMMA BootStartInv ==
  ASSUME Inv, BootStart
  PROVE  Inv'
<1> USE DEF sinks
<1>1. QueueTyped' /\ UNCHANGED <<pstate, packaged, phase, deployment, approval, child, exitRow,
                                 exitPc, stopWrites, Created, Undeployed>>
  BY QueueUnchanged DEF BootStart, Inv, qvars, Created, Undeployed
<1>2. /\ phase = "down" /\ boot.pc = "off" /\ product' = product \cup LivePipelines
      /\ boot' = [pc |-> "spawn", todo |-> RowsWith("LIVE")]
      /\ boot'.pc = "spawn" /\ boot'.todo = RowsWith("LIVE")
  BY DEF BootStart, NotBooting, LiveDeployments
<1>3. RowsWith("LIVE") \subseteq Created /\ Created \subseteq Deployments
  <2>1. "LIVE" # "ABSENT"
    OBVIOUS
  <2> QED BY <2>1 DEF RowsWith, Created
<1>4. OwnTyped'
  BY <1>1, <1>2, <1>3 DEF Inv, OwnTyped, LivePipelines
<1>5. /\ RowsAreNumbered' /\ RowsArePackaged' /\ RowsAreTheirOwn'
      /\ \A a \in Approvals : ApprovalFollowsRow(a)'
  BY <1>1
  DEF Inv, DeployInv, RowsAreNumbered, RowsArePackaged, RowsAreTheirOwn, ApprovalFollowsRow
<1>6. SinksHaveRows'
  BY <1>1 DEF Inv, DeployInv, SinksHaveRows, StoppedHasNoSink, RowsWith, Attended
<1>7. DownIsQuiet' /\ LivePipelinesAreSold'
  BY <1>1, <1>2 DEF Inv, DeployInv, DownIsQuiet, LivePipelinesAreSold, LivePipelines
<1>8. BootFollowsRows'
  <2>1. \A d \in Deployments : ~Attended(d)'
    BY <1>1, <1>2 DEF Inv, DeployInv, DownIsQuiet, Attended
  <2>2. Waiting' = RowsWith("LIVE") /\ Started' = {} /\ RowsWith("LIVE")' = RowsWith("LIVE")
    BY <1>1, <1>2 DEF Waiting, Started, RowsWith
  <2>3. \A d \in RowsWith("LIVE") : deployment[d].status = "LIVE"
    BY DEF RowsWith
  <2> QED BY <1>1, <1>2, <1>3, <2>1, <2>2, <2>3 DEF BootFollowsRows
<1>9. DeployInv'
  BY <1>5, <1>6, <1>7, <1>8 DEF DeployInv
<1> QED BY <1>1, <1>4, <1>9 DEF Inv

LEMMA BootSpawnInv ==
  ASSUME Inv, BootSpawn
  PROVE  Inv'
<1> DEFINE m == Min(boot.todo)
<1> USE DEF rows
<1>1. QueueTyped' /\ UNCHANGED <<pstate, packaged, phase, deployment, product, approval, exitRow,
                                 exitPc, stopWrites, Created, Undeployed>>
  BY QueueUnchanged DEF BootSpawn, Inv, qvars, Created, Undeployed
<1>2. /\ boot.pc = "spawn" /\ m \in boot.todo /\ m \in Deployments /\ m \in Created
      /\ phase = "down" /\ deployment[m].status = "LIVE"
  BY MinOfTodo DEF BootSpawn, Inv, DeployInv, BootFollowsRows, Waiting
<1>3. boot'.pc = "mark" /\ boot'.todo = boot.todo
  BY DEF BootSpawn, Inv, OwnTyped
<1>4. child'[m] = "running" /\ \A d \in Deployments \ {m} : child'[d] = child[d]
  BY <1>2 DEF BootSpawn, Inv, OwnTyped
<1>5. OwnTyped'
  <2>1. child' = [child EXCEPT ![m] = "running"] /\ boot' = [boot EXCEPT !.pc = "mark"]
    BY DEF BootSpawn
  <2> HIDE DEF m
  <2> QED BY <1>1, <2>1 DEF Inv, OwnTyped
<1>6. Waiting = boot.todo /\ Waiting' = boot.todo \ {m} /\ Started' = {m}
  BY <1>2, <1>3 DEF Waiting, Started
<1> HIDE DEF m
<1>7. RowsAreNumbered' /\ RowsArePackaged' /\ RowsAreTheirOwn'
  BY <1>1 DEF Inv, DeployInv, RowsAreNumbered, RowsArePackaged, RowsAreTheirOwn
<1>8. \A d \in Deployments \ {m} : Attended(d)' <=> Attended(d)
  BY <1>1, <1>4 DEF Attended
<1>9. \A a \in Approvals : ApprovalFollowsRow(a)'
  BY <1>1, <1>2 DEF Inv, DeployInv, DownIsQuiet, ApprovalFollowsRow
<1>10. SinksHaveRows'
  <2>1. stopWrites' = {} /\ \A d \in Deployments : Attended(d)' => d \in Created'
    BY <1>1, <1>2, <1>8 DEF Inv, DeployInv, DownIsQuiet, SinksHaveRows
  <2>2. RowsWith("STOPPED")' \subseteq RowsWith("STOPPED") \ {m}
    BY <1>1, <1>2 DEF RowsWith
  <2>3. StoppedHasNoSink'
    BY <1>4, <2>2 DEF Inv, DeployInv, SinksHaveRows, StoppedHasNoSink, RowsWith
  <2> QED BY <2>1, <2>3 DEF SinksHaveRows
<1>11. DownIsQuiet'
  BY <1>1, <1>2, <1>3, <1>4 DEF Inv, DeployInv, DownIsQuiet
<1>12. BootFollowsRows'
  <2>1. \A d \in Waiting' : deployment'[d].status = "LIVE" /\ ~Attended(d)'
    <3>1. boot.todo \subseteq Deployments
      BY DEF Inv, OwnTyped
    <3> QED BY <1>1, <1>2, <1>6, <1>8, <3>1 DEF Inv, DeployInv, BootFollowsRows
  <2>2. ASSUME NEW d \in ((RowsWith("LIVE") \cup Started) \ Waiting)',
               pstate'[deployment'[d].p] = "LIVE"
        PROVE  child'[d] = "running" \/ exitPc'[d] # "none"
    <3>1. CASE d = m
      BY <1>4, <3>1
    <3>2. CASE d # m
      <4>1. d \in RowsWith("LIVE") \ Waiting /\ d \in Deployments
        BY <1>1, <1>6, <3>2 DEF RowsWith
      <4> QED BY <1>1, <1>2, <1>4, <2>2, <3>2, <4>1 DEF Inv, DeployInv, BootFollowsRows
    <3> QED BY <3>1, <3>2
  <2>3. phase' = "down" /\ boot'.todo \subseteq Created' /\ boot'.todo # {}
    BY <1>1, <1>2, <1>3 DEF Inv, DeployInv, BootFollowsRows
  <2> QED BY <2>1, <2>2, <2>3 DEF BootFollowsRows
<1>13. LivePipelinesAreSold'
  BY <1>1, <1>2 DEF Inv, DeployInv, LivePipelinesAreSold, LivePipelines
<1>14. DeployInv'
  BY <1>7, <1>9, <1>10, <1>11, <1>12, <1>13 DEF DeployInv
<1> QED BY <1>1, <1>5, <1>14 DEF Inv

LEMMA BootMarkInv ==
  ASSUME Inv, BootMark
  PROVE  Inv'
<1> DEFINE m == Min(boot.todo)
<1> USE DEF sinks
<1>1. QueueTyped' /\ UNCHANGED <<pstate, packaged, phase, product, approval, child, exitRow,
                                 exitPc, stopWrites>>
  BY QueueUnchanged DEF BootMark, Inv, qvars
<1>2. /\ boot.pc = "mark" /\ m \in boot.todo /\ m \in Deployments /\ m \in Created
      /\ phase = "down"
  BY MinOfTodo DEF BootMark, Inv, DeployInv, BootFollowsRows
<1>3. boot' = [pc |-> "spawn", todo |-> boot.todo \ {m}] /\ SetStatus(m, "LIVE")
  BY DEF BootMark
<1>4. Waiting = boot.todo \ {m} /\ Started = {m} /\ Waiting' = boot.todo \ {m} /\ Started' = {}
  BY <1>2, <1>3 DEF Waiting, Started
<1> HIDE DEF m
<1>5. boot'.pc = "spawn" /\ boot'.todo = boot.todo \ {m}
  BY <1>3
<1>6. /\ Created' = Created /\ deployment' \in [Deployments -> RowRecord]
      /\ deployment'[m].status = "LIVE"
      /\ deployment'[m].p = deployment[m].p /\ deployment'[m].v = deployment[m].v
      /\ \A e \in Deployments \ {m} : deployment'[e] = deployment[e]
  BY <1>2, <1>3, RowsKept, StatusSet DEF DeploymentStatus, Inv, OwnTyped
<1>7. OwnTyped'
  BY <1>1, <1>3, <1>6 DEF Inv, OwnTyped
<1>8. RowsAreNumbered' /\ RowsArePackaged' /\ RowsAreTheirOwn'
  <2>1. Undeployed' = Undeployed
    BY <1>1 DEF Undeployed
  <2>2. RowsAreNumbered'
    BY <1>6, <2>1, NumbersKept DEF Inv, DeployInv
  <2>3. RowsArePackaged'
    BY <1>1, <1>6 DEF Inv, DeployInv, RowsArePackaged, Created
  <2> QED BY <1>1, <2>2, <2>3 DEF Inv, DeployInv, RowsAreTheirOwn
<1>9. \A d \in Deployments : Attended(d)' <=> Attended(d)
  BY <1>1 DEF Attended
<1>10. \A a \in Approvals : ApprovalFollowsRow(a)'
  BY <1>1, <1>2 DEF Inv, DeployInv, DownIsQuiet, ApprovalFollowsRow
<1>11. SinksHaveRows'
  <2>1. RowsWith("STOPPED")' \subseteq RowsWith("STOPPED")
    BY <1>6 DEF RowsWith
  <2> QED BY <1>1, <1>6, <1>9, <2>1 DEF Inv, DeployInv, SinksHaveRows, StoppedHasNoSink
<1>12. DownIsQuiet' /\ LivePipelinesAreSold'
  BY <1>1, <1>2, <1>5
  DEF Inv, DeployInv, DownIsQuiet, LivePipelinesAreSold, LivePipelines
<1>13. BootFollowsRows'
  <2>1. \A d \in Waiting' : deployment'[d].status = "LIVE" /\ ~Attended(d)'
    <3>1. boot.todo \subseteq Deployments
      BY DEF Inv, OwnTyped
    <3> QED BY <1>1, <1>2, <1>4, <1>6, <1>9, <3>1 DEF Inv, DeployInv, BootFollowsRows
  <2>2. ASSUME NEW d \in ((RowsWith("LIVE") \cup Started) \ Waiting)',
               pstate'[deployment'[d].p] = "LIVE"
        PROVE  child'[d] = "running" \/ exitPc'[d] # "none"
    <3>1. d \in (RowsWith("LIVE") \cup Started) \ Waiting /\ deployment'[d].p = deployment[d].p
      BY <1>4, <1>6 DEF RowsWith
    <3> QED BY <1>1, <1>2, <2>2, <3>1 DEF Inv, DeployInv, BootFollowsRows
  <2>3. phase' = "down" /\ boot'.todo \subseteq Created' /\ boot'.pc # "mark"
    BY <1>1, <1>2, <1>5, <1>6 DEF Inv, DeployInv, BootFollowsRows
  <2> QED BY <2>1, <2>2, <2>3 DEF BootFollowsRows
<1>14. DeployInv'
  BY <1>8, <1>10, <1>11, <1>12, <1>13 DEF DeployInv
<1> QED BY <1>1, <1>7, <1>14 DEF Inv

LEMMA ListenInv ==
  ASSUME Inv, Listen
  PROVE  Inv'
<1> USE DEF rows, sinks, Proved!KeepsToBuilds
<1>1. /\ QueueTyped' /\ packaged \subseteq packaged'
      /\ \A p \in Pipelines : pstate'[p] = "LIVE" => pstate[p] = "LIVE"
      /\ UNCHANGED <<deployment, product, approval, sinks>> /\ phase' = "up"
  BY LifeOfQueue DEF Listen, Inv, Queue!Restart
<1>2. phase = "down" /\ boot.pc = "spawn" /\ boot'.pc = "off"
  BY DEF Listen, NotBooting, Inv, DeployInv, BootFollowsRows
<1>3. OwnTyped'
  BY <1>1 DEF Listen, NotBooting, Inv, OwnTyped
<1>4. UNCHANGED <<Created, Undeployed>>
  BY <1>1 DEF Created, Undeployed
<1>5. RowsAreNumbered' /\ RowsArePackaged' /\ RowsAreTheirOwn'
  BY <1>1, <1>4 DEF Inv, DeployInv, RowsAreNumbered, RowsArePackaged, RowsAreTheirOwn
<1>6. \A a \in Approvals : ApprovalFollowsRow(a)'
  BY <1>1, <1>2, <1>4 DEF Inv, DeployInv, DownIsQuiet, ApprovalFollowsRow
<1>7. SinksHaveRows'
  BY <1>1, <1>4 DEF Inv, DeployInv, SinksHaveRows, StoppedHasNoSink, RowsWith, Attended
<1>8. DownIsQuiet' /\ BootFollowsRows'
  BY <1>1, <1>2 DEF DownIsQuiet, BootFollowsRows
<1>9. LivePipelinesAreSold'
  BY <1>1, <1>2 DEF Inv, DeployInv, LivePipelinesAreSold, LivePipelines
<1>10. DeployInv'
  BY <1>5, <1>6, <1>7, <1>8, <1>9 DEF DeployInv
<1> QED BY <1>1, <1>3, <1>10 DEF Inv

LEMMA QueueStepInv ==
  ASSUME Inv, QueueStep
  PROVE  Inv' /\ phase' \in {phase, "down"} /\ SinksFollow
<1>1. /\ QueueTyped' /\ Proved!KeepsToBuilds /\ phase' \in {phase, "down"}
      /\ SinksFollow
  <2>1. CASE (\E c \in Clients : Queue!ClientStep(c)) \/ Queue!Poll \/ Queue!WorkerStep
    BY <2>1, HandlersOfQueue DEF QueueStep, Inv
  <2>2. CASE UNCHANGED qvars
    BY <2>2, QueueUnchanged DEF QueueStep, Inv, qvars
  <2> QED BY <2>1, <2>2 DEF QueueStep, RequestStep, PollStep
<1>2. CASE phase' = "down"
  BY <1>1, <1>2, DeathInv, AbandonTyped DEF Inv, SinksFollow, Proved!KeepsToBuilds
<1>3. CASE phase' # "down"
  <2>1. UNCHANGED dvars
    BY <1>1, <1>3 DEF SinksFollow
  <2>2. DeployInv'
    BY <1>1, <1>3, <2>1, QueueMoves
  <2>3. OwnTyped'
    BY <2>1 DEF Inv, OwnTyped, dvars, rows, sinks
  <2> QED BY <1>1, <2>2, <2>3 DEF Inv
<1> QED BY <1>1, <1>2, <1>3

LEMMA StutterInv ==
  ASSUME Inv, UNCHANGED vars
  PROVE  Inv'
<1>1. QueueTyped' /\ Proved!KeepsToBuilds
  BY QueueUnchanged DEF vars, Inv
<1>2. DeployInv'
  BY <1>1, QueueMoves DEF vars, qvars
<1> QED BY <1>1, <1>2 DEF Inv, OwnTyped, vars, dvars, rows, sinks

LEMMA NextInv == Inv /\ [Next]_vars => Inv'
<1> SUFFICES ASSUME Inv, [Next]_vars PROVE Inv'
  OBVIOUS
<1>1. CASE QueueStep
  BY <1>1, QueueStepInv
<1>2. CASE \E a \in Approvals : ApprovalStep(a)
  BY <1>2, ApprovalStepInv
<1>3. CASE \E d \in Deployments : SinkStep(d)
  BY <1>3, SinkStepInv
<1>4. CASE ProcessStep
  BY <1>4, ShutdownInv, ExitInv, DeathOfProcessInv, BootStartInv, BootSpawnInv, BootMarkInv,
     ListenInv
  DEF ProcessStep
<1>5. CASE UNCHANGED vars
  BY <1>5, StutterInv
<1> QED BY <1>1, <1>2, <1>3, <1>4, <1>5 DEF Next

-----------------------------------------------------------------------------
(* Theorems.                                                               *)

LEMMA AlwaysInv == Spec => []Inv
<1> QED BY InitInv, NextInv, PTL DEF Spec

\* Rows, approvals, sinks and the start of the process fit together in every reachable
\* state: DeployInv together with the types is inductive.
THEOREM DeploymentFitsTogether == Spec => [](TypeOK /\ DeployInv)
<1>1. Inv => TypeOK /\ DeployInv
  BY TypeOKIsBoth DEF Inv
<1> QED BY <1>1, AlwaysInv, PTL

\* Every variable, also those of the build queue, keeps its type whatever approvals, sinks
\* and restarts do to the rows it shares.
THEOREM DeploymentTypeCorrect == Spec => []TypeOK
<1>1. Inv => TypeOK
  BY TypeOKIsBoth DEF Inv
<1> QED BY <1>1, AlwaysInv, PTL

\* A deployment recorded as STOPPED has no sink but one on its way out: stop() tells the
\* child before it starts the update, and nothing starts a sink for that row again.
THEOREM StoppedStaysStopped == Spec => []StoppedHasNoSink
<1>1. Inv => StoppedHasNoSink
  BY DEF Inv, DeployInv, SinksHaveRows
<1> QED BY <1>1, AlwaysInv, PTL

\* A pipeline that is LIVE, and that no approval is working on, is sold: the product is
\* there from the approval or from the start after a crash between its two writes.
THEOREM SoldIsServed == Spec => []LiveHasProduct
<1>1. Inv => LiveHasProduct
  BY DEF Inv, DeployInv, LivePipelinesAreSold, LivePipelines, LiveHasProduct, Settled
<1> QED BY <1>1, AlwaysInv, PTL

-----------------------------------------------------------------------------
(* Action properties: what starts a sink, and what lets the server listen. *)

\* d gets a sink, which it must not have had.
StartsSink(d) == child[d] # "running" /\ child'[d] = "running"

LEMMA OnlySpawnsStart ==
  ASSUME Inv, [Next]_vars, NEW d \in Deployments, StartsSink(d)
  PROVE  \/ \E a \in Approvals : SpawnSink(a) /\ d = approval[a].d
         \/ BootSpawn /\ d = Min(boot.todo)
<1> USE DEF StartsSink, rows, sinks
<1>1. child' # child
  OBVIOUS
<1>2. ASSUME Abandon PROVE FALSE
  BY <1>2 DEF Abandon
<1>3. ~QueueStep /\ ~UNCHANGED vars
  BY <1>1, <1>2 DEF QueueStep, SinksFollow, vars, dvars
<1>4. CASE \E a \in Approvals : ApprovalStep(a)
  <2>1. PICK a \in Approvals : ApprovalStep(a)
    BY <1>4
  <2>2. SpawnSink(a)
    BY <1>1, <2>1 DEF ApprovalStep, RequestApproval, ApproveRead, ApproveWrite, CreateDeployment,
      CreateFails, StartFails, MarkLive, LiveRead, LiveWrite, UpsertProduct, MarkFailed,
      FailedRead, FailedWrite
  <2>3. d = approval[a].d
    BY <2>2 DEF SpawnSink, Inv, OwnTyped
  <2> QED BY <2>2, <2>3
<1>5. ASSUME NEW e \in Deployments, SinkStep(e) PROVE FALSE
  <2>1. SinkCloses(e)
    BY <1>1, <1>2, <1>5 DEF SinkStep, ExitMarksRow, ExitSnapshot, ExitRead, ExitRejects,
      ExitWrite, StopWrite
  <2> QED BY <2>1 DEF SinkCloses, Inv, OwnTyped
<1>6. CASE ProcessStep
  <2>1. ~Shutdown
    BY DEF Shutdown, Stopped
  <2>2. BootSpawn
    BY <1>1, <1>2, <1>6, <2>1 DEF ProcessStep, Exit, Crash, BootStart, BootMark, BootFails,
      Listen, dvars
  <2>3. d = Min(boot.todo)
    BY <2>2 DEF BootSpawn, Inv, OwnTyped
  <2> QED BY <2>2, <2>3
<1> QED BY <1>3, <1>4, <1>5, <1>6 DEF Next

LEMMA StartedIsOpen ==
  ASSUME Inv, [Next]_vars, NEW d \in Deployments, StartsSink(d)
  PROVE  /\ child[d] = "none"
         /\ deployment[d].status \in {"STARTING", "LIVE"}
         /\ <<deployment[d].p, deployment[d].v>> \in packaged
<1>1. CASE \E a \in Approvals : SpawnSink(a) /\ d = approval[a].d
  <2>1. PICK a \in Approvals : SpawnSink(a) /\ d = approval[a].d
    BY <1>1
  <2>2. d \in Created /\ deployment[d].status = "STARTING" /\ child[d] = "none"
    BY <2>1 DEF SpawnSink, Inv, DeployInv, ApprovalFollowsRow, BeforeRow
  <2> QED BY <2>2 DEF Inv, DeployInv, RowsArePackaged
<1>2. CASE BootSpawn /\ d = Min(boot.todo)
  <2>1. d \in Waiting /\ d \in Created
    BY <1>2, MinOfTodo DEF BootSpawn, Waiting, Inv, DeployInv, BootFollowsRows
  <2>2. deployment[d].status = "LIVE" /\ child[d] = "none"
    BY <1>2, <2>1 DEF BootSpawn, Inv, DeployInv, BootFollowsRows, Attended
  <2> QED BY <2>1, <2>2 DEF Inv, DeployInv, RowsArePackaged
<1> QED BY <1>1, <1>2, OnlySpawnsStart

\* A sink is started for a packaged version whose deployment is STARTING or recorded as LIVE
\* and has no sink in this process yet: no approval and no restart revives one that failed
\* or was stopped, or starts a second one.
THEOREM SinksStartForOpenRows == Spec => SinkStartsForOpenRow
<1>1. Inv /\ [Next]_vars =>
        [\A d \in Deployments : child[d] # "running" /\ child'[d] = "running" =>
           /\ child[d] = "none"
           /\ deployment[d].status \in {"STARTING", "LIVE"}
           /\ <<deployment[d].p, deployment[d].v>> \in packaged]_vars
  BY StartedIsOpen DEF StartsSink
<1> QED BY <1>1, AlwaysInv, PTL DEF Spec, SinkStartsForOpenRow

LEMMA OnlyListenComesUp ==
  ASSUME Inv, [Next]_vars, phase = "down", phase' = "up"
  PROVE  Listen
<1>1. ~QueueStep
  BY QueueStepInv
<1>2. ~UNCHANGED qvars
  BY DEF qvars
<1>3. ASSUME NEW a \in Approvals, ApprovalStep(a) PROVE FALSE
  BY <1>2, <1>3 DEF ApprovalStep, RequestApproval, ApproveRead, ApproveWrite, CreateDeployment,
    CreateFails, SpawnSink, StartFails, MarkLive, LiveRead, LiveWrite, UpsertProduct, MarkFailed,
    FailedRead, FailedWrite, UnchangedButState
<1>4. ASSUME NEW d \in Deployments, SinkStep(d) PROVE FALSE
  BY <1>2, <1>4 DEF SinkStep, SinkCloses, ExitMarksRow, ExitSnapshot, ExitRead, ExitRejects,
    ExitWrite, StopWrite, UnchangedButState, Queue!Die
<1>5. ~Shutdown /\ ~Exit /\ ~Crash
  BY DEF Shutdown, Exit, Crash, Queue!Shutdown, Queue!Exit, Queue!Crash
<1>6. ~BootStart /\ ~BootSpawn /\ ~BootMark /\ ~BootFails
  BY <1>2 DEF BootStart, BootSpawn, BootMark, BootFails
<1> QED BY <1>1, <1>2, <1>3, <1>4, <1>5, <1>6 DEF Next, ProcessStep, vars

\* When the server starts to listen, a deployment recorded as LIVE whose pipeline is LIVE
\* has its sink or the handler of its exit at work, whatever went wrong at earlier starts:
\* the rows that waited have all had their turn.
THEOREM ServerStartsWithSinks == Spec => ListensWithSinks
<1>1. ASSUME Inv, [Next]_vars, phase = "down", phase' = "up", NEW d \in RowsWith("LIVE"),
             pstate[deployment[d].p] = "LIVE"
      PROVE  child[d] = "running" \/ exitPc[d] # "none"
  <2>1. boot.pc = "spawn" /\ boot.todo = {}
    BY <1>1, OnlyListenComesUp DEF Listen
  <2>2. Waiting = {}
    BY <2>1 DEF Waiting
  <2> QED BY <1>1, <2>1, <2>2 DEF Inv, DeployInv, BootFollowsRows
<1>2. Inv /\ [Next]_vars =>
        [phase = "down" /\ phase' = "up" =>
           \A d \in RowsWith("LIVE") :
             pstate[deployment[d].p] = "LIVE" => child[d] = "running" \/ exitPc[d] # "none"]_vars
  BY <1>1
<1> QED BY <1>2, AlwaysInv, PTL DEF Spec, ListensWithSinks
=============================================================================
