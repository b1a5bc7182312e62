----------------------------- MODULE BuildQueue -----------------------------
(***************************************************************************)
(* The build queue of the Prompt2API control plane: PostgreSQL rows, the   *)
(* HTTP handlers that queue, retry and cancel builds, and the one worker   *)
(* of the API process that claims a job and drives the substreams          *)
(* subprocess through BUILD, INFO, GRAPH and VALIDATION.                   *)
(*                                                                         *)
(* Every await of the code is a step boundary.  A store transition is a    *)
(* READ COMMITTED transaction that first reads the row and checks it, and  *)
(* later writes without looking again, so it is two steps here as well.    *)
(* Pipelines start with a recorded plan; planning and deployment are the   *)
(* subject of other modules.                                               *)
(***************************************************************************)
EXTENDS Naturals, PipelineStates

CONSTANTS Pipelines,    \* pipelines that reached PLAN_READY
          Clients,      \* HTTP requests that can be in flight together
          StartBlocks,  \* start blocks a specification or a retry may name
          MaxVersion,   \* bound: versions a pipeline can get
          MaxStops,     \* bound: shutdowns and crashes of the API process
          None          \* no pipeline, no start block, no target state, no job

ASSUME QueueAssumption ==
  /\ MaxVersion \in Nat \ {0}
  /\ MaxStops \in Nat
  /\ None \notin Pipelines
  /\ None \notin StartBlocks
  /\ None \notin PipelineState
  /\ None \notin Pipelines \X (1..MaxVersion)

VARIABLES
  \* rows of the control database
  pstate,         \* pipelines.state
  activeVersion,  \* pipelines.activeVersion
  specStart,      \* pipelines.spec.startBlock
  versionStart,   \* pipeline_versions.validationStartBlock, None: no such row
  packaged,       \* the versions whose packageHash is set
  run,            \* pipeline_runs.status by pipeline, version and stage
  older,          \* order by createdAt: the jobs waiting when a BUILD run was created
  \* the API process
  client,         \* handler of each request in flight
  worker,         \* BuildWorker
  phase,          \* "up", "stopping" (SIGTERM received) or "down"
  stops           \* shutdowns and crashes so far

runRows == <<run, older>>
db == <<pstate, activeVersion, specStart, versionStart, packaged, run, older>>
vars == <<db, client, worker, phase, stops>>

Versions == 1..MaxVersion
Stages == {"BUILD", "INFO", "GRAPH", "VALIDATION"}
FailureStates == {"BUILD_FAILED", "VALIDATION_FAILED"}
EndStatus == {"SUCCEEDED", "FAILED", "FAILED_INTERRUPTED", "CANCELLED"}
RunStatus == {"ABSENT", "PENDING", "RUNNING"} \cup EndStatus

ClientPc == {"idle", "saveSpec", "render", "enqueue", "respond",
             "abort", "cancelRuns", "assertCancel", "writeCancel"}
WorkerPc == {"idle", "claiming", "claimed", "assert", "write", "create", "prepare",
             "running", "finish", "check", "save", "catch"}

IdleClient == [pc |-> "idle", p |-> None, version |-> 0, start |-> None, older |-> {}]
IdleWorker == [pc |-> "idle", p |-> None, v |-> 0, stage |-> "BUILD", to |-> None,
               outcome |-> "ABSENT", aborted |-> FALSE, cancelled |-> FALSE]

Init ==
  /\ pstate = [p \in Pipelines |-> "PLAN_READY"]
  /\ activeVersion = [p \in Pipelines |-> 0]
  /\ specStart \in [Pipelines -> StartBlocks]
  /\ versionStart = [p \in Pipelines |-> [v \in Versions |-> None]]
  /\ packaged = {}
  /\ run = [p \in Pipelines |-> [v \in Versions |-> [s \in Stages |-> "ABSENT"]]]
  /\ older = [p \in Pipelines |-> [v \in Versions |-> {}]]
  /\ client = [c \in Clients |-> IdleClient]
  /\ worker = IdleWorker
  /\ phase = "up"
  /\ stops = 0
-----------------------------------------------------------------------------
(* Pieces shared by the handlers.                                          *)

Pending(p, v) == run[p][v]["BUILD"] = "PENDING"
PendingJobs == {j \in Pipelines \X Versions : Pending(j[1], j[2])}

Alive == phase # "down"

\* A pipeline whose worker slot can be aborted: the claim has returned.
Active == worker.pc \notin {"idle", "claiming", "claimed"}

\* AbortController.abort(): only the first call fires the event, and only a child
\* that is already running listens to it.
AbortJob ==
  worker' = IF Active /\ ~worker.aborted
            THEN [worker EXCEPT !.aborted = TRUE, !.cancelled = (worker.pc = "running")]
            ELSE worker

SetState(p, to) == pstate' = [pstate EXCEPT ![p] = to]
SetRun(p, v, s, status) == run' = [run EXCEPT ![p][v][s] = status]
Goto(c, pc) == client' = [client EXCEPT ![c].pc = pc]
Leave(c) == client' = [client EXCEPT ![c] = IdleClient]

\* The process is gone: every handler, timer and transaction in flight with it.
Die ==
  /\ phase' = "down"
  /\ client' = [c \in Clients |-> IdleClient]
  /\ worker' = IdleWorker
  /\ UNCHANGED <<db, stops>>
-----------------------------------------------------------------------------
(* POST /v1/pipelines/:id/build and /retry: PipelineService.queueBuild.    *)

\* A build is under way: the request is answered with the pipeline as it is.
QueuedOrBuilding == {"BUILD_QUEUED", "BUILDING", "VALIDATING"}

\* The snapshot read; b is the start block of a retry, None to keep the present one.
\* A state that allows no build ends the request with an error, without effect.
RequestBuild(c, p, b) ==
  /\ Alive
  /\ client[c].pc = "idle"
  /\ \/ /\ pstate[p] \in QueuedOrBuilding
        /\ Goto(c, "respond")
     \/ /\ CanTransition(pstate[p], "BUILD_QUEUED")
        /\ activeVersion[p] < MaxVersion
        /\ client' = [client EXCEPT ![c] =
             [pc |-> IF b = None THEN "render" ELSE "saveSpec",
              p |-> p,
              version |-> activeVersion[p] + 1,
              start |-> IF b = None THEN specStart[p] ELSE b,
              older |-> {}]]
  /\ UNCHANGED <<db, worker, phase, stops>>

\* updatePipelineSpec commits before anything else of the retry is known to work.
SaveSpec(c) ==
  /\ client[c].pc = "saveSpec"
  /\ specStart' = [specStart EXCEPT ![client[c].p] = client[c].start]
  /\ Goto(c, "render")
  /\ UNCHANGED <<pstate, activeVersion, versionStart, packaged, runRows, worker, phase, stops>>

\* Rendering the project or computing the stop block fails.
RenderFails(c) ==
  /\ client[c].pc = "render"
  /\ Leave(c)
  /\ UNCHANGED <<db, worker, phase, stops>>

\* enqueueBuild's checks on what its transaction read.
Enqueueable(p, version) ==
  /\ CanTransition(pstate[p], "BUILD_QUEUED")
  /\ version = activeVersion[p] + 1

\* enqueueBuild, first half: the reads, and the run row with its creation time, which
\* nobody sees before the commit.  Rows of overlapping transactions are milliseconds
\* apart, and ties are broken by a random id: their order is left open.
EnqueueRead(c) ==
  /\ client[c].pc = "render"
  /\ IF Enqueueable(client[c].p, client[c].version)
     THEN client' = [client EXCEPT ![c] = [@ EXCEPT !.pc = "enqueue", !.older = PendingJobs]]
     ELSE Leave(c)
  /\ UNCHANGED <<db, worker, phase, stops>>

\* Mutant: no unique key on (pipelineId, version).
NoVersionKey(p, version) == TRUE
\* The primary key (pipelineId, version) of pipeline_versions.
VersionFree(p, version) == versionStart[p][version] = None

\* enqueueBuild, second half: write pipeline, version and run and commit.
EnqueueCommit(c) ==
  LET p == client[c].p  v == client[c].version IN
  /\ client[c].pc = "enqueue"
  /\ VersionFree(p, v)
  /\ SetState(p, "BUILD_QUEUED")
  /\ activeVersion' = [activeVersion EXCEPT ![p] = v]
  /\ versionStart' = [versionStart EXCEPT ![p][v] = client[c].start]
  /\ SetRun(p, v, "BUILD", "PENDING")
  /\ older' = [older EXCEPT ![p][v] = client[c].older]
  /\ Goto(c, "respond")
  /\ UNCHANGED <<specStart, packaged, worker, phase, stops>>

\* The version exists by now: the key is violated and everything rolls back.
EnqueueAborts(c) ==
  /\ client[c].pc = "enqueue"
  /\ ~VersionFree(client[c].p, client[c].version)
  /\ Leave(c)
  /\ UNCHANGED <<db, worker, phase, stops>>

\* processNext: returns at once while a job is being processed.
ProcessNext ==
  worker' = IF worker.pc = "idle" THEN [worker EXCEPT !.pc = "claiming"] ELSE worker

\* The response is sent and the worker is poked.
RespondBuild(c) ==
  /\ client[c].pc = "respond"
  /\ Leave(c)
  /\ ProcessNext
  /\ UNCHANGED <<db, phase, stops>>
-----------------------------------------------------------------------------
(* POST /v1/pipelines/:id/cancel.                                          *)

RequestCancel(c, p) ==
  /\ Alive
  /\ client[c].pc = "idle"
  /\ CanTransition(pstate[p], "CANCELLED")
  /\ client' = [client EXCEPT ![c] = [IdleClient EXCEPT !.pc = "abort", !.p = p]]
  /\ UNCHANGED <<db, worker, phase, stops>>

\* worker.cancel(id): only the job being processed can be aborted.
CancelJob(c) ==
  /\ client[c].pc = "abort"
  /\ IF worker.p = client[c].p THEN AbortJob ELSE UNCHANGED worker
  /\ Goto(c, "cancelRuns")
  /\ UNCHANGED <<db, phase, stops>>

\* Mutant: cancelPendingRuns also takes the runs that are executing.
UnfinishedRun(status) == status \in {"PENDING", "RUNNING"}
\* The WHERE clause of cancelPendingRuns.
CancellableRun(status) == status = "PENDING"

CancelPendingRuns(c) ==
  LET p == client[c].p IN
  /\ client[c].pc = "cancelRuns"
  /\ run' = [run EXCEPT ![p] =
       [v \in Versions |-> [s \in Stages |->
          IF CancellableRun(run[p][v][s]) THEN "CANCELLED" ELSE run[p][v][s]]]]
  /\ Goto(c, "assertCancel")
  /\ UNCHANGED <<pstate, activeVersion, specStart, versionStart, packaged, older,
                 worker, phase, stops>>

\* transition(id, CANCELLED), the read: an illegal transition is an error response.
CancelRead(c) ==
  /\ client[c].pc = "assertCancel"
  /\ IF CanTransition(pstate[client[c].p], "CANCELLED")
     THEN Goto(c, "writeCancel")
     ELSE Leave(c)
  /\ UNCHANGED <<db, worker, phase, stops>>

\* transition(id, CANCELLED), the write, whatever the state is by now.
CancelWrite(c) ==
  /\ client[c].pc = "writeCancel"
  /\ SetState(client[c].p, "CANCELLED")
  /\ Leave(c)
  /\ UNCHANGED <<activeVersion, specStart, versionStart, packaged, runRows,
                 worker, phase, stops>>
-----------------------------------------------------------------------------
(* BuildWorker.processNext and #execute.                                   *)

\* setInterval, until stop() clears the timer.
Poll ==
  /\ phase = "up"
  /\ worker.pc = "idle"
  /\ ProcessNext
  /\ UNCHANGED <<db, client, phase, stops>>

\* claimOldestBuild: the oldest PENDING BUILD run, whatever its pipeline's state.
Claim(p, v) ==
  /\ worker.pc = "claiming"
  /\ Pending(p, v)
  /\ older[p][v] \cap PendingJobs = {}
  /\ SetRun(p, v, "BUILD", "RUNNING")
  /\ worker' = [worker EXCEPT !.pc = "claimed", !.p = p, !.v = v]
  /\ UNCHANGED <<pstate, activeVersion, specStart, versionStart, packaged, older,
                 client, phase, stops>>

\* Mutant: no finally block, #processing stays set.
NeverReleased == UNCHANGED worker
\* The finally block of processNext.
Release == worker' = IdleWorker

NothingToClaim ==
  /\ worker.pc = "claiming"
  /\ \A p \in Pipelines, v \in Versions : ~Pending(p, v)
  /\ Release
  /\ UNCHANGED <<db, client, phase, stops>>

\* The claim returns: from here on cancel(id) reaches the job.
Activate ==
  /\ worker.pc = "claimed"
  /\ worker' = [worker EXCEPT !.pc = "assert", !.to = "BUILDING"]
  /\ UNCHANGED <<db, client, phase, stops>>

\* Into the catch block of #execute: the locals of the try block are gone.
Throw(w) == [w EXCEPT !.pc = "catch", !.stage = "BUILD", !.to = None, !.outcome = "ABSENT",
                      !.cancelled = FALSE]

\* transition(id, to), the read.
WorkerRead ==
  /\ worker.pc = "assert"
  /\ CanTransition(pstate[worker.p], worker.to)
  /\ worker' = [worker EXCEPT !.pc = "write"]
  /\ UNCHANGED <<db, client, phase, stops>>

\* The read refuses the transition: on to the catch block.
WorkerRefused ==
  /\ worker.pc = "assert"
  /\ worker.to \notin FailureStates
  /\ ~CanTransition(pstate[worker.p], worker.to)
  /\ worker' = Throw(worker)
  /\ UNCHANGED <<db, client, phase, stops>>

\* Refused inside the catch block, nobody handles the rejection of processNext and
\* Node ends the process.
WorkerRejects ==
  /\ worker.pc = "assert"
  /\ worker.to \in FailureStates
  /\ ~CanTransition(pstate[worker.p], worker.to)
  /\ Die

\* transition(id, to), the write, whatever the state is by now.
WorkerWrite ==
  /\ worker.pc = "write"
  /\ SetState(worker.p, worker.to)
  /\ \/ /\ worker.to = "BUILDING"
        /\ worker' = [worker EXCEPT !.pc = "prepare", !.stage = "BUILD"]
     \/ /\ worker.to = "VALIDATING"
        /\ worker' = [worker EXCEPT !.pc = "create", !.stage = "VALIDATION"]
     \/ /\ worker.to \in {"AWAITING_APPROVAL"} \cup FailureStates
        /\ Release
  /\ UNCHANGED <<activeVersion, specStart, versionStart, packaged, runRows,
                 client, phase, stops>>

\* createStageRun.
CreateStageRun ==
  /\ worker.pc = "create"
  /\ SetRun(worker.p, worker.v, worker.stage, "RUNNING")
  /\ worker' = [worker EXCEPT !.pc = "prepare"]
  /\ UNCHANGED <<pstate, activeVersion, specStart, versionStart, packaged, older,
                 client, phase, stops>>

\* The runner resolves paths (and for BUILD the shared cargo cache), then spawns the
\* child and only then listens to the abort signal.
Spawn ==
  /\ worker.pc = "prepare"
  /\ worker' = [worker EXCEPT !.pc = "running", !.cancelled = FALSE]
  /\ UNCHANGED <<db, client, phase, stops>>

PrepareFails ==
  /\ worker.pc = "prepare"
  /\ worker' = [worker EXCEPT !.pc = "finish", !.outcome = "FAILED"]
  /\ UNCHANGED <<db, client, phase, stops>>

\* What a child that closes is recorded as: success only if it was not told to stop,
\* failure for an exit code, a timeout or a start error.
Outcomes(cancelled) ==
  IF cancelled THEN {"CANCELLED", "FAILED"} ELSE {"SUCCEEDED", "FAILED"}

ChildExits(o) ==
  /\ worker.pc = "running"
  /\ o \in Outcomes(worker.cancelled)
  /\ worker' = [worker EXCEPT !.pc = "finish", !.outcome = o]
  /\ UNCHANGED <<db, client, phase, stops>>

\* Mutant: only a cancellation stops the stages, a bad exit code or timeout does not.
NotCancelled(outcome) == outcome # "CANCELLED"
\* #finishProcessRun throws unless this holds.
Succeeded(outcome) == outcome = "SUCCEEDED"

\* Where #execute goes on once a stage has been recorded.
AfterStage(w) ==
  IF ~Succeeded(w.outcome) THEN Throw(w)
  ELSE CASE w.stage = "BUILD"      -> [w EXCEPT !.pc = "create", !.stage = "INFO"]
         [] w.stage = "INFO"       -> [w EXCEPT !.pc = "create", !.stage = "GRAPH"]
         [] w.stage = "GRAPH"      -> [w EXCEPT !.pc = "assert", !.to = "VALIDATING"]
         [] w.stage = "VALIDATION" -> [w EXCEPT !.pc = "check"]

\* finishRun, an update without condition.
FinishRun ==
  /\ worker.pc = "finish"
  /\ SetRun(worker.p, worker.v, worker.stage, worker.outcome)
  /\ worker' = AfterStage(worker)
  /\ UNCHANGED <<pstate, activeVersion, specStart, versionStart, packaged, older,
                 client, phase, stops>>

\* Parsing the output, the allowlist, writing it out, finding and hashing the package.
CheckOutput ==
  /\ worker.pc = "check"
  /\ \/ worker' = [worker EXCEPT !.pc = "save"]
     \/ worker' = Throw(worker)
  /\ UNCHANGED <<db, client, phase, stops>>

\* saveValidationArtifacts, then on to AWAITING_APPROVAL.
SaveArtifacts ==
  /\ worker.pc = "save"
  /\ packaged' = packaged \cup {<<worker.p, worker.v>>}
  /\ worker' = [worker EXCEPT !.pc = "assert", !.to = "AWAITING_APPROVAL"]
  /\ UNCHANGED <<pstate, activeVersion, specStart, versionStart, runRows,
                 client, phase, stops>>

\* Mutant: an unexpected state fails into one the schema does not know.
FailureStateTotal(state) ==
  CASE state = "BUILDING"   -> "BUILD_FAILED"
    [] state = "VALIDATING" -> "VALIDATION_FAILED"
    [] OTHER                -> "FAILED"
\* Mutant: failures while validating are forgotten.
FailureStateBuild(state) == IF state = "BUILDING" THEN "BUILD_FAILED" ELSE None
FailureState(state) ==
  CASE state = "BUILDING"   -> "BUILD_FAILED"
    [] state = "VALIDATING" -> "VALIDATION_FAILED"
    [] OTHER                -> None

\* The catch block reads the pipeline to choose the state it fails into.
Catch ==
  /\ worker.pc = "catch"
  /\ IF FailureState(pstate[worker.p]) = None
     THEN Release
     ELSE worker' = [worker EXCEPT !.pc = "assert", !.to = FailureState(pstate[worker.p])]
  /\ UNCHANGED <<db, client, phase, stops>>
-----------------------------------------------------------------------------
(* Life of the API process.                                                *)

\* SIGTERM: worker.stop() clears the timer and aborts the job.
Shutdown ==
  /\ phase = "up"
  /\ stops < MaxStops
  /\ phase' = "stopping"
  /\ stops' = stops + 1
  /\ AbortJob
  /\ UNCHANGED <<db, client>>

\* The event loop has run dry.
Exit ==
  /\ phase = "stopping"
  /\ worker.pc = "idle"
  /\ \A c \in Clients : client[c].pc = "idle"
  /\ phase' = "down"
  /\ UNCHANGED <<db, client, worker, stops>>

Crash ==
  /\ Alive
  /\ stops < MaxStops
  /\ phase' = "down"
  /\ client' = [c \in Clients |-> IdleClient]
  /\ worker' = IdleWorker
  /\ stops' = stops + 1
  /\ UNCHANGED db

\* Mutants: recovery overlooks the validation stage, or the VALIDATING state.
BuildStagesOnly == {"BUILD", "INFO", "GRAPH"}
BuildingOnly == {"BUILDING"}

\* The stages whose RUNNING runs recoverInterruptedJobs ends.
InterruptedStages == {"BUILD", "INFO", "GRAPH", "VALIDATION"}
InterruptedStates == {"BUILDING", "VALIDATING"}

\* Startup: recoverInterruptedJobs in one transaction, before the first request.
Restart ==
  /\ phase = "down"
  /\ phase' = "up"
  /\ run' = [p \in Pipelines |-> [v \in Versions |-> [s \in Stages |->
       IF run[p][v][s] = "RUNNING" /\ s \in InterruptedStages
       THEN "FAILED_INTERRUPTED" ELSE run[p][v][s]]]]
  /\ pstate' = [p \in Pipelines |->
       IF pstate[p] \in InterruptedStates THEN "FAILED_INTERRUPTED" ELSE pstate[p]]
  /\ UNCHANGED <<activeVersion, specStart, versionStart, packaged, older,
                 client, worker, stops>>
-----------------------------------------------------------------------------
ClientStep(c) ==
  \/ \E p \in Pipelines, b \in StartBlocks \cup {None} : RequestBuild(c, p, b)
  \/ SaveSpec(c) \/ RenderFails(c) \/ EnqueueRead(c) \/ EnqueueCommit(c) \/ EnqueueAborts(c)
  \/ RespondBuild(c)
  \/ \E p \in Pipelines : RequestCancel(c, p)
  \/ CancelJob(c) \/ CancelPendingRuns(c) \/ CancelRead(c) \/ CancelWrite(c)

WorkerStep ==
  \/ \E p \in Pipelines, v \in Versions : Claim(p, v)
  \/ NothingToClaim \/ Activate
  \/ WorkerRead \/ WorkerRefused \/ WorkerRejects \/ WorkerWrite
  \/ CreateStageRun \/ Spawn \/ PrepareFails
  \/ \E o \in EndStatus : ChildExits(o)
  \/ FinishRun \/ CheckOutput \/ SaveArtifacts \/ Catch

ProcessStep == Shutdown \/ Exit \/ Crash \/ Restart

Next ==
  \/ \E c \in Clients : ClientStep(c)
  \/ Poll \/ WorkerStep
  \/ ProcessStep

Spec == Init /\ [][Next]_vars

\* The event loop keeps running the worker, the interval timer keeps firing and
\* the wall-clock timeout of every child makes it exit.  Nothing makes an operator
\* send a request or restart the process.
FairSpec == Spec /\ WF_vars(WorkerStep) /\ WF_vars(Poll)
-----------------------------------------------------------------------------
(* Properties.                                                             *)

ClientRecord ==
  [pc : ClientPc, p : Pipelines \cup {None}, version : 0..MaxVersion,
   start : StartBlocks \cup {None}, older : SUBSET (Pipelines \X Versions)]
WorkerRecord ==
  [pc : WorkerPc, p : Pipelines \cup {None}, v : 0..MaxVersion, stage : Stages,
   to : PipelineState \cup {None}, outcome : {"ABSENT"} \cup EndStatus,
   aborted : BOOLEAN, cancelled : BOOLEAN]

TypeOK ==
  /\ pstate \in [Pipelines -> PipelineState]
  /\ activeVersion \in [Pipelines -> 0..MaxVersion]
  /\ specStart \in [Pipelines -> StartBlocks]
  /\ versionStart \in [Pipelines -> [Versions -> StartBlocks \cup {None}]]
  /\ packaged \in SUBSET (Pipelines \X Versions)
  /\ run \in [Pipelines -> [Versions -> [Stages -> RunStatus]]]
  /\ older \in [Pipelines -> [Versions -> SUBSET (Pipelines \X Versions)]]
  /\ client \in [Clients -> ClientRecord]
  /\ worker \in WorkerRecord
  /\ phase \in {"up", "stopping", "down"}
  /\ stops \in 0..MaxStops

\* The job the worker has claimed and not let go of.
Holds(p, v) == worker.pc \notin {"idle", "claiming"} /\ worker.p = p /\ worker.v = v

LiveJob(p, v) == Pending(p, v) \/ Holds(p, v)

\* A job that is queued or being executed always builds the newest version of its
\* pipeline: no retry can put version v + 1 in front of a job for v that is still
\* alive, cancelled or not, because the state table, the stale-version check and the
\* key of pipeline_versions together keep late enqueue transactions out.
LiveJobIsActiveVersion ==
  \A p \in Pipelines, v \in Versions : LiveJob(p, v) => v = activeVersion[p]

\* Why that is so, as an inductive invariant.  Handlers and worker hold real pipelines
\* and versions; ...
RealRequest(r) ==
  /\ r.pc \notin {"idle", "respond"} => r.p \in Pipelines
  /\ r.pc \in {"saveSpec", "render", "enqueue"} =>
       r.version \in Versions /\ r.start \in StartBlocks
RealJob(w) == w.pc \notin {"idle", "claiming"} => w.p \in Pipelines /\ w.v \in Versions
LocalsAreReal == (\A c \in Clients : RealRequest(client[c])) /\ RealJob(worker)

\* ... a process that is down runs neither; ...
DownIsIdle ==
  phase = "down" => worker.pc = "idle" /\ \A c \in Clients : client[c].pc = "idle"

\* ... the version rows of a pipeline are exactly 1 to activeVersion; ...
VersionRowsContiguous ==
  \A p \in Pipelines, v \in Versions : VersionFree(p, v) <=> v > activeVersion[p]

\* ... while a job lives, its pipeline cannot be requeued, only cancelled; ...
LiveJobBlocksRequeue ==
  \A p \in Pipelines, v \in Versions :
    /\ Pending(p, v) => v = activeVersion[p] /\ pstate[p] \in {"BUILD_QUEUED", "CANCELLED"}
    /\ Holds(p, v) => v = activeVersion[p] /\ pstate[p] \in QueuedOrBuilding \cup {"CANCELLED"}
    /\ ~(Pending(p, v) /\ Holds(p, v))

\* ... and an enqueue transaction that can still commit finds no live job.
EnqueueFindsNoLiveJob ==
  \A c \in Clients, v \in Versions :
    client[c].pc = "enqueue" /\ client[c].version > activeVersion[client[c].p] =>
      client[c].version = activeVersion[client[c].p] + 1 /\ ~LiveJob(client[c].p, v)

\* The inductive invariant: locals, version rows, live jobs and enqueue transactions in
\* flight fit together.
JobInv ==
  /\ LocalsAreReal
  /\ DownIsIdle
  /\ VersionRowsContiguous
  /\ LiveJobBlocksRequeue
  /\ EnqueueFindsNoLiveJob

\* What an operator is asked to approve went through all four stages successfully and
\* has a package hash, whatever requests, cancellations and crashes came in between.
ApprovableIsValidated ==
  \A p \in Pipelines : pstate[p] = "AWAITING_APPROVAL" =>
    /\ <<p, activeVersion[p]>> \in packaged
    /\ \A s \in Stages : run[p][activeVersion[p]][s] = "SUCCEEDED"

\* A pipeline shown as BUILDING or VALIDATING is being worked on, in its active version:
\* no interleaving leaves one behind that only an operator's cancel could free.
ActiveStateHasWorker ==
  \A p \in Pipelines : Alive /\ pstate[p] \in {"BUILDING", "VALIDATING"} =>
    Holds(p, activeVersion[p])

\* While the process lives, a RUNNING run the worker does not hold is a leftover of a
\* pipeline whose cancellation won: no other build, retry, cancel, failure or crash leaks
\* runs.  Approvals are not in this module; one that writes DEPLOYING over the BUILD_QUEUED of
\* a retry (Deployment!ApproveWrite) leaves the run of that job behind as well.
OrphanRunIsCancelled ==
  \A p \in Pipelines, v \in Versions, s \in Stages :
    Alive /\ run[p][v][s] = "RUNNING" /\ ~Holds(p, v) => pstate[p] = "CANCELLED"

\* Why these hold, again as an inductive invariant on top of JobInv.  A version has runs
\* from its enqueue on, and only a BUILD run before it is claimed; ...
VersionRowsHaveRuns ==
  \A p \in Pipelines, v \in Versions :
    /\ VersionFree(p, v) => \A s \in Stages : run[p][v][s] = "ABSENT"
    /\ ~VersionFree(p, v) => run[p][v]["BUILD"] # "ABSENT"
    /\ Pending(p, v) => \A s \in Stages \ {"BUILD"} : run[p][v][s] = "ABSENT"
    /\ \A s \in Stages \ {"BUILD"} : run[p][v][s] # "PENDING"

\* ... the runs of the job the worker holds are those of the stages it has been through, and
\* its pipeline is in the state the worker has put it in, or cancelled: while a stage is
\* recorded, ...
StagesBefore(s) ==
  CASE s = "BUILD" -> {}
    [] s = "INFO"  -> {"BUILD"}
    [] s = "GRAPH" -> {"BUILD", "INFO"}
    [] OTHER       -> {"BUILD", "INFO", "GRAPH"}
RunsOfJob(done, running) ==
  \A s \in Stages : run[worker.p][worker.v][s] =
    IF s \in done THEN "SUCCEEDED" ELSE IF s \in running THEN "RUNNING" ELSE "ABSENT"
StateOfJob(states) == pstate[worker.p] \in states \cup {"CANCELLED"}
StateOfStage(s) == IF s = "VALIDATION" THEN "VALIDATING" ELSE "BUILDING"

StageIsRecorded ==
  /\ worker.pc = "create" =>
       /\ worker.stage # "BUILD"
       /\ RunsOfJob(StagesBefore(worker.stage), {})
       /\ StateOfJob({StateOfStage(worker.stage)})
  /\ worker.pc \in {"prepare", "running", "finish"} =>
       /\ RunsOfJob(StagesBefore(worker.stage), {worker.stage})
       /\ StateOfJob({StateOfStage(worker.stage)})
  /\ worker.pc = "finish" => worker.outcome \in EndStatus
  /\ worker.pc \in {"check", "save"} =>
       RunsOfJob(Stages, {}) /\ StateOfJob({"VALIDATING"})

\* ... and on the way to each target state.
Changing(to) == worker.pc \in {"assert", "write"} /\ worker.to = to
NoRunOfJob == \A s \in Stages : run[worker.p][worker.v][s] # "RUNNING"

ChangeIsPrepared ==
  /\ worker.pc \in {"assert", "write"} =>
       worker.to \in {"BUILDING", "VALIDATING", "AWAITING_APPROVAL"} \cup FailureStates
  /\ worker.pc = "claimed" \/ Changing("BUILDING") =>
       RunsOfJob({}, {"BUILD"}) /\ StateOfJob({"BUILD_QUEUED"})
  /\ Changing("VALIDATING") =>
       RunsOfJob({"BUILD", "INFO", "GRAPH"}, {}) /\ StateOfJob({"BUILDING"})
  /\ Changing("AWAITING_APPROVAL") =>
       /\ RunsOfJob(Stages, {}) /\ StateOfJob({"VALIDATING"})
       /\ <<worker.p, worker.v>> \in packaged
  /\ Changing("BUILD_FAILED") => NoRunOfJob /\ StateOfJob({"BUILDING"})
  /\ Changing("VALIDATION_FAILED") => NoRunOfJob /\ StateOfJob({"VALIDATING"})
  /\ worker.pc = "catch" =>
       StateOfJob({"BUILDING", "VALIDATING"}) /\ (NoRunOfJob \/ StateOfJob({}))

\* Among builds, retries and cancels, a run that is RUNNING without the worker has lost its
\* job for good; ...
OrphanIsAlone ==
  \A p \in Pipelines, v \in Versions, s \in Stages :
    Alive /\ run[p][v][s] = "RUNNING" /\ ~Holds(p, v) =>
      /\ pstate[p] = "CANCELLED"
      /\ \A w \in Versions : ~LiveJob(p, w)

\* ... an enqueue transaction that can still commit finds no such run, and a pipeline that
\* may be queued or has been cancelled since; ...
EnqueueFindsNoRun ==
  \A c \in Clients :
    client[c].pc = "enqueue" /\ client[c].version > activeVersion[client[c].p] =>
      /\ pstate[client[c].p] \in Requeueable \cup {"CANCELLED"}
      /\ \A v \in Versions, s \in Stages : run[client[c].p][v][s] # "RUNNING"

\* ... and no pipeline is in a state of planning or deployment.
BuildStates ==
  {"PLAN_READY", "BUILD_QUEUED", "BUILDING", "VALIDATING", "AWAITING_APPROVAL",
   "BUILD_FAILED", "VALIDATION_FAILED", "FAILED_INTERRUPTED", "CANCELLED"}

\* The inductive invariant of runs and stages.
StageInv ==
  /\ VersionRowsHaveRuns
  /\ StageIsRecorded
  /\ ChangeIsPrepared
  /\ OrphanIsAlone
  /\ EnqueueFindsNoRun
  /\ \A p \in Pipelines : pstate[p] \in BuildStates
  /\ ActiveStateHasWorker
  /\ ApprovableIsValidated

\* Both: jobs and versions, runs and stages.
QueueInv == JobInv /\ StageInv

\* A run ends once: a cancelled run is never claimed, a recorded result never replaced.
RunsEndOnce ==
  [][\A p \in Pipelines, v \in Versions, s \in Stages :
       run[p][v][s] \in EndStatus => run'[p][v][s] = run[p][v][s]]_vars

\* The unlocked read-check-write of transition and enqueueBuild can overwrite a state the
\* table does not allow to leave, but among builds, retries and cancels the only thing
\* ever lost that way is a cancellation.
OnlyCancellationIsLost ==
  [][\A p \in Pipelines :
       \/ pstate'[p] = pstate[p]
       \/ CanTransition(pstate[p], pstate'[p])
       \/ pstate[p] = "CANCELLED"]_vars

\* Every state change is one the state machine allows ("All pipeline transitions are
\* checked by a plain TypeScript state machine", docs/architecture.md).
TransitionsLegal ==
  [][\A p \in Pipelines :
       pstate'[p] = pstate[p] \/ CanTransition(pstate[p], pstate'[p])]_vars

\* A child that keeps running for a pipeline recorded as CANCELLED has at least been told
\* to stop ("Kill the child process on timeout or cancellation").
CancelledChildIsKilled ==
  \A p \in Pipelines, v \in Versions :
    Holds(p, v) /\ worker.pc = "running" /\ pstate[p] = "CANCELLED" => worker.cancelled

\* After a restart a job that was interrupted can be retried, unless its pipeline is
\* cancelled ("On API restart, mark interrupted BUILDING or VALIDATING jobs
\* FAILED_INTERRUPTED and allow a manual retry").
InterruptedJobIsRetryable ==
  \A p \in Pipelines, v \in Versions :
    Alive /\ v = activeVersion[p] /\ run[p][v]["BUILD"] = "FAILED_INTERRUPTED"
      => pstate[p] \in Requeueable \cup {"CANCELLED"}

\* The queue drains: a pending build is claimed or cancelled, or the process stops.
PendingIsServed ==
  \A p \in Pipelines, v \in Versions :
    Pending(p, v) ~> (~Pending(p, v) \/ phase # "up")

\* A pipeline does not stay in BUILDING or VALIDATING: the worker or the operator
\* moves it on, or the process dies.
ActiveBuildSettles ==
  \A p \in Pipelines :
    (pstate[p] \in {"BUILDING", "VALIDATING"})
      ~> (pstate[p] \notin {"BUILDING", "VALIDATING"} \/ phase = "down")

\* The abstract queue this one implements: a job is queued while its BUILD run is
\* PENDING and executing while the worker holds it.
Jobs == INSTANCE BuildJobs WITH
  job <- [p \in Pipelines |-> [v \in Versions |->
            CASE run[p][v]["BUILD"] = "ABSENT"  -> "none"
              [] run[p][v]["BUILD"] = "PENDING" -> "queued"
              [] OTHER                          -> "closed"]],
  executing <- IF worker.pc \in {"idle", "claiming"} THEN None ELSE <<worker.p, worker.v>>,
  ready <- packaged

\* Handlers, transactions, crashes and restarts together do no more than BuildJobs allows.
ImplementsBuildJobs == Jobs!Spec

=============================================================================
