----------------------------- MODULE Deployment -----------------------------
(***************************************************************************)
(* Approval and deployment, composed with the build queue: the approval    *)
(* handler, the SinkManager with its sink processes and exit handlers, the *)
(* start and the shutdown of the API process.                              *)
(*                                                                         *)
(* The rows of pipelines and builds, the build, retry and cancel handlers  *)
(* and the worker are those of BuildQueue; this module adds the rows of    *)
(* deployments and API products and the steps that touch them.  As there,  *)
(* every await is a step boundary and a transition is a read that checks   *)
(* and a later write that does not.                                        *)
(***************************************************************************)
EXTENDS Naturals, FiniteSets, PipelineStates, FiniteSetsExt

CONSTANTS Pipelines, Clients, StartBlocks, MaxVersion, MaxStops, None,
          Approvals,       \* approval requests that can be in flight together
          MaxDeployments   \* bound: deployment rows created

ASSUME DeploymentAssumption ==
  /\ MaxVersion \in Nat \ {0}
  /\ MaxStops \in Nat
  /\ MaxDeployments \in Nat \ {0}
  /\ None \notin Pipelines \cup StartBlocks \cup PipelineState
  /\ None \notin Pipelines \X (1..MaxVersion)

VARIABLES pstate, activeVersion, specStart, versionStart, packaged, run, older,
          client, worker, phase, stops

Queue == INSTANCE BuildQueue

VARIABLES
  \* rows of the control database
  deployment,   \* deployments, by id in order of creation
  product,      \* pipelines with a row in api_products
  \* the API process
  approval,     \* handler of each approval request in flight
  child,        \* its sinks: "running" is in #sinks, "told" in #intentionalStops
  exitRow,      \* close handlers whose markDeploymentStopped has not committed
  exitPc,       \* #markPipelineFailed of each close handler
  stopWrites,   \* stop() calls whose markDeploymentStopped has not committed
  boot          \* restartLiveDeployments of a process that is starting

rows == <<deployment, product>>
sinks == <<child, exitRow, exitPc, stopWrites>>
dvars == <<rows, approval, sinks, boot>>
qvars == <<pstate, activeVersion, specStart, versionStart, packaged, run, older,
           client, worker, phase, stops>>
vars == <<qvars, dvars>>

Deployments == 1..MaxDeployments
DeploymentStatus == {"STARTING", "LIVE", "STOPPED", "FAILED"}
ApprovalPc == {"idle", "verify", "writeDeploying", "create", "start", "markLive", "assertLive",
               "writeLive", "product", "markFailed", "assertFailed", "writeFailed"}

NoRow == [p |-> None, v |-> 0, start |-> None, status |-> "ABSENT"]
IdleApproval == [pc |-> "idle", p |-> None, v |-> 0, start |-> None, d |-> 0]
NotBooting == [pc |-> "off", todo |-> {}]

Init ==
  /\ Queue!Init
  /\ deployment = [d \in Deployments |-> NoRow]
  /\ product = {}
  /\ approval = [a \in Approvals |-> IdleApproval]
  /\ child = [d \in Deployments |-> "none"]
  /\ exitRow = {}
  /\ exitPc = [d \in Deployments |-> "none"]
  /\ stopWrites = {}
  /\ boot = NotBooting
-----------------------------------------------------------------------------
(* Pieces shared by the handlers.                                          *)

Created == {d \in Deployments : deployment[d].status # "ABSENT"}
RowsWith(status) == {d \in Deployments : deployment[d].status = status}
Running == {d \in Deployments : child[d] = "running"}

SetState(p, to) == pstate' = [pstate EXCEPT ![p] = to]
SetStatus(d, status) == deployment' = [deployment EXCEPT ![d].status = status]
Goto(a, pc) == approval' = [approval EXCEPT ![a].pc = pc]
Leave(a) == approval' = [approval EXCEPT ![a] = IdleApproval]

UnchangedButState ==
  UNCHANGED <<activeVersion, specStart, versionStart, packaged, run, older,
              client, worker, phase, stops>>

\* The process is gone.  Sinks may outlive it for a while, but nothing reads their exit
\* and nothing looks for them again.
Abandon ==
  /\ child' = [d \in Deployments |-> "none"]
  /\ exitRow' = {}
  /\ exitPc' = [d \in Deployments |-> "none"]
  /\ stopWrites' = {}
  /\ approval' = [a \in Approvals |-> IdleApproval]
  /\ boot' = NotBooting
  /\ UNCHANGED rows
-----------------------------------------------------------------------------
(* POST /v1/pipelines/:id/approve: ApprovalService.approve.                *)

\* After stopAll the server is closed; until then requests are served.
Serving == phase = "up" \/ stopWrites # {}

\* Requests that may still create a row.
Undeployed == {a \in Approvals : approval[a].pc # "idle" /\ approval[a].d = 0}

ApprovableStates == {"AWAITING_APPROVAL", "DEPLOYMENT_FAILED"}

\* The snapshot read.  The request carries the hashes of version v; they match only if v
\* is the active version.  A request that is refused has no effect.
RequestApproval(a, p, v) ==
  /\ Serving
  /\ approval[a].pc = "idle"
  /\ pstate[p] \in ApprovableStates
  /\ v = activeVersion[p]
  /\ <<p, v>> \in packaged
  /\ Cardinality(Created) + Cardinality(Undeployed) < MaxDeployments
  /\ approval' = [approval EXCEPT ![a] =
       [pc |-> "verify", p |-> p, v |-> v, start |-> specStart[p], d |-> 0]]
  /\ UNCHANGED <<qvars, rows, sinks, boot>>

\* Manifest, rendered files and package are hashed again and any difference ends the
\* request; then transition(id, DEPLOYING), the read.
ApproveRead(a) ==
  /\ approval[a].pc = "verify"
  /\ \/ CanTransition(pstate[approval[a].p], "DEPLOYING") /\ Goto(a, "writeDeploying")
     \/ Leave(a)
  /\ UNCHANGED <<qvars, rows, sinks, boot>>

ApproveWrite(a) ==
  /\ approval[a].pc = "writeDeploying"
  /\ SetState(approval[a].p, "DEPLOYING")
  /\ Goto(a, "create")
  /\ UnchangedButState
  /\ UNCHANGED <<rows, sinks, boot>>

\* setupSchema and createDeployment.  Both are outside the try block: a failure is only an
\* error response.
CreateDeployment(a) ==
  LET d == Cardinality(Created) + 1 IN
  /\ approval[a].pc = "create"
  /\ deployment' = [deployment EXCEPT ![d] =
       [p |-> approval[a].p, v |-> approval[a].v, start |-> approval[a].start,
        status |-> "STARTING"]]
  /\ approval' = [approval EXCEPT ![a] = [@ EXCEPT !.pc = "start", !.d = d]]
  /\ UNCHANGED <<qvars, product, sinks, boot>>

CreateFails(a) ==
  /\ approval[a].pc = "create"
  /\ Leave(a)
  /\ UNCHANGED <<qvars, rows, sinks, boot>>

\* The setup child exits with 0 and the sink is started; its exit is handled from now on.
SpawnSink(a) ==
  /\ approval[a].pc = "start"
  /\ child' = [child EXCEPT ![approval[a].d] = "running"]
  /\ Goto(a, "markLive")
  /\ UNCHANGED <<qvars, rows, exitRow, exitPc, stopWrites, boot>>

\* A directory or package that is not as expected, a setup child that ends otherwise or
\* runs into its timeout, a sink without process id.
StartFails(a) ==
  /\ approval[a].pc = "start"
  /\ Goto(a, "markFailed")
  /\ UNCHANGED <<qvars, rows, sinks, boot>>

\* markDeploymentLive, whatever the row says by now.
MarkLive(a) ==
  /\ approval[a].pc = "markLive"
  /\ SetStatus(approval[a].d, "LIVE")
  /\ Goto(a, "assertLive")
  /\ UNCHANGED <<qvars, product, sinks, boot>>

LiveRead(a) ==
  /\ approval[a].pc = "assertLive"
  /\ Goto(a, IF CanTransition(pstate[approval[a].p], "LIVE") THEN "writeLive" ELSE "markFailed")
  /\ UNCHANGED <<qvars, rows, sinks, boot>>

LiveWrite(a) ==
  /\ approval[a].pc = "writeLive"
  /\ SetState(approval[a].p, "LIVE")
  /\ Goto(a, "product")
  /\ UnchangedButState
  /\ UNCHANGED <<rows, sinks, boot>>

\* upsertApiProduct and the response.
UpsertProduct(a) ==
  /\ approval[a].pc = "product"
  /\ product' = product \cup {approval[a].p}
  /\ Leave(a)
  /\ UNCHANGED <<qvars, deployment, sinks, boot>>

\* The catch block: the row, then the pipeline; a sink already spawned is left alone.
MarkFailed(a) ==
  /\ approval[a].pc = "markFailed"
  /\ SetStatus(approval[a].d, "FAILED")
  /\ Goto(a, "assertFailed")
  /\ UNCHANGED <<qvars, product, sinks, boot>>

FailedRead(a) ==
  /\ approval[a].pc = "assertFailed"
  /\ IF CanTransition(pstate[approval[a].p], "DEPLOYMENT_FAILED")
     THEN Goto(a, "writeFailed") ELSE Leave(a)
  /\ UNCHANGED <<qvars, rows, sinks, boot>>

FailedWrite(a) ==
  /\ approval[a].pc = "writeFailed"
  /\ SetState(approval[a].p, "DEPLOYMENT_FAILED")
  /\ Leave(a)
  /\ UnchangedButState
  /\ UNCHANGED <<rows, sinks, boot>>
-----------------------------------------------------------------------------
(* The close handler of a sink.                                            *)

\* The child closes: an intended stop ends here, otherwise two updates start that nobody
\* awaits.
SinkCloses(d) ==
  /\ child[d] # "none"
  /\ child' = [child EXCEPT ![d] = "none"]
  /\ IF child[d] = "told"
     THEN UNCHANGED <<exitRow, exitPc>>
     ELSE /\ exitRow' = exitRow \cup {d}
          /\ exitPc' = [exitPc EXCEPT ![d] = "snapshot"]
  /\ UNCHANGED <<qvars, rows, approval, stopWrites, boot>>

\* Mutant: the row gets the state of the pipeline.
StateAfterExit == "DEPLOYMENT_FAILED"
StatusAfterExit == "FAILED"

ExitMarksRow(d) ==
  /\ d \in exitRow
  /\ SetStatus(d, StatusAfterExit)
  /\ exitRow' = exitRow \ {d}
  /\ UNCHANGED <<qvars, product, approval, child, exitPc, stopWrites, boot>>

\* Mutant: a LIVE pipeline is left as it is.
DeployingOnly == {"DEPLOYING"}
FailableStates == {"LIVE", "DEPLOYING"}

\* #markPipelineFailed: the snapshot decides whether to transition at all.
ExitSnapshot(d) ==
  /\ exitPc[d] = "snapshot"
  /\ exitPc' = [exitPc EXCEPT ![d] =
       IF pstate[deployment[d].p] \in FailableStates THEN "assert" ELSE "none"]
  /\ UNCHANGED <<qvars, rows, approval, child, exitRow, stopWrites, boot>>

ExitRead(d) ==
  /\ exitPc[d] = "assert"
  /\ CanTransition(pstate[deployment[d].p], "DEPLOYMENT_FAILED")
  /\ exitPc' = [exitPc EXCEPT ![d] = "write"]
  /\ UNCHANGED <<qvars, rows, approval, child, exitRow, stopWrites, boot>>

\* Refused: the promise is void, so its rejection is unhandled and ends the process.
ExitRejects(d) ==
  /\ exitPc[d] = "assert"
  /\ ~CanTransition(pstate[deployment[d].p], "DEPLOYMENT_FAILED")
  /\ Queue!Die
  /\ Abandon

ExitWrite(d) ==
  /\ exitPc[d] = "write"
  /\ SetState(deployment[d].p, "DEPLOYMENT_FAILED")
  /\ exitPc' = [exitPc EXCEPT ![d] = "none"]
  /\ UnchangedButState
  /\ UNCHANGED <<rows, approval, child, exitRow, stopWrites, boot>>
-----------------------------------------------------------------------------
(* Life of the API process.                                                *)

\* Mutant: the row is updated but nobody tells the child.
NotKilled(d) == child[d]
\* stop(): the child gets SIGTERM and leaves the map of sinks.
Stopped(d) == IF child[d] = "running" THEN "told" ELSE child[d]

\* SIGTERM: worker.stop(), then stopAll() tells every sink to stop in one go.
Shutdown ==
  /\ Queue!Shutdown
  /\ child' = [d \in Deployments |-> Stopped(d)]
  /\ stopWrites' = Running
  /\ UNCHANGED <<rows, approval, exitRow, exitPc, boot>>

StopWrite(d) ==
  /\ d \in stopWrites
  /\ SetStatus(d, "STOPPED")
  /\ stopWrites' = stopWrites \ {d}
  /\ UNCHANGED <<qvars, product, approval, child, exitRow, exitPc, boot>>

\* Nothing keeps the event loop alive: no handler, no update, no child.
Exit ==
  /\ Queue!Exit
  /\ \A a \in Approvals : approval[a].pc = "idle"
  /\ \A d \in Deployments : child[d] = "none" /\ exitPc[d] = "none"
  /\ exitRow = {} /\ stopWrites = {}
  /\ UNCHANGED dvars

Crash == Queue!Crash /\ Abandon

\* Mutant: no product is saved again.
NoPipeline == {}
\* The pipelines whose products are saved again at every start.
LivePipelines == {p \in Pipelines : pstate[p] = "LIVE"}

\* Mutants: every row is listed, or those the crash interrupted.
AnyDeployment == Created
UnfinishedDeployments == RowsWith("STARTING")
\* listLiveDeployments.
LiveDeployments == RowsWith("LIVE")

\* Startup: products are saved, then live deployments are listed.
BootStart ==
  /\ phase = "down"
  /\ boot = NotBooting
  /\ product' = product \cup LivePipelines
  /\ boot' = [pc |-> "spawn", todo |-> LiveDeployments]
  /\ UNCHANGED <<qvars, deployment, approval, sinks>>

\* Sinks are started in order of creation, whether or not one still runs.
BootSpawn ==
  /\ boot.pc = "spawn"
  /\ boot.todo # {}
  /\ child' = [child EXCEPT ![Min(boot.todo)] = "running"]
  /\ boot' = [boot EXCEPT !.pc = "mark"]
  /\ UNCHANGED <<qvars, rows, approval, exitRow, exitPc, stopWrites>>

BootMark ==
  /\ boot.pc = "mark"
  /\ SetStatus(Min(boot.todo), "LIVE")
  /\ boot' = [pc |-> "spawn", todo |-> boot.todo \ {Min(boot.todo)}]
  /\ UNCHANGED <<qvars, product, approval, sinks>>

\* A package that is gone, a failing update or a signal: the process does not come up.
BootFails ==
  /\ boot.pc # "off"
  /\ Abandon
  /\ UNCHANGED qvars

\* worker.start() recovers interrupted builds and the server listens.
Listen ==
  /\ boot.pc = "spawn"
  /\ boot.todo = {}
  /\ Queue!Restart
  /\ boot' = NotBooting
  /\ UNCHANGED <<rows, approval, sinks>>
-----------------------------------------------------------------------------
ApprovalStep(a) ==
  \/ \E p \in Pipelines, v \in Queue!Versions : RequestApproval(a, p, v)
  \/ ApproveRead(a) \/ ApproveWrite(a) \/ CreateDeployment(a) \/ CreateFails(a)
  \/ SpawnSink(a) \/ StartFails(a) \/ MarkLive(a) \/ LiveRead(a) \/ LiveWrite(a)
  \/ UpsertProduct(a)
  \/ MarkFailed(a) \/ FailedRead(a) \/ FailedWrite(a)

SinkStep(d) ==
  \/ SinkCloses(d) \/ ExitMarksRow(d) \/ ExitSnapshot(d) \/ ExitRead(d) \/ ExitRejects(d)
  \/ ExitWrite(d) \/ StopWrite(d)

\* A rejection in the worker takes the parent of the sinks along.
SinksFollow == IF phase' = "down" THEN Abandon ELSE UNCHANGED dvars

\* Builds, retries and cancels; the server takes no request once it is closed.
RequestStep(c) == (client[c].pc = "idle" => Serving) /\ Queue!ClientStep(c)

\* A poll that finds no job changes nothing.
PollStep ==
  IF Queue!PendingJobs # {} THEN Queue!Poll ELSE phase = "up" /\ UNCHANGED qvars

QueueStep ==
  /\ (\E c \in Clients : RequestStep(c)) \/ PollStep \/ Queue!WorkerStep
  /\ SinksFollow

ProcessStep ==
  \/ Shutdown \/ Exit \/ Crash
  \/ BootStart \/ BootSpawn \/ BootMark \/ BootFails \/ Listen

Next ==
  \/ QueueStep
  \/ \E a \in Approvals : ApprovalStep(a)
  \/ \E d \in Deployments : SinkStep(d)
  \/ ProcessStep

Spec == Init /\ [][Next]_vars

\* What Node keeps running once it has begun: the worker, requests and their updates; the
\* close handlers and stop() calls; its own end.  A sink that is told to stop does; nothing
\* else makes a sink close, an operator send a request or anybody stop or start the process.
WorkGoesOn ==
  \/ Queue!WorkerStep /\ SinksFollow
  \/ \E c \in Clients : client[c].pc # "idle" /\ Queue!ClientStep(c) /\ SinksFollow
  \/ \E a \in Approvals : approval[a].pc # "idle" /\ ApprovalStep(a)
HandlersGoOn == \E d \in Deployments :
  \/ child[d] = "told" /\ SinkCloses(d)
  \/ ExitMarksRow(d) \/ ExitSnapshot(d) \/ ExitRead(d) \/ ExitRejects(d) \/ ExitWrite(d)
  \/ StopWrite(d)

FairSpec == Spec /\ WF_vars(WorkGoesOn) /\ WF_vars(HandlersGoOn) /\ WF_vars(Exit)
-----------------------------------------------------------------------------
(* Properties.                                                             *)

ApprovalRecord ==
  [pc : ApprovalPc, p : Pipelines \cup {None}, v : 0..MaxVersion,
   start : StartBlocks \cup {None}, d : 0..MaxDeployments]
RowRecord ==
  [p : Pipelines \cup {None}, v : 0..MaxVersion, start : StartBlocks \cup {None},
   status : {"ABSENT"} \cup DeploymentStatus]

TypeOK ==
  /\ Queue!TypeOK
  /\ deployment \in [Deployments -> RowRecord]
  /\ product \in SUBSET Pipelines
  /\ approval \in [Approvals -> ApprovalRecord]
  /\ child \in [Deployments -> {"none", "running", "told"}]
  /\ exitRow \in SUBSET Deployments
  /\ exitPc \in [Deployments -> {"none", "snapshot", "assert", "write"}]
  /\ stopWrites \in SUBSET Deployments
  /\ boot \in [pc : {"off", "spawn", "mark"}, todo : SUBSET Deployments]

RowsOf(p) == {d \in Created : deployment[d].p = p}

\* Nobody is working on a deployment of p.
Settled(p) ==
  /\ phase = "up"
  /\ \A a \in Approvals : approval[a].p # p
  /\ \A d \in RowsOf(p) : d \notin exitRow /\ exitPc[d] = "none"

\* A dataset that is sold has a product: a pipeline stays LIVE without one only until the
\* approval that made it LIVE goes on, or, after a crash in between, until the next start.
LiveHasProduct ==
  \A p \in Pipelines : Settled(p) /\ pstate[p] = "LIVE" => p \in product

\* A sink is started for a deployment that is STARTING or recorded as LIVE and has no
\* sink in this process yet: no restart revives one that failed or was stopped.
SinkStartsForOpenRow ==
  [][\A d \in Deployments : child[d] # "running" /\ child'[d] = "running" =>
       /\ child[d] = "none"
       /\ deployment[d].status \in {"STARTING", "LIVE"}
       /\ <<deployment[d].p, deployment[d].v>> \in packaged]_vars

\* A deployment recorded as STOPPED has no sink but one on its way out.
StoppedHasNoSink == \A d \in RowsWith("STOPPED") : child[d] # "running"

\* "Restarts configured LIVE deployments on API startup": when the server starts to listen,
\* a deployment recorded as LIVE whose pipeline is LIVE has its sink, or the handler of its
\* exit is at work; whatever went wrong at earlier starts.
ListensWithSinks ==
  [][phase = "down" /\ phase' = "up" =>
       \A d \in RowsWith("LIVE") :
         pstate[deployment[d].p] = "LIVE" => child[d] = "running" \/ exitPc[d] # "none"]_vars

\* Why these hold, as an inductive invariant.  Rows are numbered without a gap, there is
\* room for those that requests in flight may still create, and each is of a packaged
\* version; ...
RowsAreNumbered ==
  /\ \E n \in 0..MaxDeployments : Created = 1..n
  /\ IsFiniteSet(Undeployed)
  /\ Cardinality(Created) + Cardinality(Undeployed) <= MaxDeployments
RowsArePackaged == \A d \in Created : <<deployment[d].p, deployment[d].v>> \in packaged

\* ... an approval has a packaged version and, once created, a row of its own, which is
\* untouched until the sink is started; ...
BeforeRow == {"verify", "writeDeploying", "create"}
ApprovalFollowsRow(a) ==
  /\ approval[a].pc # "idle" => <<approval[a].p, approval[a].v>> \in packaged
  /\ IF approval[a].pc \in BeforeRow \cup {"idle"}
     THEN approval[a].d = 0 ELSE approval[a].d \in Created
  /\ approval[a].pc = "start" =>
       /\ deployment[approval[a].d].status = "STARTING"
       /\ child[approval[a].d] = "none"
       /\ approval[a].d \notin exitRow \cup stopWrites
RowsAreTheirOwn ==
  \A a, b \in Approvals : a # b /\ approval[a].d = approval[b].d => approval[a].d = 0

\* ... sinks and the updates they leave behind belong to rows, and what is recorded as
\* stopped, or about to be, has been told to stop; ...
Attended(d) == child[d] # "none" \/ exitPc[d] # "none" \/ d \in exitRow \cup stopWrites
SinksHaveRows ==
  /\ \A d \in Deployments : Attended(d) => d \in Created
  /\ \A d \in stopWrites : child[d] # "running"
  /\ StoppedHasNoSink

\* ... a process that is down has no handler at work, and no sink until it boots; ...
DownIsQuiet ==
  phase = "down" =>
    /\ \A a \in Approvals : approval[a].pc = "idle"
    /\ stopWrites = {}
    /\ \A d \in Deployments : child[d] # "told" /\ (boot.pc = "off" => ~Attended(d))

\* ... while it boots, rows that wait for their sink are untouched, and the other rows that
\* are LIVE have had theirs; ...
Waiting == IF boot.pc = "mark" THEN boot.todo \ {Min(boot.todo)} ELSE boot.todo
Started == IF boot.pc = "mark" THEN {Min(boot.todo)} ELSE {}
BootFollowsRows ==
  boot.pc # "off" =>
    /\ phase = "down"
    /\ boot.todo \subseteq Created
    /\ boot.pc = "mark" => boot.todo # {}
    /\ \A d \in Waiting : deployment[d].status = "LIVE" /\ ~Attended(d)
    /\ \A d \in (RowsWith("LIVE") \cup Started) \ Waiting :
         pstate[deployment[d].p] = "LIVE" => child[d] = "running" \/ exitPc[d] # "none"

\* ... and the product of a LIVE pipeline is there, or about to be.
LivePipelinesAreSold ==
  \A p \in LivePipelines :
    \/ p \in product
    \/ \E a \in Approvals : approval[a].pc = "product" /\ approval[a].p = p
    \/ phase = "down" /\ boot.pc = "off"

\* The inductive invariant: rows, approvals, sinks and the start of the process fit together.
DeployInv ==
  /\ RowsAreNumbered /\ RowsArePackaged
  /\ \A a \in Approvals : ApprovalFollowsRow(a)
  /\ RowsAreTheirOwn
  /\ SinksHaveRows
  /\ DownIsQuiet
  /\ BootFollowsRows
  /\ LivePipelinesAreSold

\* A shutdown comes to an end unless a deployment under way starts its sink after stopAll.
ShutdownEnds == (phase = "stopping") ~> (phase # "stopping" \/ Running # {})

\* A pipeline that is LIVE at any time while the close handler of a sink of it is at work is
\* moved on, by that handler if by nothing else.  This does not reach a LIVE that deploy had
\* checked before and writes after the handler is through: it stays, over a dead sink.
ExitIsSeen ==
  \A d \in Deployments, p \in Pipelines :
    (exitPc[d] # "none" /\ deployment[d].p = p /\ pstate[p] = "LIVE")
      ~> (phase = "down" \/ pstate[p] # "LIVE")

\* The sink is started at the block its version was validated at ("The sink manager
\* receives only trusted, backend-held values: ... validated start block").
DeployedStartIsValidated ==
  \A d \in Created : deployment[d].start = versionStart[deployment[d].p][deployment[d].v]

=============================================================================
