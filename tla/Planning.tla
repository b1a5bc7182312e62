------------------------------ MODULE Planning ------------------------------
(***************************************************************************)
(* POST /v1/pipelines/plan: a request creates its own pipeline, asks the   *)
(* language model for a specification, applies the caller's overrides and  *)
(* records the plan derived from it.  Meanwhile an operator may cancel the *)
(* pipeline, and the process may die.                                      *)
(*                                                                         *)
(* What the model says is the environment: an error thrown by the provider *)
(* call or a reply, chosen from PlannerErrors and Replies.  An error is    *)
(* the sequence of its causes, each one abstracted to what the checks on   *)
(* errors look at.  A specification is its contracts, events, start block  *)
(* and optional outputs.                                                   *)
(***************************************************************************)
EXTENDS Naturals, Sequences, SequencesExt, PipelineStates

CONSTANTS Requests,       \* plan requests; each creates one pipeline
          Addresses,      \* contracts on the chain
          StartBlocks,
          PlannerErrors,  \* what generateContent may throw
          Replies,        \* what the model may answer
          Overrides,      \* structured fields a request may carry
          MaxCrashes,     \* bound: crashes of the API process
          None

Events == {"Deposit", "Withdraw"}
\* An address as written: hexadecimal digits of any case stand for the same contract.
Contract == [id : Addresses, lower : BOOLEAN]
PipelineSpec ==
  [contracts : Seq(Contract), events : Seq(Events), startBlock : StartBlocks,
   topDepositors : BOOLEAN]
\* An error by the layers of its causes, those of the provider and our own.
Layer == {"apiRetryable", "apiFatal", "retryableStatus", "fatalStatus", "retryableCode",
          "otherCode", "timeoutText", "plain", "response", "zod"}
Errors == Seq(Layer \cup {"unavailable", "illegalTransition"})
ResultStatus == {"ready", "needs_clarification", "unsupported"}
Reply == [status : ResultStatus, wellFormed : BOOLEAN, forbiddenText : BOOLEAN,
          spec : PipelineSpec]
\* The route's schema lets one to three contracts through, equal ones included.
Override == [contracts : Seq(Contract), startBlock : StartBlocks \cup {None}]
PipelineConfig == [addresses : SUBSET Contract, topics : SUBSET Events]

\* The provider's client validates nothing with zod: a ZodError is at most the cause of an
\* error of its caller.
ASSUME PlanningAssumption ==
  /\ MaxCrashes \in Nat
  /\ None \notin Requests \cup StartBlocks \cup PipelineState \cup PipelineSpec \cup PipelineConfig
  /\ \A e \in PlannerErrors : e \in Seq(Layer) /\ e # <<>> /\ Head(e) # "zod"
  /\ \A r \in Replies : r \in Reply
  /\ \A o \in Overrides : o \in Override /\ Len(o.contracts) <= 3

VARIABLES
  pstate,     \* pipelines.state; None: no row yet
  spec,       \* pipelines.spec
  plan,       \* pipelines.derivedPlan: addresses and topics of the filter
  vaults,     \* rows of the contracts of a pipeline
  handler,    \* the plan request of each pipeline
  canceller,  \* a cancel request per pipeline: "idle" or its next step
  crashes

rows == <<pstate, spec, plan, vaults>>
vars == <<rows, handler, canceller, crashes>>

HandlerPc == {"idle", "assertPlanning", "writePlanning", "ask", "record", "writeRecord",
              "assertOutcome", "writeOutcome", "reply", "catch", "assertFailed", "writeFailed",
              "done", "lost"}
Fresh == [pc |-> "idle", overrides |-> None, attempts |-> 0, to |-> None, spec |-> None,
          error |-> <<>>, status |-> 0]

Init ==
  /\ pstate = [r \in Requests |-> None]
  /\ spec = [r \in Requests |-> None]
  /\ plan = [r \in Requests |-> None]
  /\ vaults = [r \in Requests |-> {}]
  /\ handler = [r \in Requests |-> Fresh]
  /\ canceller = [r \in Requests |-> "idle"]
  /\ crashes = 0
-----------------------------------------------------------------------------
(* Specifications.                                                         *)

\* Mutant: two spellings of an address count as two contracts.
DistinctAsWritten(s) == IsInjective(s)
\* Addresses are compared in lower case.
Distinct(s) == IsInjective([i \in DOMAIN s |-> s[i].id])

\* PipelineSpecSchema and the issues of parsePipelineSpec.
ParsePipelineSpec(s) ==
  /\ Len(s.contracts) \in 1..3
  /\ Len(s.events) \in 1..2
  /\ Distinct(s.contracts)
  /\ IsInjective(s.events)

NormalizePipelineSpec(s) ==
  [s EXCEPT !.contracts = [i \in DOMAIN @ |-> [@[i] EXCEPT !.lower = TRUE]]]

\* Mutant: an explicit null replaces the start block.
NullReplaces(s, o) ==
  [s EXCEPT !.contracts = IF o.contracts = <<>> THEN @ ELSE o.contracts,
            !.startBlock = o.startBlock]
\* Fields the caller supplied replace those of the model.
ApplyOverrides(s, o) ==
  [s EXCEPT !.contracts = IF o.contracts = <<>> THEN @ ELSE o.contracts,
            !.startBlock = IF o.startBlock = None THEN @ ELSE o.startBlock]

\* derivePipelineConfig: the filter is (any address) && (any event topic).
DerivePipelineConfig(s) ==
  [addresses |-> ToSet(s.contracts), topics |-> ToSet(s.events)]
-----------------------------------------------------------------------------
(* Errors.                                                                 *)

\* isTransientProviderError: the first layer that decides; an ApiError always does.
IsTransient(error) ==
  \E i \in DOMAIN error :
    /\ error[i] \in {"apiRetryable", "retryableStatus", "retryableCode", "timeoutText"}
    /\ \A j \in 1..(i - 1) : error[j] # "apiFatal"

\* isProviderCallError: a status or code before anything of our own.
IsProviderCall(error) ==
  \E i \in DOMAIN error :
    /\ error[i] \in {"apiRetryable", "apiFatal", "retryableStatus", "fatalStatus",
                     "retryableCode", "otherCode"}
    /\ \A j \in 1..(i - 1) : error[j] \notin {"response", "zod"}

\* Mutant: a reply that fails validation surfaces as the ZodError it is.
Unwrapped(reply) ==
  IF reply.wellFormed /\ (reply.status = "ready" => ParsePipelineSpec(reply.spec))
  THEN <<>> ELSE <<"zod">>
\* parseAndValidatePlannerResponse: no error, or a PlannerResponseError and its cause.
ResponseError(reply) ==
  CASE ~reply.wellFormed -> <<"response", "zod">>
    [] reply.forbiddenText -> <<"response">>
    [] reply.status = "ready" /\ reply.spec.topDepositors -> <<"response">>
    [] reply.status = "ready" /\ ~ParsePipelineSpec(reply.spec) -> <<"response", "zod">>
    [] OTHER -> <<>>

\* Errors that plan() rethrows as PlannerUnavailableError.
Unavailable(error) == IsTransient(error) \/ IsProviderCall(error)

\* The error handler of the application.
HttpStatus(error) ==
  CASE Head(error) = "zod" -> 400
    [] Head(error) = "unavailable" -> 503
    [] Head(error) = "response" -> 502
    [] Head(error) = "illegalTransition" -> 409
    [] OTHER -> 500
-----------------------------------------------------------------------------
(* PipelineService.plan and GeminiPipelinePlanner.plan.                    *)

Goto(r, pc) == handler' = [handler EXCEPT ![r].pc = pc]
SetState(r, to) == pstate' = [pstate EXCEPT ![r] = to]

\* Into the catch block of plan().
Throw(r, error) ==
  handler' = [handler EXCEPT ![r].pc = "catch", ![r].error = error]
\* Mutant: the error is not rethrown.
Swallow(r, error) ==
  handler' = [handler EXCEPT ![r].pc = "done", ![r].status = 200]
\* Out of plan(), around the catch block or from within it.
Reject(r, error) ==
  handler' = [handler EXCEPT ![r].pc = "done", ![r].status = HttpStatus(error)]

PlanRequest(r, o) ==
  /\ handler[r].pc = "idle"
  /\ SetState(r, "DRAFT")
  /\ handler' = [handler EXCEPT ![r].pc = "assertPlanning", ![r].overrides = o]
  /\ UNCHANGED <<spec, plan, vaults, canceller, crashes>>

\* transition(id, PLANNING): still outside the try block.
PlanningRead(r) ==
  /\ handler[r].pc = "assertPlanning"
  /\ IF CanTransition(pstate[r], "PLANNING")
     THEN Goto(r, "writePlanning") ELSE Reject(r, <<"illegalTransition">>)
  /\ UNCHANGED <<rows, canceller, crashes>>

PlanningWrite(r) ==
  /\ handler[r].pc = "writePlanning"
  /\ SetState(r, "PLANNING")
  /\ Goto(r, "ask")
  /\ UNCHANGED <<spec, plan, vaults, canceller, crashes>>

\* One attempt fails: again after the first if the error is transient, else out.
Fail(r, error) ==
  IF handler[r].attempts = 0 /\ IsTransient(error)
  THEN handler' = [handler EXCEPT ![r].attempts = 1]
  ELSE Throw(r, IF Unavailable(error) THEN <<"unavailable">> ELSE error)

ProviderFails(r, error) ==
  /\ handler[r].pc = "ask"
  /\ Fail(r, error)
  /\ UNCHANGED <<rows, canceller, crashes>>

\* Mutant: questions come with the plan.
Optimistic(reply) ==
  IF reply.status = "unsupported" THEN "UNSUPPORTED_SCOPE" ELSE "PLAN_READY"
\* The status of the reply decides where the pipeline goes.
Outcome(reply) ==
  CASE reply.status = "needs_clarification" -> "NEEDS_INPUT"
    [] reply.status = "unsupported"         -> "UNSUPPORTED_SCOPE"
    [] OTHER                                -> "PLAN_READY"

\* A valid reply: overrides are applied and the configuration is derived at once.
Accept(r, reply) ==
  LET s == ApplyOverrides(reply.spec, handler[r].overrides) IN
  IF reply.status = "ready"
  THEN IF ParsePipelineSpec(s)
       THEN handler' = [handler EXCEPT ![r].pc = "record", ![r].to = "PLAN_READY",
                                       ![r].spec = NormalizePipelineSpec(s)]
       ELSE Throw(r, <<"zod">>)
  ELSE handler' = [handler EXCEPT ![r].pc = "assertOutcome", ![r].to = Outcome(reply)]

ModelReplies(r, reply) ==
  /\ handler[r].pc = "ask"
  /\ IF ResponseError(reply) = <<>>
     THEN Accept(r, reply) ELSE Fail(r, ResponseError(reply))
  /\ UNCHANGED <<rows, canceller, crashes>>

\* transition(id, NEEDS_INPUT or UNSUPPORTED_SCOPE).
OutcomeRead(r) ==
  /\ handler[r].pc = "assertOutcome"
  /\ IF CanTransition(pstate[r], handler[r].to)
     THEN Goto(r, "writeOutcome") ELSE Throw(r, <<"illegalTransition">>)
  /\ UNCHANGED <<rows, canceller, crashes>>

OutcomeWrite(r) ==
  /\ handler[r].pc = "writeOutcome"
  /\ SetState(r, handler[r].to)
  /\ Goto(r, "reply")
  /\ UNCHANGED <<spec, plan, vaults, canceller, crashes>>

\* recordReadyPlan is returned, not awaited: what it throws skips the catch block.
RecordRead(r) ==
  /\ handler[r].pc = "record"
  /\ IF CanTransition(pstate[r], "PLAN_READY")
     THEN Goto(r, "writeRecord") ELSE Reject(r, <<"illegalTransition">>)
  /\ UNCHANGED <<rows, canceller, crashes>>

RecordWrite(r) ==
  LET s == handler[r].spec IN
  /\ handler[r].pc = "writeRecord"
  /\ SetState(r, "PLAN_READY")
  /\ spec' = [spec EXCEPT ![r] = s]
  /\ plan' = [plan EXCEPT ![r] = DerivePipelineConfig(s)]
  /\ vaults' = [vaults EXCEPT ![r] = {c.id : c \in ToSet(s.contracts)}]
  /\ handler' = [handler EXCEPT ![r].pc = "done", ![r].status = 200]
  /\ UNCHANGED <<canceller, crashes>>

\* The database refuses the update, for one a text with a NUL character.
RecordFails(r) ==
  /\ handler[r].pc = "writeRecord"
  /\ Reject(r, <<"plain">>)
  /\ UNCHANGED <<rows, canceller, crashes>>

\* The reply shows the row as it is by now.
Respond(r) ==
  /\ handler[r].pc = "reply"
  /\ handler' = [handler EXCEPT ![r].pc = "done",
       ![r].status = IF pstate[r] = "UNSUPPORTED_SCOPE" THEN 422 ELSE 200]
  /\ UNCHANGED <<rows, canceller, crashes>>

\* Mutant: nothing is failed.
Nothing(state) == FALSE
Failable(state) == state = "PLANNING"

\* The catch block fails the pipeline if it is still PLANNING, and rethrows.
CatchRead(r) ==
  /\ handler[r].pc = "catch"
  /\ IF Failable(pstate[r]) THEN Goto(r, "assertFailed") ELSE Reject(r, handler[r].error)
  /\ UNCHANGED <<rows, canceller, crashes>>

FailedRead(r) ==
  /\ handler[r].pc = "assertFailed"
  /\ IF CanTransition(pstate[r], "PLAN_FAILED")
     THEN Goto(r, "writeFailed") ELSE Reject(r, <<"illegalTransition">>)
  /\ UNCHANGED <<rows, canceller, crashes>>

FailedWrite(r) ==
  /\ handler[r].pc = "writeFailed"
  /\ SetState(r, "PLAN_FAILED")
  /\ Reject(r, handler[r].error)
  /\ UNCHANGED <<spec, plan, vaults, canceller, crashes>>
-----------------------------------------------------------------------------
(* POST cancel: no job and no run exists yet, so only the transition counts. *)

RequestCancel(r) ==
  /\ pstate[r] # None
  /\ canceller[r] = "idle"
  /\ CanTransition(pstate[r], "CANCELLED")
  /\ canceller' = [canceller EXCEPT ![r] = "write"]
  /\ UNCHANGED <<rows, handler, crashes>>

CancelWrite(r) ==
  /\ canceller[r] = "write"
  /\ SetState(r, "CANCELLED")
  /\ canceller' = [canceller EXCEPT ![r] = "idle"]
  /\ UNCHANGED <<spec, plan, vaults, handler, crashes>>

\* Every handler is lost; startup recovers no pipeline that is DRAFT or PLANNING.
Crash ==
  /\ crashes < MaxCrashes
  /\ handler' = [r \in Requests |->
       IF handler[r].pc \in {"idle", "done"} THEN handler[r]
       ELSE [handler[r] EXCEPT !.pc = "lost"]]
  /\ canceller' = [r \in Requests |-> "idle"]
  /\ crashes' = crashes + 1
  /\ UNCHANGED rows

PlanStep(r) ==
  \/ PlanningRead(r) \/ PlanningWrite(r)
  \/ \E e \in PlannerErrors : ProviderFails(r, e)
  \/ \E reply \in Replies : ModelReplies(r, reply)
  \/ OutcomeRead(r) \/ OutcomeWrite(r) \/ Respond(r)
  \/ RecordRead(r) \/ RecordWrite(r) \/ RecordFails(r)
  \/ CatchRead(r) \/ FailedRead(r) \/ FailedWrite(r)

Next ==
  \/ \E r \in Requests, o \in Overrides : PlanRequest(r, o)
  \/ \E r \in Requests : PlanStep(r) \/ RequestCancel(r) \/ CancelWrite(r)
  \/ Crash

Spec == Init /\ [][Next]_vars

\* Node runs handlers on, and the provider call answers or runs into its timeout.
FairSpec == Spec /\ \A r \in Requests : WF_vars(PlanStep(r))
-----------------------------------------------------------------------------
(* Properties.                                                             *)

HandlerRecord ==
  [pc : HandlerPc, overrides : Overrides \cup {None}, attempts : 0..1,
   to : PipelineState \cup {None}, spec : PipelineSpec \cup {None},
   error : Errors, status : {0, 200, 400, 409, 422, 500, 502, 503}]

TypeOK ==
  /\ pstate \in [Requests -> PipelineState \cup {None}]
  /\ spec \in [Requests -> PipelineSpec \cup {None}]
  /\ plan \in [Requests -> PipelineConfig \cup {None}]
  /\ vaults \in [Requests -> SUBSET Addresses]
  /\ handler \in [Requests -> HandlerRecord]
  /\ canceller \in [Requests -> {"idle", "write"}]
  /\ crashes \in 0..MaxCrashes

\* A recorded plan watches one to three different contracts, those the caller named if he
\* named any, from the block he named; filter and contract rows agree with it, and the
\* output the planner must not select is not selected.
RecordedPlanIsSound ==
  \A r \in Requests : spec[r] # None =>
    LET o == handler[r].overrides  n == Len(spec[r].contracts) IN
    /\ n \in 1..3
    /\ vaults[r] = {spec[r].contracts[i].id : i \in 1..n}
    /\ \A i, j \in 1..n : i # j => spec[r].contracts[i].id # spec[r].contracts[j].id
    /\ plan[r].addresses = [id : vaults[r], lower : {TRUE}]
    /\ plan[r].topics = {spec[r].events[i] : i \in DOMAIN spec[r].events} /\ plan[r].topics # {}
    /\ o.contracts # <<>> => vaults[r] = {c.id : c \in ToSet(o.contracts)}
    /\ o.startBlock # None => spec[r].startBlock = o.startBlock
    /\ ~spec[r].topDepositors

\* PLAN_READY and a recorded plan belong together, whatever cancel and crash do in between,
\* and only a cancellation can take PLAN_READY away here.
ReadyHasPlan ==
  \A r \in Requests :
    /\ pstate[r] = "PLAN_READY" => spec[r] # None
    /\ spec[r] # None => pstate[r] \in {"PLAN_READY", "CANCELLED"}

\* The answer is about what was stored: an error leaves no plan behind, and without a cancel
\* 200 comes with a plan or a question, 422 with a pipeline that is out of scope.  A pipeline
\* is still PLANNING only if the database refused its plan (500): no answer of the model, no
\* override and no cancel strands it.
AnswerMatchesRow ==
  \A r \in Requests : handler[r].pc = "done" =>
    /\ handler[r].status >= 400 /\ handler[r].status # 422 => spec[r] = None
    /\ handler[r].status = 200 =>
         spec[r] # None \/ pstate[r] \in {"NEEDS_INPUT", "UNSUPPORTED_SCOPE", "CANCELLED"}
    /\ handler[r].status = 422 => pstate[r] \in {"UNSUPPORTED_SCOPE", "CANCELLED"}
    /\ pstate[r] = "PLANNING" => handler[r].status = 500

\* The caller is blamed (400) only for fields of his own, never for what the model said.
CallerIsBlamedForHisFields ==
  \A r \in Requests : handler[r].status = 400 =>
    LET c == handler[r].overrides.contracts IN \E i, j \in DOMAIN c : i # j /\ c[i].id = c[j].id

\* Why these hold, as an inductive invariant.  The row is where its handler has put it, or
\* cancelled, and says what the answer says; ...
RowFollowsHandler(r) ==
  LET pc == handler[r].pc IN
  /\ pc = "idle" => pstate[r] = None /\ canceller[r] = "idle"
  /\ pc \in {"assertPlanning", "writePlanning"} => pstate[r] \in {"DRAFT", "CANCELLED"}
  /\ pc \in {"ask", "record", "writeRecord", "assertOutcome", "writeOutcome", "catch",
             "assertFailed", "writeFailed"} => pstate[r] \in {"PLANNING", "CANCELLED"}
  /\ pc \in {"assertOutcome", "writeOutcome", "reply"} =>
       handler[r].to \in {"NEEDS_INPUT", "UNSUPPORTED_SCOPE"}
  /\ pc = "reply" => pstate[r] \in {handler[r].to, "CANCELLED"}
  /\ pc = "lost" =>
       pstate[r] \in {"DRAFT", "PLANNING", "NEEDS_INPUT", "UNSUPPORTED_SCOPE", "CANCELLED"}
  /\ pc # "done" => handler[r].status = 0 /\ spec[r] = None

AnswerSaysRow(r) ==
  LET status == handler[r].status IN
  handler[r].pc = "done" =>
    \/ spec[r] # None /\ status = 200 /\ pstate[r] \in {"PLAN_READY", "CANCELLED"}
    \/ /\ spec[r] = None
       /\ \/ status = 200 /\ pstate[r] \in {"NEEDS_INPUT", "CANCELLED"}
          \/ status = 422 /\ pstate[r] \in {"UNSUPPORTED_SCOPE", "CANCELLED"}
          \/ /\ status \in {400, 409, 500, 502, 503}
             /\ pstate[r] \in {"PLAN_FAILED", "CANCELLED"}
          \/ status = 500 /\ pstate[r] = "PLANNING"

\* ... a plan about to be recorded, or recorded, is one the caller's fields went into; ...
Ids(contracts) == {c.id : c \in ToSet(contracts)}
SoundFor(s, o) ==
  /\ ParsePipelineSpec(s)
  /\ \A i \in DOMAIN s.contracts : s.contracts[i].lower
  /\ o.contracts # <<>> => Ids(s.contracts) = Ids(o.contracts)
  /\ o.startBlock # None => s.startBlock = o.startBlock
  /\ ~s.topDepositors
PlanIsChecked(r) ==
  /\ handler[r].pc # "idle" => handler[r].overrides \in Overrides
  /\ handler[r].pc \in {"record", "writeRecord"} =>
       handler[r].spec # None /\ SoundFor(handler[r].spec, handler[r].overrides)
  /\ spec[r] # None =>
       /\ SoundFor(spec[r], handler[r].overrides)
       /\ plan[r] = DerivePipelineConfig(spec[r])
       /\ vaults[r] = Ids(spec[r].contracts)

\* ... and an error that would blame the caller is about a contract he named twice.
NamedTwice(r) ==
  LET c == handler[r].overrides.contracts IN \E i, j \in DOMAIN c : i # j /\ c[i].id = c[j].id
ErrorHasCause(r) ==
  /\ handler[r].pc \in {"catch", "assertFailed", "writeFailed"} =>
       handler[r].error # <<>> /\ (Head(handler[r].error) = "zod" => NamedTwice(r))
  /\ handler[r].status = 400 => NamedTwice(r)

\* The inductive invariant of planning: rows, handlers, answers and errors fit together.
PlanInv ==
  \A r \in Requests :
    RowFollowsHandler(r) /\ AnswerSaysRow(r) /\ PlanIsChecked(r) /\ ErrorHasCause(r)

\* PLANNING ends, unless the process dies or the database refuses the plan.
PlanningEnds ==
  \A r \in Requests :
    (pstate[r] = "PLANNING") ~>
      (pstate[r] # "PLANNING" \/ handler[r].pc = "lost" \/ handler[r].status = 500)

=============================================================================
