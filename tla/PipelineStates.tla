--------------------------- MODULE PipelineStates ---------------------------
(***************************************************************************)
(* The pipeline state machine of apps/api/src/state-machine.ts: the states *)
(* a pipeline row can hold and the table that every store transition is    *)
(* checked against.                                                        *)
(***************************************************************************)

PipelineState ==
  {"DRAFT", "PLANNING", "PLAN_READY", "BUILD_QUEUED", "BUILDING", "VALIDATING",
   "AWAITING_APPROVAL", "DEPLOYING", "LIVE", "NEEDS_INPUT", "UNSUPPORTED_SCOPE",
   "PLAN_FAILED", "BUILD_FAILED", "VALIDATION_FAILED", "FAILED_INTERRUPTED",
   "DEPLOYMENT_FAILED", "CANCELLED"}

\* Mutant: a cancelled pipeline may be retried.
RequeueableAfterCancel ==
  {"PLAN_READY", "AWAITING_APPROVAL", "BUILD_FAILED", "VALIDATION_FAILED",
   "FAILED_INTERRUPTED", "DEPLOYMENT_FAILED", "CANCELLED"}

\* The states from which a (re)build may be queued.
Requeueable ==
  {"PLAN_READY", "AWAITING_APPROVAL", "BUILD_FAILED", "VALIDATION_FAILED",
   "FAILED_INTERRUPTED", "DEPLOYMENT_FAILED"}

\* CANCELLED and UNSUPPORTED_SCOPE have no successor, so cannot be cancelled.
Cancellable == PipelineState \ {"CANCELLED", "UNSUPPORTED_SCOPE"}

Transitions ==
  UNION {
    Cancellable \X {"CANCELLED"},
    Requeueable \X {"BUILD_QUEUED"},
    {"DRAFT", "NEEDS_INPUT", "PLAN_FAILED"} \X {"PLANNING"},
    {"PLANNING"} \X {"PLAN_READY", "NEEDS_INPUT", "UNSUPPORTED_SCOPE", "PLAN_FAILED"},
    {"BUILD_QUEUED"} \X {"BUILDING"},
    {"BUILDING"} \X {"VALIDATING", "BUILD_FAILED"},
    {"VALIDATING"} \X {"AWAITING_APPROVAL", "VALIDATION_FAILED"},
    {"BUILD_QUEUED", "BUILDING", "VALIDATING"} \X {"FAILED_INTERRUPTED"},
    {"AWAITING_APPROVAL", "DEPLOYMENT_FAILED"} \X {"DEPLOYING"},
    {"DEPLOYING"} \X {"LIVE"},
    {"DEPLOYING", "LIVE"} \X {"DEPLOYMENT_FAILED"} }

\* The same operator guards canPipelineTransition and assertPipelineTransition.
CanTransition(from, to) == <<from, to>> \in Transitions

=============================================================================
