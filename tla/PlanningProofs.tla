--------------------------- MODULE PlanningProofs ---------------------------
(***************************************************************************)
(* Proofs about planning for every number of requests, whatever the model  *)
(* replies, the provider throws and the callers override: the inductive    *)
(* invariant PlanInv, and what it says about answers, plans and errors.    *)
(***************************************************************************)
EXTENDS Planning, SequenceTheorems, TLAPS

RequestInv(r) == RowFollowsHandler(r) /\ AnswerSaysRow(r) /\ PlanIsChecked(r) /\ ErrorHasCause(r)

-----------------------------------------------------------------------------
(* Handlers.                                                               *)

\* A handler stays well-typed field by field; the provers need each combination of fields
\* that an action writes to be put together once.
Statuses == {200, 400, 409, 422, 500, 502, 503}

LEMMA PcTyped ==
  ASSUME NEW h \in HandlerRecord, NEW pc \in HandlerPc
  PROVE  [h EXCEPT !.pc = pc] \in HandlerRecord
BY DEF HandlerRecord

LEMMA OverridesTyped ==
  ASSUME NEW h \in HandlerRecord, NEW o \in Overrides
  PROVE  [h EXCEPT !.overrides = o] \in HandlerRecord
BY DEF HandlerRecord

LEMMA TargetTyped ==
  ASSUME NEW h \in HandlerRecord, NEW to \in PipelineState
  PROVE  [h EXCEPT !.to = to] \in HandlerRecord
BY DEF HandlerRecord

LEMMA SpecTyped ==
  ASSUME NEW h \in HandlerRecord, NEW s \in PipelineSpec
  PROVE  [h EXCEPT !.spec = s] \in HandlerRecord
BY DEF HandlerRecord

LEMMA ErrorTyped ==
  ASSUME NEW h \in HandlerRecord, NEW error \in Errors
  PROVE  [h EXCEPT !.error = error] \in HandlerRecord
BY DEF HandlerRecord

LEMMA StatusTyped ==
  ASSUME NEW h \in HandlerRecord, NEW status \in Statuses
  PROVE  [h EXCEPT !.status = status] \in HandlerRecord
BY DEF HandlerRecord, Statuses

LEMMA PcOverridesTyped ==
  ASSUME NEW h \in HandlerRecord, NEW pc \in HandlerPc, NEW o \in Overrides
  PROVE  [h EXCEPT !.pc = pc, !.overrides = o] \in HandlerRecord
<1> DEFINE g == [h EXCEPT !.pc = pc]
<1>1. g \in HandlerRecord
  BY PcTyped
<1>2. [h EXCEPT !.pc = pc, !.overrides = o] = [g EXCEPT !.overrides = o]
  OBVIOUS
<1> HIDE DEF g
<1> QED BY <1>1, <1>2, OverridesTyped

LEMMA PcTargetTyped ==
  ASSUME NEW h \in HandlerRecord, NEW pc \in HandlerPc, NEW to \in PipelineState
  PROVE  [h EXCEPT !.pc = pc, !.to = to] \in HandlerRecord
<1> DEFINE g == [h EXCEPT !.pc = pc]
<1>1. g \in HandlerRecord
  BY PcTyped
<1>2. [h EXCEPT !.pc = pc, !.to = to] = [g EXCEPT !.to = to]
  OBVIOUS
<1> HIDE DEF g
<1> QED BY <1>1, <1>2, TargetTyped

LEMMA PcErrorTyped ==
  ASSUME NEW h \in HandlerRecord, NEW pc \in HandlerPc, NEW error \in Errors
  PROVE  [h EXCEPT !.pc = pc, !.error = error] \in HandlerRecord
<1> DEFINE g == [h EXCEPT !.pc = pc]
<1>1. g \in HandlerRecord
  BY PcTyped
<1>2. [h EXCEPT !.pc = pc, !.error = error] = [g EXCEPT !.error = error]
  OBVIOUS
<1> HIDE DEF g
<1> QED BY <1>1, <1>2, ErrorTyped

LEMMA PcStatusTyped ==
  ASSUME NEW h \in HandlerRecord, NEW pc \in HandlerPc, NEW status \in Statuses
  PROVE  [h EXCEPT !.pc = pc, !.status = status] \in HandlerRecord
<1> DEFINE g == [h EXCEPT !.pc = pc]
<1>1. g \in HandlerRecord
  BY PcTyped
<1>2. [h EXCEPT !.pc = pc, !.status = status] = [g EXCEPT !.status = status]
  OBVIOUS
<1> HIDE DEF g
<1> QED BY <1>1, <1>2, StatusTyped

LEMMA PcTargetSpecTyped ==
  ASSUME NEW h \in HandlerRecord, NEW pc \in HandlerPc, NEW to \in PipelineState,
         NEW s \in PipelineSpec
  PROVE  [h EXCEPT !.pc = pc, !.to = to, !.spec = s] \in HandlerRecord
<1> DEFINE g == [h EXCEPT !.pc = pc, !.to = to]
<1>1. g \in HandlerRecord
  BY PcTargetTyped
<1>2. [h EXCEPT !.pc = pc, !.to = to, !.spec = s] = [g EXCEPT !.spec = s]
  OBVIOUS
<1> HIDE DEF g
<1> QED BY <1>1, <1>2, SpecTyped

LEMMA StoreHandler ==
  ASSUME handler \in [Requests -> HandlerRecord], NEW r \in Requests, NEW h \in HandlerRecord,
         handler' = [handler EXCEPT ![r] = h]
  PROVE  /\ handler' \in [Requests -> HandlerRecord]
         /\ handler'[r] = h
         /\ \A q \in Requests \ {r} : handler'[q] = handler[q]
OBVIOUS

\* What stays of a handler that moves on.
Keeps(r) ==
  /\ handler' \in [Requests -> HandlerRecord]
  /\ handler'[r].overrides = handler[r].overrides
  /\ \A q \in Requests \ {r} : handler'[q] = handler[q]

LEMMA GotoTyped ==
  ASSUME handler \in [Requests -> HandlerRecord], NEW r \in Requests, NEW pc \in HandlerPc,
         Goto(r, pc)
  PROVE  /\ Keeps(r)
         /\ handler'[r].pc = pc /\ handler'[r].to = handler[r].to
         /\ handler'[r].spec = handler[r].spec /\ handler'[r].error = handler[r].error
         /\ handler'[r].status = handler[r].status
BY DEF Goto, HandlerRecord, Keeps

LEMMA HttpStatusTyped ==
  ASSUME NEW error \in Errors
  PROVE  /\ HttpStatus(error) \in {400, 409, 500, 502, 503}
         /\ HttpStatus(error) = 400 => Head(error) = "zod"
BY DEF HttpStatus

LEMMA RejectTyped ==
  ASSUME handler \in [Requests -> HandlerRecord], NEW r \in Requests, NEW error \in Errors,
         Reject(r, error)
  PROVE  /\ Keeps(r)
         /\ handler'[r].pc = "done"
         /\ handler'[r].status = HttpStatus(error)
<1> DEFINE h == [handler[r] EXCEPT !.pc = "done", !.status = HttpStatus(error)]
<1>1. h \in HandlerRecord /\ h.pc = "done" /\ h.status = HttpStatus(error)
      /\ h.overrides = handler[r].overrides
  <2>1. HttpStatus(error) \in Statuses /\ "done" \in HandlerPc
    BY HttpStatusTyped DEF HandlerPc, Statuses
  <2>2. handler[r] \in HandlerRecord
    OBVIOUS
  <2>3. h \in HandlerRecord
    BY <2>1, <2>2, PcStatusTyped
  <2>4. h.pc = "done" /\ h.overrides = handler[r].overrides
    BY <2>2 DEF HandlerRecord
  <2>5. h.status = HttpStatus(error)
    BY <2>2 DEF HandlerRecord
  <2> QED BY <2>3, <2>4, <2>5
<1>2. handler' = [handler EXCEPT ![r] = h]
  BY DEF Reject
<1> HIDE DEF h
<1> QED BY <1>1, <1>2, StoreHandler DEF Keeps

LEMMA ThrowTyped ==
  ASSUME handler \in [Requests -> HandlerRecord], NEW r \in Requests, NEW error \in Errors,
         Throw(r, error)
  PROVE  /\ Keeps(r)
         /\ handler'[r].pc = "catch" /\ handler'[r].error = error
         /\ handler'[r].status = handler[r].status
<1> DEFINE h == [handler[r] EXCEPT !.pc = "catch", !.error = error]
<1>1. h \in HandlerRecord /\ h.pc = "catch" /\ h.error = error
      /\ h.overrides = handler[r].overrides /\ h.status = handler[r].status
  <2>1. "catch" \in HandlerPc
    BY DEF HandlerPc
  <2>2. handler[r] \in HandlerRecord
    OBVIOUS
  <2>3. h \in HandlerRecord
    BY <2>1, <2>2, PcErrorTyped
  <2>4. h.pc = "catch" /\ h.overrides = handler[r].overrides
    BY <2>2 DEF HandlerRecord
  <2>5. h.error = error /\ h.status = handler[r].status
    BY <2>2 DEF HandlerRecord
  <2> QED BY <2>3, <2>4, <2>5
<1>2. handler' = [handler EXCEPT ![r] = h]
  BY DEF Throw
<1> HIDE DEF h
<1> QED BY <1>1, <1>2, StoreHandler DEF Keeps

\* A step of one request leaves the others alone.
LEMMA OthersKeepInv ==
  ASSUME PlanInv, NEW r \in Requests, RequestInv(r)',
         \A q \in Requests \ {r} :
           /\ handler'[q] = handler[q] /\ pstate'[q] = pstate[q] /\ spec'[q] = spec[q]
           /\ plan'[q] = plan[q] /\ vaults'[q] = vaults[q] /\ canceller'[q] = canceller[q]
  PROVE  PlanInv'
<1> SUFFICES ASSUME NEW q \in Requests PROVE RequestInv(q)'
  BY DEF PlanInv, RequestInv
<1>1. CASE q = r
  BY <1>1
<1>2. CASE q # r
  BY <1>2 DEF PlanInv, RequestInv, RowFollowsHandler, AnswerSaysRow, PlanIsChecked,
              ErrorHasCause, NamedTwice
<1> QED BY <1>1, <1>2

LEMMA ErrorsOfOurs ==
  /\ <<"illegalTransition">> \in Errors /\ Head(<<"illegalTransition">>) = "illegalTransition"
  /\ <<"unavailable">> \in Errors /\ Head(<<"unavailable">>) = "unavailable"
  /\ <<"plain">> \in Errors /\ Head(<<"plain">>) = "plain"
  /\ <<"zod">> \in Errors
  /\ <<"response">> \in Errors /\ Head(<<"response">>) = "response"
  /\ <<"response", "zod">> \in Errors /\ Head(<<"response", "zod">>) = "response"
BY DEF Errors, Layer

\* A step of the handler of one request that writes no row.
LEMMA HandlerOnly ==
  ASSUME TypeOK, PlanInv, NEW r \in Requests, Keeps(r),
         UNCHANGED <<rows, canceller, crashes>>, RequestInv(r)'
  PROVE  TypeOK' /\ PlanInv'
<1>1. TypeOK'
  BY DEF TypeOK, Keeps, rows
<1>2. PlanInv'
  BY OthersKeepInv DEF Keeps, rows
<1> QED BY <1>1, <1>2

-----------------------------------------------------------------------------
(* Steps of the handler.                                                   *)

LEMMA MoveOn ==
  ASSUME TypeOK, PlanInv, NEW r \in Requests,
         \/ PlanningRead(r) \/ OutcomeRead(r) \/ RecordRead(r) \/ CatchRead(r) \/ FailedRead(r)
  PROVE  TypeOK' /\ PlanInv'
<1> USE DEF RequestInv, RowFollowsHandler, AnswerSaysRow, PlanIsChecked, ErrorHasCause, NamedTwice
<1>0. handler \in [Requests -> HandlerRecord] /\ RequestInv(r)
  BY DEF TypeOK, PlanInv
<1>1. UNCHANGED <<rows, canceller, crashes>>
  BY DEF PlanningRead, OutcomeRead, RecordRead, CatchRead, FailedRead
<1>2. UNCHANGED <<pstate, spec, plan, vaults>>
  BY <1>1 DEF rows
<1>3. CASE Goto(r, "writePlanning") /\ PlanningRead(r)
  <2>1. Keeps(r) /\ handler'[r].pc = "writePlanning" /\ handler'[r].status = handler[r].status
    BY <1>0, <1>3, GotoTyped DEF HandlerPc
  <2>2. RequestInv(r)'
    BY <1>0, <1>1, <1>2, <1>3, <2>1 DEF PlanningRead, Keeps
  <2> QED BY <1>1, <2>1, <2>2, HandlerOnly
<1>4. CASE Goto(r, "writeOutcome") /\ OutcomeRead(r)
  <2>1. /\ Keeps(r) /\ handler'[r].pc = "writeOutcome" /\ handler'[r].status = handler[r].status
        /\ handler'[r].to = handler[r].to
    BY <1>0, <1>4, GotoTyped DEF HandlerPc
  <2>2. RequestInv(r)'
    BY <1>0, <1>1, <1>2, <1>4, <2>1 DEF OutcomeRead, Keeps
  <2> QED BY <1>1, <2>1, <2>2, HandlerOnly
<1>5. CASE Goto(r, "writeRecord") /\ RecordRead(r)
  <2>1. /\ Keeps(r) /\ handler'[r].pc = "writeRecord" /\ handler'[r].status = handler[r].status
        /\ handler'[r].spec = handler[r].spec
    BY <1>0, <1>5, GotoTyped DEF HandlerPc
  <2>2. RequestInv(r)'
    BY <1>0, <1>1, <1>2, <1>5, <2>1 DEF RecordRead, Keeps
  <2> QED BY <1>1, <2>1, <2>2, HandlerOnly
<1>6. ASSUME NEW pc \in {"assertFailed", "writeFailed"}, Goto(r, pc), CatchRead(r) \/ FailedRead(r)
      PROVE  TypeOK' /\ PlanInv'
  <2>1. /\ Keeps(r) /\ handler'[r].pc = pc /\ handler'[r].status = handler[r].status
        /\ handler'[r].error = handler[r].error
    BY <1>0, <1>6, GotoTyped DEF HandlerPc
  <2>2. RequestInv(r)'
    BY <1>0, <1>1, <1>2, <1>6, <2>1 DEF CatchRead, FailedRead, Keeps
  <2> QED BY <1>1, <2>1, <2>2, HandlerOnly
\* Once a cancellation is in the row, no transition out of it is allowed.
<1>7. \A to : ~CanTransition("CANCELLED", to)
  BY DEF CanTransition, Transitions, Cancellable, Requeueable
<1>8. /\ CanTransition("DRAFT", "PLANNING") /\ CanTransition("PLANNING", "PLAN_READY")
      /\ CanTransition("PLANNING", "NEEDS_INPUT") /\ CanTransition("PLANNING", "UNSUPPORTED_SCOPE")
      /\ CanTransition("PLANNING", "PLAN_FAILED")
  BY DEF CanTransition, Transitions
<1>9. CASE OutcomeRead(r) /\ Throw(r, <<"illegalTransition">>)
  <2>1. /\ Keeps(r) /\ handler'[r].pc = "catch" /\ handler'[r].error = <<"illegalTransition">>
        /\ handler'[r].status = handler[r].status
    BY <1>0, <1>9, ThrowTyped, ErrorsOfOurs
  <2>2. handler'[r].error # <<>> /\ Head(handler'[r].error) # "zod"
    BY <2>1, ErrorsOfOurs
  <2>3. RequestInv(r)'
    BY <1>0, <1>1, <1>2, <1>9, <2>1, <2>2 DEF OutcomeRead, Keeps
  <2> QED BY <1>1, <2>1, <2>3, HandlerOnly
<1>10. ASSUME NEW error \in Errors, Reject(r, error),
              Head(error) = "zod" => NamedTwice(r), pstate[r] = "CANCELLED",
              spec[r] = None, handler[r].pc # "idle"
       PROVE  TypeOK' /\ PlanInv'
  <2>1. /\ Keeps(r) /\ handler'[r].pc = "done" /\ handler'[r].status = HttpStatus(error)
    BY <1>0, <1>10, RejectTyped
  <2>2. RequestInv(r)'
    BY <1>0, <1>1, <1>2, <1>10, <2>1, HttpStatusTyped DEF Keeps
  <2> QED BY <1>1, <2>1, <2>2, HandlerOnly
<1>11. CASE \/ PlanningRead(r) /\ ~Goto(r, "writePlanning")
            \/ RecordRead(r) /\ ~Goto(r, "writeRecord")
            \/ FailedRead(r) /\ ~Goto(r, "writeFailed")
  <2>1. pstate[r] = "CANCELLED" /\ Reject(r, <<"illegalTransition">>)
    BY <1>0, <1>8, <1>11 DEF PlanningRead, RecordRead, FailedRead
  <2> QED BY <1>0, <1>10, <1>11, <2>1, ErrorsOfOurs DEF PlanningRead, RecordRead, FailedRead
<1>12. CASE CatchRead(r) /\ Reject(r, handler[r].error)
  <2>1. pstate[r] = "CANCELLED" \/ Goto(r, "assertFailed")
    BY <1>0, <1>12 DEF CatchRead, Failable
  <2>2. handler[r].error \in Errors
    BY <1>0 DEF HandlerRecord
  <2> QED BY <1>0, <1>6, <1>10, <1>12, <2>1, <2>2 DEF CatchRead
<1> QED BY <1>3, <1>4, <1>5, <1>6, <1>9, <1>11, <1>12
    DEF PlanningRead, OutcomeRead, RecordRead, CatchRead, FailedRead

\* A write of the handler moves the row of its request to a state, with or without a plan.
LEMMA RowTyped ==
  ASSUME TypeOK, PlanInv, NEW r \in Requests, NEW s \in PipelineState, SetState(r, s)
  PROVE  /\ pstate' \in [Requests -> PipelineState \cup {None}]
         /\ pstate'[r] = s
         /\ \A q \in Requests \ {r} : pstate'[q] = pstate[q]
BY DEF TypeOK, SetState

LEMMA RowWritten ==
  ASSUME TypeOK, PlanInv, NEW r \in Requests, NEW s \in PipelineState, SetState(r, s),
         Keeps(r), UNCHANGED <<spec, plan, vaults, canceller, crashes>>, RequestInv(r)'
  PROVE  TypeOK' /\ PlanInv'
<1>1. TypeOK'
  BY RowTyped DEF TypeOK, Keeps
<1>2. PlanInv'
  BY RowTyped, OthersKeepInv DEF Keeps
<1> QED BY <1>1, <1>2

LEMMA PlanRequestInv ==
  ASSUME TypeOK, PlanInv, NEW r \in Requests, NEW o \in Overrides, PlanRequest(r, o)
  PROVE  TypeOK' /\ PlanInv'
<1> DEFINE h == [handler[r] EXCEPT !.pc = "assertPlanning", !.overrides = o]
<1>0. handler \in [Requests -> HandlerRecord] /\ RequestInv(r)
  BY DEF TypeOK, PlanInv, RequestInv
<1>1. /\ h \in HandlerRecord /\ h.pc = "assertPlanning" /\ h.overrides = o
      /\ h.status = handler[r].status
  <2>1. handler[r] \in HandlerRecord /\ "assertPlanning" \in HandlerPc
    BY <1>0 DEF HandlerPc
  <2>2. h \in HandlerRecord
    BY <2>1, PcOverridesTyped
  <2>3. h.pc = "assertPlanning" /\ h.overrides = o /\ h.status = handler[r].status
    BY <2>1 DEF HandlerRecord
  <2> QED BY <2>2, <2>3
<1>2. handler' = [handler EXCEPT ![r] = h]
  BY DEF PlanRequest
<1> HIDE DEF h
<1>3. /\ handler' \in [Requests -> HandlerRecord] /\ handler'[r] = h
      /\ \A q \in Requests \ {r} : handler'[q] = handler[q]
  BY <1>0, <1>1, <1>2, StoreHandler
<1>4. /\ "DRAFT" \in PipelineState /\ SetState(r, "DRAFT")
      /\ UNCHANGED <<spec, plan, vaults, canceller, crashes>>
  BY DEF PlanRequest, PipelineState
<1>5. /\ pstate' \in [Requests -> PipelineState \cup {None}] /\ pstate'[r] = "DRAFT"
      /\ \A q \in Requests \ {r} : pstate'[q] = pstate[q]
  BY <1>4, RowTyped
<1>6. RequestInv(r)'
  BY <1>0, <1>1, <1>3, <1>4, <1>5
  DEF PlanRequest, RequestInv, RowFollowsHandler, AnswerSaysRow, PlanIsChecked, ErrorHasCause,
      NamedTwice
<1>7. TypeOK'
  BY <1>3, <1>4, <1>5 DEF TypeOK
<1> QED BY <1>3, <1>4, <1>5, <1>6, <1>7, OthersKeepInv

LEMMA WriteInv ==
  ASSUME TypeOK, PlanInv, NEW r \in Requests,
         PlanningWrite(r) \/ OutcomeWrite(r) \/ FailedWrite(r)
  PROVE  TypeOK' /\ PlanInv'
<1> USE DEF RequestInv, RowFollowsHandler, AnswerSaysRow, PlanIsChecked, ErrorHasCause, NamedTwice
<1>0. handler \in [Requests -> HandlerRecord] /\ RequestInv(r)
  BY DEF TypeOK, PlanInv
<1>1. UNCHANGED <<spec, plan, vaults, canceller, crashes>>
  BY DEF PlanningWrite, OutcomeWrite, FailedWrite
<1>2. CASE PlanningWrite(r)
  <2>1. Keeps(r) /\ handler'[r].pc = "ask" /\ handler'[r].status = handler[r].status
    BY <1>0, <1>2, GotoTyped DEF HandlerPc, PlanningWrite
  <2>2. "PLANNING" \in PipelineState /\ SetState(r, "PLANNING")
    BY <1>2 DEF PlanningWrite, PipelineState
  <2>3. pstate'[r] = "PLANNING"
    BY <2>2, RowTyped
  <2>4. RequestInv(r)'
    BY <1>0, <1>1, <1>2, <2>1, <2>3 DEF PlanningWrite, Keeps
  <2> QED BY <1>1, <2>1, <2>2, <2>4, RowWritten
<1>3. CASE OutcomeWrite(r)
  <2>1. /\ Keeps(r) /\ handler'[r].pc = "reply" /\ handler'[r].status = handler[r].status
        /\ handler'[r].to = handler[r].to
    BY <1>0, <1>3, GotoTyped DEF HandlerPc, OutcomeWrite
  <2>2. /\ handler[r].to \in {"NEEDS_INPUT", "UNSUPPORTED_SCOPE"}
        /\ handler[r].to \in PipelineState /\ SetState(r, handler[r].to)
    BY <1>0, <1>3 DEF OutcomeWrite, PipelineState
  <2>3. pstate'[r] = handler[r].to
    BY <2>2, RowTyped
  <2>4. RequestInv(r)'
    BY <1>0, <1>1, <1>3, <2>1, <2>2, <2>3 DEF OutcomeWrite, Keeps
  <2> QED BY <1>1, <2>1, <2>2, <2>4, RowWritten
<1>4. CASE FailedWrite(r)
  <2>0. handler[r].error \in Errors
    BY <1>0 DEF HandlerRecord
  <2>1. /\ Keeps(r) /\ handler'[r].pc = "done"
        /\ handler'[r].status = HttpStatus(handler[r].error)
    BY <1>0, <1>4, <2>0, RejectTyped DEF FailedWrite
  <2>2. "PLAN_FAILED" \in PipelineState /\ SetState(r, "PLAN_FAILED")
    BY <1>4 DEF FailedWrite, PipelineState
  <2>3. pstate'[r] = "PLAN_FAILED"
    BY <2>2, RowTyped
  <2>4. RequestInv(r)'
    BY <1>0, <1>1, <1>4, <2>0, <2>1, <2>3, HttpStatusTyped DEF FailedWrite, Keeps
  <2> QED BY <1>1, <2>1, <2>2, <2>4, RowWritten
<1> QED BY <1>2, <1>3, <1>4

\* A database that refuses the plan is the one thing that leaves a pipeline PLANNING.
LEMMA RecordFailsInv ==
  ASSUME TypeOK, PlanInv, NEW r \in Requests, RecordFails(r)
  PROVE  TypeOK' /\ PlanInv'
<1>0. handler \in [Requests -> HandlerRecord] /\ RequestInv(r)
  BY DEF TypeOK, PlanInv, RequestInv
<1>1. Keeps(r) /\ handler'[r].pc = "done" /\ handler'[r].status = HttpStatus(<<"plain">>)
  BY <1>0, RejectTyped, ErrorsOfOurs DEF RecordFails
<1>2. HttpStatus(<<"plain">>) = 500
  BY ErrorsOfOurs DEF HttpStatus
<1>3. RequestInv(r)'
  BY <1>0, <1>1, <1>2
  DEF RecordFails, rows, Keeps, RequestInv, RowFollowsHandler, AnswerSaysRow, PlanIsChecked,
      ErrorHasCause, NamedTwice
<1> QED BY <1>1, <1>3, HandlerOnly DEF RecordFails

LEMMA RespondInv ==
  ASSUME TypeOK, PlanInv, NEW r \in Requests, Respond(r)
  PROVE  TypeOK' /\ PlanInv'
<1> DEFINE status == IF pstate[r] = "UNSUPPORTED_SCOPE" THEN 422 ELSE 200
           h == [handler[r] EXCEPT !.pc = "done", !.status = status]
<1>0. handler \in [Requests -> HandlerRecord] /\ RequestInv(r)
  BY DEF TypeOK, PlanInv, RequestInv
<1>1. h \in HandlerRecord /\ h.pc = "done" /\ h.status = status
      /\ h.overrides = handler[r].overrides
  <2>1. handler[r] \in HandlerRecord /\ "done" \in HandlerPc /\ status \in Statuses
    BY <1>0 DEF HandlerPc, Statuses
  <2> HIDE DEF status
  <2>2. h \in HandlerRecord
    BY <2>1, PcStatusTyped
  <2>3. h.pc = "done" /\ h.status = status /\ h.overrides = handler[r].overrides
    BY <2>1 DEF HandlerRecord
  <2> QED BY <2>2, <2>3
<1>2. handler' = [handler EXCEPT ![r] = h]
  BY DEF Respond
<1> HIDE DEF h
<1>3. Keeps(r) /\ handler'[r].pc = "done" /\ handler'[r].status = status
  BY <1>0, <1>1, <1>2, StoreHandler DEF Keeps
<1>4. RequestInv(r)'
  BY <1>0, <1>3
  DEF Respond, rows, Keeps, RequestInv, RowFollowsHandler, AnswerSaysRow, PlanIsChecked,
      ErrorHasCause, NamedTwice
<1> QED BY <1>3, <1>4, HandlerOnly DEF Respond

-----------------------------------------------------------------------------
(* Specifications.                                                         *)

LEMMA OverrideTyped ==
  ASSUME NEW s \in PipelineSpec, NEW o \in Override
  PROVE  LET t == ApplyOverrides(s, o) IN
         /\ t \in PipelineSpec
         /\ t.contracts = IF o.contracts = <<>> THEN s.contracts ELSE o.contracts
         /\ t.startBlock = IF o.startBlock = None THEN s.startBlock ELSE o.startBlock
         /\ t.events = s.events /\ t.topDepositors = s.topDepositors
<1> DEFINE contracts == IF o.contracts = <<>> THEN s.contracts ELSE o.contracts
           startBlock == IF o.startBlock = None THEN s.startBlock ELSE o.startBlock
           g == [s EXCEPT !.contracts = contracts]
           t == [g EXCEPT !.startBlock = startBlock]
<1>2. contracts \in Seq(Contract) /\ startBlock \in StartBlocks
  BY DEF PipelineSpec, Override
<1>1. ApplyOverrides(s, o) = t
  <2>1. ApplyOverrides(s, o) = [s EXCEPT !.contracts = contracts, !.startBlock = startBlock]
    BY DEF ApplyOverrides
  <2> QED BY <2>1
<1> HIDE DEF contracts, startBlock
<1>3. g \in PipelineSpec
  BY <1>2 DEF PipelineSpec
<1>4. /\ g.contracts = contracts /\ g.startBlock = s.startBlock
      /\ g.events = s.events /\ g.topDepositors = s.topDepositors
  BY DEF PipelineSpec
<1> HIDE DEF g
<1>5. t \in PipelineSpec
  BY <1>2, <1>3 DEF PipelineSpec
<1>6. /\ t.contracts = g.contracts /\ t.startBlock = startBlock
      /\ t.events = g.events /\ t.topDepositors = g.topDepositors
  BY <1>3 DEF PipelineSpec
<1> HIDE DEF t
<1> QED BY <1>1, <1>4, <1>5, <1>6 DEF contracts, startBlock

LEMMA LoweredContract ==
  ASSUME NEW c \in Contract
  PROVE  LET l == [c EXCEPT !.lower = TRUE] IN l \in Contract /\ l.id = c.id /\ l.lower
BY DEF Contract

LEMMA SameLength ==
  ASSUME NEW S, NEW s \in Seq(S), NEW t \in [DOMAIN s -> S]
  PROVE  t \in Seq(S) /\ Len(t) = Len(s)
<1>1. Len(s) \in Nat /\ DOMAIN s = 1..Len(s)
  OBVIOUS
<1> QED BY <1>1

LEMMA NormalTyped ==
  ASSUME NEW s \in PipelineSpec
  PROVE  LET t == NormalizePipelineSpec(s) IN
         /\ t \in PipelineSpec
         /\ DOMAIN t.contracts = DOMAIN s.contracts /\ Len(t.contracts) = Len(s.contracts)
         /\ \A i \in DOMAIN s.contracts :
              t.contracts[i].id = s.contracts[i].id /\ t.contracts[i].lower
         /\ t.events = s.events /\ t.topDepositors = s.topDepositors
         /\ t.startBlock = s.startBlock
<1> DEFINE contracts == [i \in DOMAIN s.contracts |-> [s.contracts[i] EXCEPT !.lower = TRUE]]
           t == [s EXCEPT !.contracts = contracts]
<1>0. contracts = [i \in DOMAIN s.contracts |-> contracts[i]]
  OBVIOUS
<1>1. NormalizePipelineSpec(s) = t
  BY DEF NormalizePipelineSpec, PipelineSpec
<1>2. s.contracts \in Seq(Contract)
  BY DEF PipelineSpec
<1>3. \A i \in DOMAIN s.contracts :
        /\ contracts[i] \in Contract
        /\ contracts[i].id = s.contracts[i].id /\ contracts[i].lower
  <2> TAKE i \in DOMAIN s.contracts
  <2>1. s.contracts[i] \in Contract /\ contracts[i] = [s.contracts[i] EXCEPT !.lower = TRUE]
    BY <1>2
  <2> HIDE DEF contracts
  <2> QED BY <2>1, LoweredContract
<1>4. DOMAIN contracts = DOMAIN s.contracts
  OBVIOUS
<1> HIDE DEF contracts
<1>5. contracts \in Seq(Contract) /\ Len(contracts) = Len(s.contracts)
  <2>0. s.contracts \in Seq(Contract)
    BY <1>2
  <2>1. contracts \in [DOMAIN s.contracts -> Contract]
    BY <1>0, <1>3, <1>4
  <2> QED BY <2>0, <2>1, SameLength
<1>6. /\ t.contracts = contracts /\ t.startBlock = s.startBlock
      /\ t.events = s.events /\ t.topDepositors = s.topDepositors
      /\ t \in PipelineSpec
  BY <1>5 DEF PipelineSpec
<1> HIDE DEF t
<1> QED BY <1>1, <1>3, <1>4, <1>5, <1>6

\* Two entries of a list that does not parse for its contracts name the same one.
LEMMA DistinctMeaning ==
  ASSUME NEW c \in Seq(Contract)
  PROVE  Distinct(c) <=> \A i, j \in DOMAIN c : c[i].id = c[j].id => i = j
BY DEF Distinct, IsInjective

LEMMA ShortList ==
  ASSUME NEW c \in Seq(Contract), c # <<>>, Len(c) <= 3
  PROVE  Len(c) \in 1..3
<1> DEFINE n == Len(c)
<1>1. n \in Nat /\ n # 0 /\ n <= 3
  BY EmptySeq
<1> HIDE DEF n
<1>2. n \in 1..3
  BY <1>1
<1> QED BY <1>2 DEF n

\* What is recorded carries the caller's fields; what is refused is the caller's doing.
LEMMA AcceptedIsSound ==
  ASSUME NEW s \in PipelineSpec, ParsePipelineSpec(s), ~s.topDepositors, NEW o \in Override,
         Len(o.contracts) <= 3
  PROVE  LET t == ApplyOverrides(s, o) IN
         /\ ParsePipelineSpec(t) => /\ NormalizePipelineSpec(t) \in PipelineSpec
                                   /\ SoundFor(NormalizePipelineSpec(t), o)
         /\ ~ParsePipelineSpec(t) =>
              \E i, j \in DOMAIN o.contracts :
                i # j /\ o.contracts[i].id = o.contracts[j].id
<1> DEFINE t == ApplyOverrides(s, o)
           n == NormalizePipelineSpec(t)
<1>1. /\ t \in PipelineSpec
      /\ t.contracts = IF o.contracts = <<>> THEN s.contracts ELSE o.contracts
      /\ t.startBlock = IF o.startBlock = None THEN s.startBlock ELSE o.startBlock
      /\ t.events = s.events /\ t.topDepositors = s.topDepositors
  BY OverrideTyped
<1> HIDE DEF t
<1>2. /\ n \in PipelineSpec
      /\ DOMAIN n.contracts = DOMAIN t.contracts /\ Len(n.contracts) = Len(t.contracts)
      /\ \A i \in DOMAIN t.contracts :
           n.contracts[i].id = t.contracts[i].id /\ n.contracts[i].lower
      /\ n.events = t.events /\ n.topDepositors = t.topDepositors
      /\ n.startBlock = t.startBlock
  BY <1>1, NormalTyped
<1> HIDE DEF n
<1>3. t.contracts \in Seq(Contract) /\ n.contracts \in Seq(Contract) /\ o.contracts \in Seq(Contract)
  BY <1>1, <1>2 DEF PipelineSpec, Override
<1>4. ASSUME ParsePipelineSpec(t) PROVE SoundFor(n, o)
  <2>1. ParsePipelineSpec(n)
    <3>1. Distinct(n.contracts)
      BY <1>2, <1>3, <1>4, DistinctMeaning DEF ParsePipelineSpec
    <3> QED BY <1>2, <1>4, <3>1 DEF ParsePipelineSpec
  <2>2. Ids(n.contracts) = Ids(t.contracts)
    BY <1>2 DEF Ids, ToSet
  <2>3. o.contracts # <<>> => Ids(n.contracts) = Ids(o.contracts)
    BY <1>1, <2>2
  <2> QED BY <1>1, <1>2, <2>1, <2>3 DEF SoundFor
<1>5. ASSUME ~ParsePipelineSpec(t)
      PROVE  \E i, j \in DOMAIN o.contracts : i # j /\ o.contracts[i].id = o.contracts[j].id
  <2>1. o.contracts # <<>> /\ t.contracts = o.contracts
    BY <1>1, <1>5 DEF ParsePipelineSpec
  <2>2. Len(o.contracts) \in 1..3
    BY <1>3, <2>1, ShortList
  <2>3. ~Distinct(o.contracts)
    BY <1>1, <1>5, <2>1, <2>2 DEF ParsePipelineSpec
  <2> QED BY <1>3, <2>3, DistinctMeaning
<1> QED BY <1>2, <1>4, <1>5 DEF t, n

\* The filter and the contract rows derived from a plan.
LEMMA DerivedTyped ==
  ASSUME NEW s \in PipelineSpec
  PROVE  DerivePipelineConfig(s) \in PipelineConfig /\ Ids(s.contracts) \in SUBSET Addresses
<1>1. s.contracts \in Seq(Contract) /\ s.events \in Seq(Events)
  BY DEF PipelineSpec
<1>2. ToSet(s.contracts) \in SUBSET Contract /\ ToSet(s.events) \in SUBSET Events
  BY <1>1 DEF ToSet
<1> QED BY <1>2 DEF DerivePipelineConfig, PipelineConfig, Ids, Contract

-----------------------------------------------------------------------------
(* The model's turn.                                                       *)

\* A failed attempt is tried again or leaves plan() with an error that blames no caller.
LEMMA FailInv ==
  ASSUME TypeOK, PlanInv, NEW r \in Requests, handler[r].pc = "ask",
         NEW error \in Errors, error # <<>>, Head(error) # "zod",
         Fail(r, error), UNCHANGED <<rows, canceller, crashes>>
  PROVE  TypeOK' /\ PlanInv'
<1> USE DEF RequestInv, RowFollowsHandler, AnswerSaysRow, PlanIsChecked, ErrorHasCause, NamedTwice
<1>0. handler \in [Requests -> HandlerRecord] /\ RequestInv(r) /\ UNCHANGED rows
  BY DEF TypeOK, PlanInv
<1>1. CASE handler' = [handler EXCEPT ![r].attempts = 1]
  <2>1. /\ handler' \in [Requests -> HandlerRecord]
        /\ handler'[r].pc = handler[r].pc /\ handler'[r].status = handler[r].status
        /\ handler'[r].overrides = handler[r].overrides
        /\ \A q \in Requests \ {r} : handler'[q] = handler[q]
    BY <1>0, <1>1 DEF HandlerRecord
  <2>2. Keeps(r)
    BY <2>1 DEF Keeps
  <2>3. RequestInv(r)'
    BY <1>0, <2>1 DEF rows
  <2> QED BY <2>2, <2>3, HandlerOnly
<1>2. ASSUME NEW e \in Errors, e # <<>>, Head(e) # "zod", Throw(r, e)
      PROVE  TypeOK' /\ PlanInv'
  <2>1. /\ Keeps(r) /\ handler'[r].pc = "catch" /\ handler'[r].error = e
        /\ handler'[r].status = handler[r].status
    BY <1>0, <1>2, ThrowTyped
  <2>2. RequestInv(r)'
    BY <1>0, <1>2, <2>1 DEF rows, Keeps
  <2> QED BY <2>1, <2>2, HandlerOnly
<1>3. CASE Throw(r, IF Unavailable(error) THEN <<"unavailable">> ELSE error)
  <2>1. CASE Unavailable(error)
    BY <1>2, <1>3, <2>1, ErrorsOfOurs
  <2>2. CASE ~Unavailable(error)
    BY <1>2, <1>3, <2>2
  <2> QED BY <2>1, <2>2
<1> QED BY <1>1, <1>3 DEF Fail

LEMMA ProviderFailsInv ==
  ASSUME TypeOK, PlanInv, NEW r \in Requests, NEW e \in PlannerErrors, ProviderFails(r, e)
  PROVE  TypeOK' /\ PlanInv'
<1>1. e \in Seq(Layer) /\ e # <<>> /\ Head(e) # "zod"
  BY PlanningAssumption
<1>2. e \in Errors
  <2> DEFINE all == Layer \cup {"unavailable", "illegalTransition"}
  <2>1. Layer \subseteq all
    OBVIOUS
  <2> HIDE DEF all
  <2>2. e \in Seq(all)
    BY <1>1, <2>1
  <2> QED BY <2>2 DEF Errors, all
<1> QED BY <1>1, <1>2, FailInv DEF ProviderFails

\* A reply that is refused is the planner's error, and one that is not parses.
LEMMA ResponseErrors ==
  ASSUME NEW reply \in Reply
  PROVE  /\ ResponseError(reply) = <<>> \/ ResponseError(reply) = <<"response">>
              \/ ResponseError(reply) = <<"response", "zod">>
         /\ ResponseError(reply) = <<>> /\ reply.status = "ready" =>
              ParsePipelineSpec(reply.spec) /\ ~reply.spec.topDepositors
<1>1. <<"response">> # <<>> /\ <<"response", "zod">> # <<>>
  OBVIOUS
<1>2. reply.spec.topDepositors \in BOOLEAN /\ reply.wellFormed \in BOOLEAN
      /\ reply.forbiddenText \in BOOLEAN
  BY DEF Reply, PipelineSpec
<1> QED BY <1>1, <1>2 DEF ResponseError

\* A valid reply becomes a checked plan, a question, or the caller's error.
LEMMA AcceptInv ==
  ASSUME TypeOK, PlanInv, NEW r \in Requests, handler[r].pc = "ask", NEW reply \in Reply,
         ResponseError(reply) = <<>>, Accept(r, reply), UNCHANGED <<rows, canceller, crashes>>
  PROVE  TypeOK' /\ PlanInv'
<1> DEFINE o == handler[r].overrides
           t == ApplyOverrides(reply.spec, o)
           s == NormalizePipelineSpec(t)
<1> USE DEF RequestInv, RowFollowsHandler, AnswerSaysRow, PlanIsChecked, ErrorHasCause, NamedTwice
<1>0. handler \in [Requests -> HandlerRecord] /\ RequestInv(r) /\ UNCHANGED rows
      /\ handler[r] \in HandlerRecord
  BY DEF TypeOK, PlanInv
<1>1. o \in Override /\ Len(o.contracts) <= 3 /\ reply.spec \in PipelineSpec
  BY <1>0, PlanningAssumption DEF Reply
<1>2. CASE reply.status = "ready"
  <2>1. /\ ParsePipelineSpec(t) => s \in PipelineSpec /\ SoundFor(s, o)
        /\ ~ParsePipelineSpec(t) =>
             \E i, j \in DOMAIN o.contracts : i # j /\ o.contracts[i].id = o.contracts[j].id
    BY <1>1, <1>2, ResponseErrors, AcceptedIsSound
  <2>2. CASE ParsePipelineSpec(t)
    <3> DEFINE h == [handler[r] EXCEPT !.pc = "record", !.to = "PLAN_READY", !.spec = s]
    <3>1. handler' = [handler EXCEPT ![r] = h]
      BY <1>2, <2>2 DEF Accept
    <3>2. s \in PipelineSpec /\ SoundFor(s, o)
      BY <2>1, <2>2
    <3> HIDE DEF s
    <3>3. h \in HandlerRecord
      <4>1. "record" \in HandlerPc /\ "PLAN_READY" \in PipelineState
        BY DEF HandlerPc, PipelineState
      <4> QED BY <1>0, <3>2, <4>1, PcTargetSpecTyped
    <3>4. /\ h.pc = "record" /\ h.status = handler[r].status /\ h.overrides = o
      BY <1>0 DEF HandlerRecord
    <3>5. h.spec = s
      BY <1>0 DEF HandlerRecord
    <3> HIDE DEF h
    <3>6. Keeps(r) /\ handler'[r] = h
      BY <1>0, <3>1, <3>3, <3>4, StoreHandler DEF Keeps
    <3>7. s # None
      BY <3>2, PlanningAssumption
    <3>8. RequestInv(r)'
      BY <1>0, <3>2, <3>4, <3>5, <3>6, <3>7 DEF rows
    <3> QED BY <3>6, <3>8, HandlerOnly
  <2>3. CASE ~ParsePipelineSpec(t)
    <3>1. Throw(r, <<"zod">>)
      BY <1>2, <2>3 DEF Accept
    <3>2. /\ Keeps(r) /\ handler'[r].pc = "catch" /\ handler'[r].error = <<"zod">>
          /\ handler'[r].status = handler[r].status
      BY <1>0, <3>1, ThrowTyped, ErrorsOfOurs
    <3>3. <<"zod">> # <<>> /\ NamedTwice(r)
      BY <2>1, <2>3
    <3>4. RequestInv(r)'
      BY <1>0, <3>2, <3>3 DEF rows, Keeps
    <3> QED BY <3>2, <3>4, HandlerOnly
  <2> QED BY <2>2, <2>3
<1>3. CASE reply.status # "ready"
  <2> DEFINE h == [handler[r] EXCEPT !.pc = "assertOutcome", !.to = Outcome(reply)]
  <2>1. handler' = [handler EXCEPT ![r] = h]
    BY <1>3 DEF Accept
  <2>2. Outcome(reply) \in {"NEEDS_INPUT", "UNSUPPORTED_SCOPE"}
    BY <1>3 DEF Outcome, Reply, ResultStatus
  <2>3. h \in HandlerRecord
    <3>1. Outcome(reply) \in PipelineState /\ "assertOutcome" \in HandlerPc
      BY <2>2 DEF PipelineState, HandlerPc
    <3> QED BY <1>0, <3>1, PcTargetTyped
  <2>4. h.pc = "assertOutcome" /\ h.status = handler[r].status /\ h.overrides = o
    BY <1>0 DEF HandlerRecord
  <2>5. h.to = Outcome(reply)
    BY <1>0 DEF HandlerRecord
  <2> HIDE DEF h
  <2>6. Keeps(r) /\ handler'[r] = h
    BY <1>0, <2>1, <2>3, <2>4, StoreHandler DEF Keeps
  <2>7. RequestInv(r)'
    BY <1>0, <2>2, <2>4, <2>5, <2>6 DEF rows
  <2> QED BY <2>6, <2>7, HandlerOnly
<1> QED BY <1>2, <1>3

LEMMA ModelRepliesInv ==
  ASSUME TypeOK, PlanInv, NEW r \in Requests, NEW reply \in Replies, ModelReplies(r, reply)
  PROVE  TypeOK' /\ PlanInv'
<1>1. reply \in Reply
  BY PlanningAssumption
<1>2. CASE ResponseError(reply) = <<>>
  BY <1>1, <1>2, AcceptInv DEF ModelReplies
<1>3. CASE ResponseError(reply) # <<>>
  <2>1. /\ ResponseError(reply) \in Errors /\ ResponseError(reply) # <<>>
        /\ Head(ResponseError(reply)) # "zod"
    BY <1>1, <1>3, ResponseErrors, ErrorsOfOurs
  <2> QED BY <1>3, <2>1, FailInv DEF ModelReplies
<1> QED BY <1>2, <1>3

\* The plan is recorded: row, filter and contracts in one update.
LEMMA RecordWriteInv ==
  ASSUME TypeOK, PlanInv, NEW r \in Requests, RecordWrite(r)
  PROVE  TypeOK' /\ PlanInv'
<1> DEFINE s == handler[r].spec
           h == [handler[r] EXCEPT !.pc = "done", !.status = 200]
<1> USE DEF RequestInv, RowFollowsHandler, AnswerSaysRow, PlanIsChecked, ErrorHasCause, NamedTwice
<1>0. handler \in [Requests -> HandlerRecord] /\ RequestInv(r) /\ handler[r] \in HandlerRecord
  BY DEF TypeOK, PlanInv
<1>1. s \in PipelineSpec /\ s # None /\ SoundFor(s, handler[r].overrides)
  BY <1>0 DEF RecordWrite, HandlerRecord
<1>2. DerivePipelineConfig(s) \in PipelineConfig /\ Ids(s.contracts) \in SUBSET Addresses
  BY <1>1, DerivedTyped
<1>3. /\ h \in HandlerRecord
      /\ h.pc = "done" /\ h.overrides = handler[r].overrides
  <2>1. "done" \in HandlerPc /\ 200 \in Statuses
    BY DEF HandlerPc, Statuses
  <2>2. h \in HandlerRecord
    BY <1>0, <2>1, PcStatusTyped
  <2>3. h.pc = "done" /\ h.overrides = handler[r].overrides
    BY <1>0 DEF HandlerRecord
  <2> QED BY <2>2, <2>3
<1>4. h.status = 200
  BY <1>0 DEF HandlerRecord
<1>5. handler' = [handler EXCEPT ![r] = h]
  BY DEF RecordWrite
<1> HIDE DEF h
<1>6. Keeps(r) /\ handler'[r] = h
  BY <1>0, <1>3, <1>5, StoreHandler DEF Keeps
<1>7. "PLAN_READY" \in PipelineState /\ SetState(r, "PLAN_READY") /\ UNCHANGED <<canceller, crashes>>
  BY DEF RecordWrite, PipelineState
<1>8. /\ pstate' \in [Requests -> PipelineState \cup {None}] /\ pstate'[r] = "PLAN_READY"
      /\ \A q \in Requests \ {r} : pstate'[q] = pstate[q]
  BY <1>7, RowTyped
<1>9. /\ spec' = [spec EXCEPT ![r] = s]
      /\ plan' = [plan EXCEPT ![r] = DerivePipelineConfig(s)]
      /\ vaults' = [vaults EXCEPT ![r] = Ids(s.contracts)]
  BY DEF RecordWrite, Ids
<1> HIDE DEF s
<1>10. /\ spec' \in [Requests -> PipelineSpec \cup {None}] /\ spec'[r] = s
       /\ plan' \in [Requests -> PipelineConfig \cup {None}] /\ plan'[r] = DerivePipelineConfig(s)
       /\ vaults' \in [Requests -> SUBSET Addresses] /\ vaults'[r] = Ids(s.contracts)
       /\ \A q \in Requests \ {r} :
            spec'[q] = spec[q] /\ plan'[q] = plan[q] /\ vaults'[q] = vaults[q]
  BY <1>1, <1>2, <1>9 DEF TypeOK
<1>11. RequestInv(r)'
  BY <1>0, <1>1, <1>3, <1>4, <1>6, <1>7, <1>8, <1>10 DEF Keeps, RecordWrite
<1>12. TypeOK'
  BY <1>6, <1>7, <1>8, <1>10 DEF TypeOK, Keeps
<1> QED BY <1>6, <1>7, <1>8, <1>10, <1>11, <1>12, OthersKeepInv DEF Keeps

-----------------------------------------------------------------------------
(* Cancellations, crashes, and the invariant.                              *)

\* A cancellation finds a row, so its request has begun; it may come at any point of it.
LEMMA CancelInv ==
  ASSUME TypeOK, PlanInv, NEW r \in Requests, RequestCancel(r) \/ CancelWrite(r)
  PROVE  TypeOK' /\ PlanInv'
<1> USE DEF RequestInv, RowFollowsHandler, AnswerSaysRow, PlanIsChecked, ErrorHasCause, NamedTwice
<1>0. RequestInv(r) /\ handler[r] \in HandlerRecord
  BY DEF TypeOK, PlanInv
<1>1. CASE RequestCancel(r)
  <2>1. /\ canceller' \in [Requests -> {"idle", "write"}]
        /\ \A q \in Requests \ {r} : canceller'[q] = canceller[q]
    BY <1>1 DEF RequestCancel, TypeOK
  <2>2. UNCHANGED <<pstate, spec, plan, vaults, handler, crashes>> /\ pstate[r] # None
    BY <1>1 DEF RequestCancel, rows
  <2>3. RequestInv(r)'
    BY <1>0, <2>2
  <2>4. TypeOK'
    BY <2>1, <2>2 DEF TypeOK
  <2> QED BY <2>1, <2>2, <2>3, <2>4, OthersKeepInv
<1>2. CASE CancelWrite(r)
  <2>1. /\ canceller' \in [Requests -> {"idle", "write"}]
        /\ \A q \in Requests \ {r} : canceller'[q] = canceller[q]
    BY <1>2 DEF CancelWrite, TypeOK
  <2>2. UNCHANGED <<spec, plan, vaults, handler, crashes>> /\ handler[r].pc # "idle"
    BY <1>0, <1>2 DEF CancelWrite
  <2>3. "CANCELLED" \in PipelineState /\ SetState(r, "CANCELLED")
    BY <1>2 DEF CancelWrite, PipelineState
  <2>4. /\ pstate' \in [Requests -> PipelineState \cup {None}] /\ pstate'[r] = "CANCELLED"
        /\ \A q \in Requests \ {r} : pstate'[q] = pstate[q]
    BY <2>3, RowTyped
  <2>5. RequestInv(r)'
    BY <1>0, <2>2, <2>4
  <2>6. TypeOK'
    BY <2>1, <2>2, <2>4 DEF TypeOK
  <2> QED BY <2>1, <2>2, <2>4, <2>5, <2>6, OthersKeepInv
<1> QED BY <1>1, <1>2

\* A crash leaves the rows where the lost handlers had put them.
LEMMA CrashInv ==
  ASSUME TypeOK, PlanInv, Crash
  PROVE  TypeOK' /\ PlanInv'
<1>1. ASSUME NEW r \in Requests
      PROVE  /\ handler'[r] \in HandlerRecord
             /\ handler[r].pc \in {"idle", "done"} => handler'[r] = handler[r]
             /\ handler[r].pc \notin {"idle", "done"} =>
                  /\ handler'[r].pc = "lost" /\ handler'[r].status = handler[r].status
                  /\ handler'[r].overrides = handler[r].overrides
  <2>1. handler[r] \in HandlerRecord /\ "lost" \in HandlerPc
    BY DEF TypeOK, HandlerPc
  <2>2. handler'[r] = IF handler[r].pc \in {"idle", "done"} THEN handler[r]
                      ELSE [handler[r] EXCEPT !.pc = "lost"]
    BY DEF Crash
  <2>3. [handler[r] EXCEPT !.pc = "lost"] \in HandlerRecord
    BY <2>1, PcTyped
  <2> QED BY <2>1, <2>2, <2>3 DEF HandlerRecord
<1>2. UNCHANGED <<pstate, spec, plan, vaults>> /\ canceller' = [r \in Requests |-> "idle"]
  BY DEF Crash, rows
<1>3. crashes' \in 0..MaxCrashes
  BY PlanningAssumption DEF Crash, TypeOK
<1>4. TypeOK'
  <2>1. handler' = [r \in Requests |-> handler'[r]]
    BY DEF Crash
  <2> QED BY <1>1, <1>2, <1>3, <2>1 DEF TypeOK
<1>5. ASSUME NEW r \in Requests
      PROVE  RequestInv(r)'
  <2>1. RequestInv(r) /\ handler[r].pc \in HandlerPc
    BY DEF PlanInv, RequestInv, TypeOK, HandlerRecord
  <2>2. CASE handler[r].pc \in {"idle", "done"}
    BY <1>1, <1>2, <2>1, <2>2
    DEF RequestInv, RowFollowsHandler, AnswerSaysRow, PlanIsChecked, ErrorHasCause, NamedTwice
  <2>3. CASE handler[r].pc \notin {"idle", "done"}
    BY <1>1, <1>2, <2>1, <2>3
    DEF RequestInv, RowFollowsHandler, AnswerSaysRow, PlanIsChecked, ErrorHasCause, NamedTwice,
        HandlerPc
  <2> QED BY <2>2, <2>3
<1> QED BY <1>4, <1>5 DEF PlanInv, RequestInv

LEMMA InitInv ==
  ASSUME Init
  PROVE  TypeOK /\ PlanInv
<1>1. Fresh \in HandlerRecord
  BY DEF Fresh, HandlerRecord, HandlerPc, Errors
<1>2. Fresh.pc = "idle" /\ Fresh.status = 0
  BY DEF Fresh
<1>3. TypeOK
  BY <1>1, PlanningAssumption DEF Init, TypeOK
<1>4. PlanInv
  BY <1>2 DEF Init, PlanInv, RowFollowsHandler, AnswerSaysRow, PlanIsChecked, ErrorHasCause
<1> QED BY <1>3, <1>4

LEMMA NextInv ==
  ASSUME TypeOK, PlanInv, [Next]_vars
  PROVE  TypeOK' /\ PlanInv'
<1>1. ASSUME NEW r \in Requests, PlanStep(r)
      PROVE  TypeOK' /\ PlanInv'
  BY <1>1, MoveOn, WriteInv, RespondInv, RecordWriteInv, RecordFailsInv, ProviderFailsInv,
     ModelRepliesInv DEF PlanStep
<1>2. CASE UNCHANGED vars
  BY <1>2 DEF vars, rows, TypeOK, PlanInv, RowFollowsHandler, AnswerSaysRow, PlanIsChecked,
              ErrorHasCause, NamedTwice
<1> QED BY <1>1, <1>2, PlanRequestInv, CancelInv, CrashInv DEF Next

\* Rows, handlers, plans and answers fit together, as PlanInv says (store.ts, pipelines.ts).
THEOREM PlanFitsTogether == Spec => [](TypeOK /\ PlanInv)
<1>1. Init => TypeOK /\ PlanInv
  BY InitInv
<1>2. TypeOK /\ PlanInv /\ [Next]_vars => TypeOK' /\ PlanInv'
  BY NextInv
<1> QED BY <1>1, <1>2, PTL DEF Spec

\* Every variable of planning keeps its type, each handler field by field.
THEOREM PlanningTypeCorrect == Spec => []TypeOK
BY PlanFitsTogether, PTL

\* A plan is recorded exactly when the pipeline gets to PLAN_READY (recordReadyPlan), and
\* only a cancellation takes it from there.
THEOREM PlansAreReady == Spec => []ReadyHasPlan
<1>1. TypeOK /\ PlanInv => ReadyHasPlan
  <2> SUFFICES ASSUME TypeOK, PlanInv, NEW r \in Requests
               PROVE  /\ pstate[r] = "PLAN_READY" => spec[r] # None
                      /\ spec[r] # None => pstate[r] \in {"PLAN_READY", "CANCELLED"}
    BY DEF ReadyHasPlan
  <2>1. handler[r].pc \in HandlerPc
    BY DEF TypeOK, HandlerRecord
  <2>2. RowFollowsHandler(r) /\ AnswerSaysRow(r)
    BY DEF PlanInv
  <2>3. None # "PLAN_READY"
    BY PlanningAssumption DEF PipelineState
  <2>4. CASE handler[r].pc = "done"
    BY <2>2, <2>4 DEF AnswerSaysRow
  <2>5. CASE handler[r].pc # "done"
    BY <2>1, <2>2, <2>3, <2>5 DEF RowFollowsHandler, HandlerPc
  <2> QED BY <2>4, <2>5
<1> QED BY <1>1, PlanFitsTogether, PTL

\* What the caller is told is what the row says (plan() and the error handler), and no reply,
\* error, override or cancellation leaves a pipeline PLANNING unless the database refused.
THEOREM AnswersAreTrue == Spec => []AnswerMatchesRow
<1>1. TypeOK /\ PlanInv => AnswerMatchesRow
  BY DEF AnswerMatchesRow, PlanInv, AnswerSaysRow
<1> QED BY <1>1, PlanFitsTogether, PTL

\* 400 needs a contract named twice by the caller, whatever the model replies or the
\* provider throws.
THEOREM BlameIsDeserved == Spec => []CallerIsBlamedForHisFields
<1>1. TypeOK /\ PlanInv => CallerIsBlamedForHisFields
  BY DEF CallerIsBlamedForHisFields, PlanInv, ErrorHasCause, NamedTwice
<1> QED BY <1>1, PlanFitsTogether, PTL

LEMMA LowerContracts ==
  ASSUME NEW c \in Seq(Contract), \A i \in DOMAIN c : c[i].lower
  PROVE  ToSet(c) = [id : Ids(c), lower : {TRUE}]
<1>1. ToSet(c) = {c[i] : i \in DOMAIN c}
  BY DEF ToSet
<1>2. ASSUME NEW i \in DOMAIN c
      PROVE  c[i] = [id |-> c[i].id, lower |-> TRUE]
  <2>1. c[i] \in Contract /\ c[i].lower
    OBVIOUS
  <2> DEFINE x == c[i]
  <2> HIDE DEF x
  <2>2. x \in Contract /\ x.lower
    BY <2>1 DEF x
  <2>3. x = [id |-> x.id, lower |-> TRUE]
    BY <2>2 DEF Contract
  <2> QED BY <2>3 DEF x
<1>3. \A v : v \in Ids(c) <=> \E i \in DOMAIN c : v = c[i].id
  BY <1>1 DEF Ids
<1>4. \A x \in ToSet(c) : x \in [id : Ids(c), lower : {TRUE}]
  <2> TAKE x \in ToSet(c)
  <2>1. PICK i \in DOMAIN c : x = c[i]
    BY <1>1
  <2>2. c[i].id \in Ids(c)
    BY <1>3
  <2>3. x = [id |-> c[i].id, lower |-> TRUE]
    BY <1>2, <2>1
  <2> QED BY <2>2, <2>3
<1>5. ASSUME NEW x \in [id : Ids(c), lower : {TRUE}] PROVE x \in ToSet(c)
  <2>1. PICK i \in DOMAIN c : x.id = c[i].id
    BY <1>3
  <2>2. x = [id |-> c[i].id, lower |-> TRUE]
    BY <2>1
  <2> QED BY <1>1, <1>2, <2>2
<1> QED BY <1>4, <1>5

\* A recorded plan is what the caller asked for, and filter and contract rows are derived
\* from it (applyOverrides, parsePipelineSpec, derivePipelineConfig, recordReadyPlan).
THEOREM PlansAreSound == Spec => []RecordedPlanIsSound
<1>1. TypeOK /\ PlanInv => RecordedPlanIsSound
  <2> SUFFICES ASSUME TypeOK, PlanInv, NEW r \in Requests, spec[r] # None
               PROVE  LET o == handler[r].overrides  n == Len(spec[r].contracts) IN
                      /\ n \in 1..3
                      /\ vaults[r] = {spec[r].contracts[i].id : i \in 1..n}
                      /\ \A i, j \in 1..n : i # j => spec[r].contracts[i].id # spec[r].contracts[j].id
                      /\ plan[r].addresses = [id : vaults[r], lower : {TRUE}]
                      /\ plan[r].topics = {spec[r].events[i] : i \in DOMAIN spec[r].events}
                      /\ plan[r].topics # {}
                      /\ o.contracts # <<>> => vaults[r] = {c.id : c \in ToSet(o.contracts)}
                      /\ o.startBlock # None => spec[r].startBlock = o.startBlock
                      /\ ~spec[r].topDepositors
    BY DEF RecordedPlanIsSound
  <2> DEFINE c == spec[r].contracts
             e == spec[r].events
             o == handler[r].overrides
  <2>1. SoundFor(spec[r], o) /\ plan[r] = DerivePipelineConfig(spec[r]) /\ vaults[r] = Ids(c)
    BY DEF PlanInv, PlanIsChecked
  <2>2. spec[r] \in PipelineSpec
    BY DEF TypeOK
  <2>3. c \in Seq(Contract) /\ e \in Seq(Events)
    BY <2>2 DEF PipelineSpec
  <2>4. Len(c) \in 1..3 /\ Len(e) \in 1..2 /\ \A i \in DOMAIN c : c[i].lower
    BY <2>1 DEF SoundFor, ParsePipelineSpec
  <2>5. \A i, j \in DOMAIN c : c[i].id = c[j].id => i = j
    BY <2>1, <2>3, DistinctMeaning DEF SoundFor, ParsePipelineSpec
  <2>6. plan[r].addresses = ToSet(c) /\ plan[r].topics = ToSet(e)
    BY <2>1 DEF DerivePipelineConfig
  <2>7. ToSet(c) = [id : Ids(c), lower : {TRUE}]
    BY <2>3, <2>4, LowerContracts
  <2>8. Ids(c) = {c[i].id : i \in DOMAIN c} /\ ToSet(e) = {e[i] : i \in DOMAIN e}
    BY DEF Ids, ToSet
  <2>9. /\ o.contracts # <<>> => vaults[r] = {x.id : x \in ToSet(o.contracts)}
        /\ o.startBlock # None => spec[r].startBlock = o.startBlock
        /\ ~spec[r].topDepositors
    BY <2>1 DEF SoundFor, Ids
  <2>10. DOMAIN c = 1..Len(c) /\ DOMAIN e = 1..Len(e) /\ 1 \in DOMAIN e
    <3> HIDE DEF c, e
    <3> QED BY <2>3, <2>4
  <2>11. /\ vaults[r] = {c[i].id : i \in 1..Len(c)}
         /\ \A i, j \in 1..Len(c) : i # j => c[i].id # c[j].id
    BY <2>1, <2>5, <2>8, <2>10
  <2>12. plan[r].addresses = [id : vaults[r], lower : {TRUE}]
    BY <2>1, <2>6, <2>7
  <2>13. plan[r].topics = {e[i] : i \in DOMAIN e} /\ e[1] \in plan[r].topics
    BY <2>6, <2>8, <2>10
  <2>14. plan[r].topics # {}
    BY <2>13
  <2> QED BY <2>4, <2>9, <2>11, <2>12, <2>13, <2>14
<1> QED BY <1>1, PlanFitsTogether, PTL

=============================================================================
