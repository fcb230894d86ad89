------------------------ MODULE RequestPipelineProofs ------------------------
(***************************************************************************)
(* Proofs about RequestPipeline, for every set of requests and every set   *)
(* of body lengths: the safety invariants of the runs, the announcement of *)
(* retries and the refinement of RequestContract.                          *)
(***************************************************************************)
EXTENDS RequestPipeline, TLAPS

(* Suspension points between a call and its result being acted on.         *)
BufferedPcs == {"collect", "response", "decide"}
BeforeVerdictPcs == {"evaluate", "peek", "drainRest", "drain"}
AfterVerdictPcs == {"headers", "accept", "peekError", "report", "drainError"}
InCallPcs == {"inflight", "failed"} \cup BufferedPcs \cup BeforeVerdictPcs
               \cup AfterVerdictPcs

(* The counters move together.                                             *)
CountersInv ==
  /\ attempt <= MaxAttempts
  /\ pc = "attempt" => calls = attempt /\ onRetry = attempt
  /\ pc \in InCallPcs => calls = attempt + 1 /\ onRetry = attempt
  /\ pc = "backoff" => /\ calls = attempt + 1 /\ onRetry = attempt + 1
                       /\ attempt < MaxAttempts
  /\ pc = "done" => calls <= attempt + 1

(* The request body is given away at most once.                            *)
BodyInv ==
  /\ payload = "spent" => NonReplayable /\ calls > 0
  /\ BodySentWhole

(* Which mode is where, and what the decision taken there has settled.     *)
ModeInv ==
  /\ pc \in BufferedPcs => req.mode = "buffered"
  /\ pc \in BeforeVerdictPcs \cup AfterVerdictPcs => req.mode = "streaming"
  /\ pc \in BeforeVerdictPcs => status = sent
  /\ pc \in AfterVerdictPcs /\ req.retries /\ ~req.custom /\ sent = "retryable"
       => attempt = MaxAttempts
  /\ pc \in {"peek", "drainRest"} => req.retries /\ req.custom
  /\ pc \in {"drainRest", "drain"} => attempt < MaxAttempts
  /\ pc = "accept" => status = "success"
  /\ pc \in {"peekError", "report", "drainError"} => status # "success"
  /\ pc = "drainError" => req.throw

(* Nothing is settled or announced before the loop returns, but for the    *)
(* error whose body is drained first.                                      *)
SettleInv ==
  /\ (pc = "done") <=> (outcome # "pending")
  /\ pc # "done" => onSuccess = 0
  /\ pc \notin {"drainError", "done"} => onError = 0
  /\ pc = "drainError" => onError = 1
  /\ SettledOnce

IInv ==
  /\ TypeOK
  /\ CountersInv
  /\ BodyInv
  /\ ModeInv
  /\ SettleInv
  /\ ExhaustedCountExact
  /\ BufferedFailureReported
  /\ RetryableNotSurrendered

-----------------------------------------------------------------------------
(* The derived constants of a well-typed request are numbers.              *)
LEMMA RequestFacts ==
  ASSUME TypeOK
  PROVE  /\ req \in RequestType
         /\ MaxAttempts \in Nat
         /\ PeekLimit \in Nat
<1>1. req \in RequestType
  BY RequestsAssumption DEF TypeOK
<1>2. req.maxRetries \in Nat /\ req.maxBytes \in Nat /\ req.peekBytes \in Nat
  BY <1>1 DEF RequestType
<1>3. QED
  BY <1>1, <1>2 DEF MaxAttempts, PeekLimit

LEMMA TypeOKStep == TypeOK /\ [Next]_vars => TypeOK'
<1> SUFFICES ASSUME TypeOK, [Next]_vars PROVE TypeOK'
  OBVIOUS
<1>0. req.maxBytes \in Nat /\ PeekLimit \in Nat
  BY RequestFacts DEF RequestType
<1> USE <1>0, BodySizesAssumption DEF TypeOK, vars, wireVars, replyVars, hookVars, endVars
<1>1. CASE RefuseReplay
  BY <1>1 DEF RefuseReplay, ReplayAllowed, Return
<1>2. CASE CallBackend
  BY <1>2 DEF CallBackend, TakeBody, ReplayAllowed, Goto
<1>3. CASE BufferedReply
  BY <1>3 DEF BufferedReply, ReplyArrives, Goto
<1>4. CASE CappedReply
  BY <1>4 DEF CappedReply, ReplyArrives, Goto, Fail
<1>5. CASE StreamReply
  BY <1>5 DEF StreamReply, ReplyArrives, Goto
<1>6. CASE CollectBody
  BY <1>6 DEF CollectBody, Fail, Goto
<1>7. CASE ConnectionBreaks
  BY <1>7 DEF ConnectionBreaks, Interrupt, Reading, Fail, Return, Goto
<1>8. CASE BackendRefuses
  BY <1>8 DEF BackendRefuses, Interrupt, Reading, Fail, Return, Goto
<1>9. CASE TimeoutFires
  BY <1>9 DEF TimeoutFires, Interrupt, Reading, Fail, Return, Goto
<1>10. CASE CancelCall
  BY <1>10 DEF CancelCall, Fail, Goto
<1>11. CASE RetryFailure
  BY <1>11 DEF RetryFailure, TransportRetryable, Reschedule, Goto
<1>12. CASE ReportFailure
  BY <1>12 DEF ReportFailure, TransportRetryable, Return
<1>13. CASE BackoffElapses
  BY <1>13 DEF BackoffElapses, Goto
<1>14. CASE CancelBackoff
  BY <1>14 DEF CancelBackoff, Return
<1>15. CASE RunOnResponse
  BY <1>15 DEF RunOnResponse, Goto
<1>16. CASE HookAborts
  BY <1>16 DEF HookAborts, Return
<1>17. CASE RetryBuffered
  BY <1>17 DEF RetryBuffered, MayRetry, Reschedule, Goto
<1>18. CASE SucceedBuffered
  BY <1>18 DEF SucceedBuffered, MayContinue, MayRetry, Return
<1>19. CASE RejectBySchema
  BY <1>19 DEF RejectBySchema, MayContinue, MayRetry, Return
<1>20. CASE FailBuffered
  BY <1>20 DEF FailBuffered, MayContinue, MayRetry, Return
<1>21. CASE EvaluateStream
  BY <1>21 DEF EvaluateStream, MayRetry, Goto
<1>22. CASE PeekForPredicate
  BY <1>22 DEF PeekForPredicate, MayRetry, Goto
<1>23. CASE DrainRest
  BY <1>23, SMTT(30) DEF DrainRest, Reschedule, Goto
<1>24. CASE DrainForRetry
  BY <1>24 DEF DrainForRetry, Reschedule, Return, Goto
<1>25. CASE RunOnResponseStream
  BY <1>25 DEF RunOnResponseStream, Goto
<1>26. CASE AcceptStream
  BY <1>26 DEF AcceptStream, Return
<1>27. CASE PeekErrorBody
  BY <1>27 DEF PeekErrorBody, Goto
<1>28. CASE ReportStreamStatus
  BY <1>28 DEF ReportStreamStatus, Goto, Return
<1>29. CASE DrainErrorBody
  BY <1>29 DEF DrainErrorBody, Return
<1>30. CASE Cancel
  BY <1>30 DEF Cancel
<1>31. CASE UNCHANGED vars
  BY <1>31
<1>32. QED
  BY <1>1, <1>2, <1>3, <1>4, <1>5, <1>6, <1>7, <1>8, <1>9, <1>10, <1>11, <1>12, <1>13, <1>14, <1>15, <1>16, <1>17, <1>18, <1>19, <1>20, <1>21, <1>22, <1>23, <1>24, <1>25, <1>26, <1>27, <1>28, <1>29, <1>30, <1>31
     DEF Next, ServerStep, TaskStep, Returned

LEMMA InvariantStep == IInv /\ [Next]_vars => IInv'
<1> SUFFICES ASSUME IInv, [Next]_vars PROVE IInv'
  OBVIOUS
<1>0. /\ TypeOK /\ TypeOK'
      /\ req \in RequestType /\ req.maxRetries \in Nat
  BY TypeOKStep, RequestFacts DEF IInv, RequestType
<1> USE <1>0 DEF IInv, CountersInv, BodyInv, ModeInv, SettleInv, BodySentWhole,
         SettledOnce, ExhaustedCountExact, BufferedFailureReported,
         RetryableNotSurrendered, MaxAttempts, NonReplayable, InCallPcs, BufferedPcs,
         BeforeVerdictPcs, AfterVerdictPcs, TypeOK, Statuses,
         vars, wireVars, replyVars, hookVars, endVars
<1>1. CASE RefuseReplay
  BY <1>1, SMTT(30) DEF RefuseReplay, ReplayAllowed, Return
<1>2. CASE CallBackend
  BY <1>2, SMTT(30) DEF CallBackend, TakeBody, ReplayAllowed, Goto
<1>3. CASE BufferedReply
  BY <1>3, SMTT(30) DEF BufferedReply, ReplyArrives, Goto
<1>4. CASE CappedReply
  BY <1>4, SMTT(30) DEF CappedReply, ReplyArrives, Goto, Fail
<1>5. CASE StreamReply
  BY <1>5, SMTT(30) DEF StreamReply, ReplyArrives, Goto
<1>6. CASE CollectBody
  BY <1>6, SMTT(30) DEF CollectBody, Fail, Goto
<1>7. CASE ConnectionBreaks
  BY <1>7, SMTT(30) DEF ConnectionBreaks, Interrupt, Reading, Fail, Return, Goto
<1>8. CASE BackendRefuses
  BY <1>8, SMTT(30) DEF BackendRefuses, Interrupt, Reading, Fail, Return, Goto
<1>9. CASE TimeoutFires
  BY <1>9, SMTT(30) DEF TimeoutFires, Interrupt, Reading, Fail, Return, Goto
<1>10. CASE CancelCall
  BY <1>10, SMTT(30) DEF CancelCall, Fail, Goto
<1>11. CASE RetryFailure
  BY <1>11, SMTT(30) DEF RetryFailure, TransportRetryable, Reschedule, Goto
<1>12. CASE ReportFailure
  BY <1>12, SMTT(30) DEF ReportFailure, TransportRetryable, Return
<1>13. CASE BackoffElapses
  BY <1>13, SMTT(30) DEF BackoffElapses, Goto
<1>14. CASE CancelBackoff
  BY <1>14, SMTT(30) DEF CancelBackoff, Return
<1>15. CASE RunOnResponse
  BY <1>15, SMTT(30) DEF RunOnResponse, Goto
<1>16. CASE HookAborts
  BY <1>16, SMTT(30) DEF HookAborts, Return
<1>17. CASE RetryBuffered
  BY <1>17, SMTT(30) DEF RetryBuffered, MayRetry, Reschedule, Goto
<1>18. CASE SucceedBuffered
  BY <1>18, SMTT(30) DEF SucceedBuffered, MayContinue, MayRetry, Return
<1>19. CASE RejectBySchema
  BY <1>19, SMTT(30) DEF RejectBySchema, MayContinue, MayRetry, Return
<1>20. CASE FailBuffered
  BY <1>20, SMTT(30) DEF FailBuffered, MayContinue, MayRetry, Return
<1>21. CASE EvaluateStream
  BY <1>21, SMTT(30) DEF EvaluateStream, MayRetry, Goto
<1>22. CASE PeekForPredicate
  BY <1>22, SMTT(30) DEF PeekForPredicate, MayRetry, Goto
<1>23. CASE DrainRest
  <2>1. CountersInv'
    BY <1>23 DEF DrainRest, Reschedule, Goto
  <2>2. BodyInv'
    BY <1>23 DEF DrainRest, Reschedule, Goto
  <2>3. ModeInv'
    BY <1>23 DEF DrainRest, Reschedule, Goto
  <2>4. SettleInv'
    BY <1>23 DEF DrainRest, Reschedule, Goto
  <2>5. (ExhaustedCountExact /\ BufferedFailureReported /\ RetryableNotSurrendered)'
    BY <1>23 DEF DrainRest, Reschedule, Goto
  <2>6. QED
    BY <2>1, <2>2, <2>3, <2>4, <2>5 DEF IInv
<1>24. CASE DrainForRetry
  <2>1. CountersInv'
    BY <1>24 DEF DrainForRetry, Reschedule, Return, Goto
  <2>2. BodyInv'
    BY <1>24 DEF DrainForRetry, Reschedule, Return, Goto
  <2>3. ModeInv'
    BY <1>24 DEF DrainForRetry, Reschedule, Return, Goto
  <2>4. SettleInv'
    BY <1>24 DEF DrainForRetry, Reschedule, Return, Goto
  <2>5. (ExhaustedCountExact /\ BufferedFailureReported /\ RetryableNotSurrendered)'
    BY <1>24 DEF DrainForRetry, Reschedule, Return, Goto
  <2>6. QED
    BY <2>1, <2>2, <2>3, <2>4, <2>5 DEF IInv
<1>25. CASE RunOnResponseStream
  BY <1>25, SMTT(30) DEF RunOnResponseStream, Goto
<1>26. CASE AcceptStream
  BY <1>26, SMTT(30) DEF AcceptStream, Return
<1>27. CASE PeekErrorBody
  BY <1>27, SMTT(30) DEF PeekErrorBody, Goto
<1>28. CASE ReportStreamStatus
  BY <1>28, SMTT(30) DEF ReportStreamStatus, Goto, Return
<1>29. CASE DrainErrorBody
  BY <1>29, SMTT(30) DEF DrainErrorBody, Return
<1>30. CASE Cancel
  BY <1>30, SMTT(30) DEF Cancel
<1>31. CASE UNCHANGED vars
  BY <1>31
<1>32. QED
  BY <1>1, <1>2, <1>3, <1>4, <1>5, <1>6, <1>7, <1>8, <1>9, <1>10, <1>11, <1>12, <1>13, <1>14, <1>15, <1>16, <1>17, <1>18, <1>19, <1>20, <1>21, <1>22, <1>23, <1>24, <1>25, <1>26, <1>27, <1>28, <1>29, <1>30, <1>31
     DEF Next, ServerStep, TaskStep, Returned

LEMMA InvariantInit == Init => IInv
<1> SUFFICES ASSUME Init PROVE IInv
  OBVIOUS
<1>1. TypeOK
  BY DEF Init, TypeOK, Statuses
<1>2. MaxAttempts \in Nat
  BY <1>1, RequestFacts
<1>3. QED
  BY <1>1, <1>2
     DEF Init, IInv, CountersInv, BodyInv, ModeInv, SettleInv, BodySentWhole,
         SettledOnce, ExhaustedCountExact, BufferedFailureReported,
         RetryableNotSurrendered, InCallPcs, BufferedPcs, BeforeVerdictPcs,
         AfterVerdictPcs

-----------------------------------------------------------------------------
(* The inductive invariant holds throughout.                               *)
THEOREM Invariance == Spec => []IInv
<1>1. Init => IInv
  BY InvariantInit
<1>2. IInv /\ [Next]_vars => IInv'
  BY InvariantStep
<1>3. QED
  BY <1>1, <1>2, PTL DEF Spec

(* run_http_loop: the variables keep their types.                          *)
THEOREM TypeCorrect == Spec => []TypeOK
<1>1. IInv => TypeOK
  BY DEF IInv
<1>2. QED
  BY <1>1, Invariance, PTL

(* run_http_loop never makes more calls than the policy allows.            *)
THEOREM BudgetKept == Spec => []RetryBudget
<1>1. IInv => RetryBudget
  <2> SUFFICES ASSUME IInv PROVE RetryBudget
    OBVIOUS
  <2>1. TypeOK /\ MaxAttempts \in Nat
    BY RequestFacts DEF IInv
  <2>2. calls <= attempt + 1 /\ attempt <= MaxAttempts
    BY <2>1 DEF IInv, CountersInv, TypeOK, InCallPcs, BufferedPcs, BeforeVerdictPcs,
                AfterVerdictPcs
  <2>3. QED
    BY <2>1, <2>2 DEF RetryBudget, TypeOK
<1>2. QED
  BY <1>1, Invariance, PTL

(* check_attempt_replay and take_body_for_attempt: a single-use request    *)
(* body goes out once and never emptied.                                   *)
THEOREM BodyNeverReplayed == Spec => []BodySentWhole
<1>1. IInv => BodySentWhole
  BY DEF IInv, BodyInv
<1>2. QED
  BY <1>1, Invariance, PTL

(* handle_transport_error: the attempts of RetryExhausted are the calls.   *)
THEOREM ExhaustedExact == Spec => []ExhaustedCountExact
<1>1. IInv => ExhaustedCountExact
  BY DEF IInv
<1>2. QED
  BY <1>1, Invariance, PTL

(* One settling hook run at most, and it agrees with the result.           *)
THEOREM OneSettlement == Spec => []SettledOnce
<1>1. IInv => SettledOnce
  BY DEF IInv, SettleInv
<1>2. QED
  BY <1>1, Invariance, PTL

(* Buffered transport failures always reach on_error.                      *)
THEOREM BufferedFailuresSeen == Spec => []BufferedFailureReported
<1>1. IInv => BufferedFailureReported
  BY DEF IInv
<1>2. QED
  BY <1>1, Invariance, PTL

(* Under the default predicate a retryable response is given to the caller *)
(* only when the budget is spent.                                          *)
THEOREM RetryableKept == Spec => []RetryableNotSurrendered
<1>1. IInv => RetryableNotSurrendered
  BY DEF IInv
<1>2. QED
  BY <1>1, Invariance, PTL

(* run_retry_backoff: a call beyond the first is made only after its own   *)
(* run of the on_retry hooks, under the attempt number they were told.     *)
THEOREM RetriesAnnounced == Spec => RetryAnnounced
<1>1. ASSUME IInv, [Next]_vars, calls' > calls
      PROVE  onRetry = calls /\ attempt = calls
  <2>1. calls' = calls \/ CallBackend
    BY <1>1 DEF Next, ServerStep, TaskStep, Returned, vars, wireVars, RefuseReplay,
       BufferedReply, CappedReply, StreamReply, ReplyArrives, CollectBody, Interrupt,
       ConnectionBreaks, BackendRefuses, TimeoutFires, CancelCall, RetryFailure,
       ReportFailure, BackoffElapses, CancelBackoff, RunOnResponse, HookAborts,
       RetryBuffered, SucceedBuffered, RejectBySchema, FailBuffered, EvaluateStream,
       PeekForPredicate, DrainRest, DrainForRetry, RunOnResponseStream, AcceptStream,
       PeekErrorBody, ReportStreamStatus, DrainErrorBody, Cancel
  <2>2. CASE CallBackend
    BY <1>1, <2>2 DEF IInv, CountersInv, CallBackend
  <2>3. QED
    BY <1>1, <2>1, <2>2 DEF IInv, TypeOK
<1>2. IInv /\ [Next]_vars => [calls' > calls => onRetry = calls /\ attempt = calls]_vars
  BY <1>1
<1>3. QED
  BY <1>2, Invariance, PTL DEF Spec, RetryAnnounced

-----------------------------------------------------------------------------
(* The abstract state of the contract, and the moves it makes.             *)
LEMMA ContractStep ==
  IInv /\ [Next]_vars => [Contract!ContractNext]_(Contract!contractVars)
<1> SUFFICES ASSUME IInv, [Next]_vars
             PROVE  [Contract!ContractNext]_(Contract!contractVars)
  OBVIOUS
<1>0. /\ TypeOK /\ TypeOK' /\ IInv'
      /\ MaxAttempts \in Nat
      /\ req.maxRetries \in Nat
  BY TypeOKStep, InvariantStep, RequestFacts DEF IInv, RequestType
<1> USE <1>0 DEF IInv, CountersInv, BodyInv, SettleInv, BodySentWhole, SettledOnce,
         MaxAttempts, NonReplayable, InCallPcs, BufferedPcs, BeforeVerdictPcs,
         AfterVerdictPcs, TypeOK, vars, wireVars, replyVars, hookVars, endVars,
         Contract!contractVars, Contract!ContractNext, Contract!Try,
         Contract!Reschedule, Contract!SettleAfterCall, Contract!SettleBetweenCalls
<1>1. CASE RefuseReplay
  BY <1>1, SMTT(30) DEF RefuseReplay, ReplayAllowed, Return
<1>2. CASE CallBackend
  BY <1>2, SMTT(30) DEF CallBackend, TakeBody, ReplayAllowed, Goto
<1>3. CASE BufferedReply
  BY <1>3, SMTT(30) DEF BufferedReply, ReplyArrives, Goto
<1>4. CASE CappedReply
  BY <1>4, SMTT(30) DEF CappedReply, ReplyArrives, Goto, Fail
<1>5. CASE StreamReply
  BY <1>5, SMTT(30) DEF StreamReply, ReplyArrives, Goto
<1>6. CASE CollectBody
  BY <1>6, SMTT(30) DEF CollectBody, Fail, Goto
<1>7. CASE ConnectionBreaks
  BY <1>7, SMTT(30) DEF ConnectionBreaks, Interrupt, Reading, Fail, Return, Goto
<1>8. CASE BackendRefuses
  BY <1>8, SMTT(30) DEF BackendRefuses, Interrupt, Reading, Fail, Return, Goto
<1>9. CASE TimeoutFires
  BY <1>9, SMTT(30) DEF TimeoutFires, Interrupt, Reading, Fail, Return, Goto
<1>10. CASE CancelCall
  BY <1>10, SMTT(30) DEF CancelCall, Fail, Goto
<1>11. CASE RetryFailure
  BY <1>11, SMTT(30) DEF RetryFailure, TransportRetryable, Reschedule, Goto
<1>12. CASE ReportFailure
  BY <1>12, SMTT(30) DEF ReportFailure, TransportRetryable, Return
<1>13. CASE BackoffElapses
  BY <1>13, SMTT(30) DEF BackoffElapses, Goto
<1>14. CASE CancelBackoff
  BY <1>14, SMTT(30) DEF CancelBackoff, Return
<1>15. CASE RunOnResponse
  BY <1>15, SMTT(30) DEF RunOnResponse, Goto
<1>16. CASE HookAborts
  BY <1>16, SMTT(30) DEF HookAborts, Return
<1>17. CASE RetryBuffered
  BY <1>17, SMTT(30) DEF RetryBuffered, MayRetry, Reschedule, Goto
<1>18. CASE SucceedBuffered
  BY <1>18, SMTT(30) DEF SucceedBuffered, MayContinue, MayRetry, Return
<1>19. CASE RejectBySchema
  BY <1>19, SMTT(30) DEF RejectBySchema, MayContinue, MayRetry, Return
<1>20. CASE FailBuffered
  BY <1>20, SMTT(30) DEF FailBuffered, MayContinue, MayRetry, Return
<1>21. CASE EvaluateStream
  BY <1>21, SMTT(30) DEF EvaluateStream, MayRetry, Goto
<1>22. CASE PeekForPredicate
  BY <1>22, SMTT(30) DEF PeekForPredicate, MayRetry, Goto
<1>23. CASE DrainRest
  BY <1>23, SMTT(30) DEF DrainRest, Reschedule, Goto
<1>24. CASE DrainForRetry
  BY <1>24, SMTT(30) DEF DrainForRetry, Reschedule, Return, Goto
<1>25. CASE RunOnResponseStream
  BY <1>25, SMTT(30) DEF RunOnResponseStream, Goto
<1>26. CASE AcceptStream
  BY <1>26, SMTT(30) DEF AcceptStream, Return
<1>27. CASE PeekErrorBody
  BY <1>27, SMTT(30) DEF PeekErrorBody, Goto
<1>28. CASE ReportStreamStatus
  BY <1>28, SMTT(30) DEF ReportStreamStatus, Goto, Return
<1>29. CASE DrainErrorBody
  BY <1>29, SMTT(30) DEF DrainErrorBody, Return
<1>30. CASE Cancel
  BY <1>30, SMTT(30) DEF Cancel
<1>31. CASE UNCHANGED vars
  BY <1>31
<1>32. QED
  BY <1>1, <1>2, <1>3, <1>4, <1>5, <1>6, <1>7, <1>8, <1>9, <1>10, <1>11, <1>12, <1>13, <1>14, <1>15, <1>16, <1>17, <1>18, <1>19, <1>20, <1>21, <1>22, <1>23, <1>24, <1>25, <1>26, <1>27, <1>28, <1>29, <1>30, <1>31
     DEF Next, ServerStep, TaskStep, Returned

(* The retry loop implements the contract of a request.                    *)
THEOREM ImplementsContract == Spec => KeepsContract
<1>1. Init => Contract!ContractInit
  <2> SUFFICES ASSUME Init PROVE Contract!ContractInit
    OBVIOUS
  <2>1. TypeOK
    BY DEF Init, TypeOK, Statuses
  <2>2. MaxAttempts \in Nat
    BY <2>1, RequestFacts
  <2>3. QED
    BY <2>2 DEF Init, Contract!ContractInit
<1>2. IInv /\ [Next]_vars => [Contract!ContractNext]_(Contract!contractVars)
  BY ContractStep
<1>3. QED
  BY <1>1, <1>2, Invariance, PTL DEF Spec, KeepsContract, Contract!ContractSpec

=============================================================================
