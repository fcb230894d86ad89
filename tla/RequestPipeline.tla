--------------------------- MODULE RequestPipeline ---------------------------
(***************************************************************************)
(* The retry loop of one request: run_http_loop of request_pipeline.rs and *)
(* the helpers it awaits, for send() (mode "buffered") and for             *)
(* send_stream() (mode "streaming").  The module starts where              *)
(* prepare_execution has returned and ends where the loop returns.         *)
(*                                                                         *)
(* One action is the code between two suspension points.  The environment  *)
(* is the server (it answers, breaks the connection or stays silent), the  *)
(* hooks and the custom retry predicate of the user (any result), and the  *)
(* owner of the cancellation token (it may cancel at any moment).          *)
(*                                                                         *)
(* Data is kept to what the loop distinguishes: a status is a success, one *)
(* of the statuses default_should_retry accepts, or another failure; a     *)
(* response body is its length.                                            *)
(***************************************************************************)
EXTENDS Integers

CONSTANTS
  Requests,   (* the prepared requests under study, records of RequestType *)
  BodySizes   (* the lengths a response body may have                      *)

Statuses == {"success", "retryable", "failure"}

(* The fields of PreparedExecution the loop reads.                         *)
RequestType ==
  [ mode       : {"buffered", "streaming"},
    body       : {"bytes", "stream", "multipart"},
    retries    : BOOLEAN,   (* a RetryPolicy is configured                 *)
    maxRetries : Nat,       (* its `attempts`                              *)
    custom     : BOOLEAN,   (* it has a custom ShouldRetryFn               *)
    throw      : BOOLEAN,   (* throw_on_error                              *)
    limited    : BOOLEAN,   (* max_response_bytes is set ...               *)
    maxBytes   : Nat,       (* ... to this                                 *)
    peekBytes  : Nat,       (* retry_body_peek_bytes                       *)
    timed      : BOOLEAN ]  (* a timeout is configured                     *)

ASSUME RequestsAssumption == Requests \subseteq RequestType
ASSUME BodySizesAssumption == BodySizes \subseteq Nat

VARIABLES
  req,        (* the request; never changes                                *)
  pc,         (* where the loop is suspended                               *)
  attempt,    (* the loop's attempt counter                                *)
  cancelled,  (* the cancellation token is triggered                       *)
  payload,    (* the request body held in `prep`: "whole" or "spent"       *)
  carried,    (* history: what the calls made so far carried as body       *)
  calls,      (* history: calls made to the backend                        *)
  sent,       (* the status of the current response as the server sent it  *)
  status,     (* the same status after the response hooks rewrote it       *)
  size,       (* the length of the current response's body                 *)
  peeked,     (* a prefix of that body is in memory (peeked_body is Some)  *)
  failure,    (* the error the current call ended with                     *)
  onRetry,    (* history: runs of the on_retry hooks                       *)
  onSuccess,  (* history: runs of the on_success(_stream) hooks            *)
  onError,    (* history: runs of the on_error hooks                       *)
  outcome,    (* what the loop returned: an answer or an error             *)
  reported    (* the number a RetryExhausted or BodyTooLarge error carries *)

wireVars  == <<payload, carried, calls>>
replyVars == <<sent, status, size, peeked>>
hookVars  == <<onRetry, onSuccess, onError>>
endVars   == <<outcome, reported>>
vars == <<req, pc, attempt, cancelled, wireVars, replyVars, failure, hookVars,
          endVars>>

-----------------------------------------------------------------------------
(* What the request's configuration means.                                 *)

MaxAttempts == IF req.retries THEN req.maxRetries ELSE 0

NonReplayable == req.body # "bytes"

PeekLimit ==
  IF req.limited /\ req.maxBytes < req.peekBytes THEN req.maxBytes
                                                 ELSE req.peekBytes

TransportRetryable(err) == err \in {"Transport", "Timeout"}

(* Faulty variant: the budget counts the first call as a retry.            *)
MayRetryEarlyStop ==
  /\ req.retries
  /\ attempt + 1 < MaxAttempts
  /\ req.custom \/ status = "retryable"

(* The retry decision on the response at hand.  A custom predicate is user *)
(* code and may say either; the default one accepts the retryable statuses.*)
MayRetry ==
  /\ req.retries
  /\ attempt < MaxAttempts
  /\ req.custom \/ status = "retryable"

MayContinue == req.custom \/ ~MayRetry

-----------------------------------------------------------------------------
(* Moves shared by several actions.                                        *)

Goto(to) == pc' = to /\ UNCHANGED endVars

Return(result, number) ==
  /\ pc' = "done"
  /\ outcome' = result
  /\ reported' = number

(* The call ended with an error that handle_transport_error will see.      *)
Fail(err) == failure' = err /\ Goto("failed")

(* Faulty variant: the on_retry hooks are skipped.                         *)
RescheduleSilently ==
  /\ Goto("backoff")
  /\ UNCHANGED hookVars

(* run_retry_backoff up to its sleep.                                      *)
Reschedule ==
  /\ onRetry' = onRetry + 1
  /\ Goto("backoff")
  /\ UNCHANGED <<onSuccess, onError>>

-----------------------------------------------------------------------------
Init ==
  /\ req \in Requests
  /\ pc = "attempt" /\ attempt = 0 /\ cancelled = FALSE
  /\ payload = "whole" /\ carried = {} /\ calls = 0
  /\ sent = "success" /\ status = "success" /\ size = 0 /\ peeked = FALSE
  /\ failure = "none"
  /\ onRetry = 0 /\ onSuccess = 0 /\ onError = 0
  /\ outcome = "pending" /\ reported = 0

(***************************************************************************)
(* The head of the loop.                                                   *)
(***************************************************************************)

(* Faulty variant: a multipart form is not recognised as single-use.       *)
ReplayAllowedMultipart == ~(attempt > 0 /\ req.body = "stream")

ReplayAllowed == ~(attempt > 0 /\ NonReplayable)

(* check_attempt_replay ends the request with NonReplayableBody; no hook   *)
(* sees it, and neither the response nor the error that caused the retry.  *)
RefuseReplay ==
  /\ pc = "attempt"
  /\ ~ReplayAllowed
  /\ Return("NonReplayableBody", 0)
  /\ UNCHANGED <<req, attempt, cancelled, wireVars, replyVars, failure, hookVars>>

(* take_body_for_attempt moves a stream out of `prep` on the first attempt *)
(* (an empty body stays), build_http_request takes the multipart form.     *)
TakeBody ==
  /\ carried' = carried \cup {payload}
  /\ payload' = IF NonReplayable THEN "spent" ELSE payload

CallBackend ==
  /\ pc = "attempt"
  /\ ReplayAllowed
  /\ TakeBody
  /\ calls' = calls + 1
  /\ Goto("inflight")
  /\ UNCHANGED <<req, attempt, cancelled, replyVars, failure, hookVars>>

(***************************************************************************)
(* The transport call: execute for a buffered request without a cap,       *)
(* execute_stream otherwise.                                               *)
(***************************************************************************)

ReplyArrives ==
  /\ pc = "inflight"
  /\ sent' \in Statuses
  /\ status' = sent'
  /\ size' \in BodySizes
  /\ peeked' = FALSE
  /\ UNCHANGED <<req, attempt, cancelled, wireVars, hookVars>>

(* execute returns the whole response.                                     *)
BufferedReply ==
  /\ req.mode = "buffered" /\ ~req.limited
  /\ ReplyArrives
  /\ Goto("response")
  /\ UNCHANGED failure

(* fetch_buffered_response under a cap: a Content-Length above it fails    *)
(* before the body is read.  The header is what the server says, not what  *)
(* it sends; without one nothing exceeds the cap.                          *)
CappedReply ==
  /\ req.mode = "buffered" /\ req.limited
  /\ ReplyArrives
  /\ \E declared \in BodySizes \cup {0} :
        IF declared > req.maxBytes
        THEN Fail("BodyTooLarge")
        ELSE Goto("collect") /\ UNCHANGED failure

StreamReply ==
  /\ req.mode = "streaming"
  /\ ReplyArrives
  /\ Goto("evaluate")
  /\ UNCHANGED failure

(* accumulate_stream of fetch_buffered_response.                           *)
CollectBody ==
  /\ pc = "collect"
  /\ IF size > req.maxBytes
     THEN Fail("BodyTooLarge")
     ELSE Goto("response") /\ UNCHANGED failure
  /\ UNCHANGED <<req, attempt, cancelled, wireVars, replyVars, hookVars>>

(* Body reads of the streaming path.  They run on the bare body: neither   *)
(* the cancellation token nor the on_error hooks are attached to them.  A  *)
(* peek that met the end of the body leaves nothing to wait for.           *)
Reading ==
  \/ pc = "drain"
  \/ pc \in {"peek", "peekError"} /\ PeekLimit > 0
  \/ pc \in {"drainRest", "drainError"} /\ size >= PeekLimit

(* The transport reports `err` to whatever waits for it.                   *)
Interrupt(err) ==
  /\ \/ pc \in {"inflight", "collect"} /\ Fail(err)
     \/ Reading /\ Return(err, 0) /\ UNCHANGED failure
  /\ UNCHANGED <<req, attempt, cancelled, wireVars, replyVars, hookVars>>

ConnectionBreaks == Interrupt("Transport")

(* Any error of a custom backend that is neither Transport nor Timeout.    *)
BackendRefuses == pc = "inflight" /\ Interrupt("Other")

(* Faulty variant: the timeout stops once the headers are there.           *)
TimeoutFiresOnCallOnly == req.timed /\ pc = "inflight" /\ Interrupt("Timeout")

(* The timeout covers the call and the reading of its body.                *)
TimeoutFires == req.timed /\ Interrupt("Timeout")

(* Faulty variant: the capped body is read without wrap_cancellation.      *)
CancelCallOnly ==
  /\ cancelled
  /\ pc = "inflight"
  /\ Fail("Cancelled")
  /\ UNCHANGED <<req, attempt, cancelled, wireVars, replyVars, hookVars>>

(* execute_or_cancel, and wrap_cancellation around a capped body.          *)
CancelCall ==
  /\ cancelled
  /\ pc \in {"inflight", "collect"}
  /\ Fail("Cancelled")
  /\ UNCHANGED <<req, attempt, cancelled, wireVars, replyVars, hookVars>>

(***************************************************************************)
(* handle_transport_error and run_retry_backoff.                           *)
(***************************************************************************)

(* Faulty variant: one retry too many.                                     *)
RetryFailureOnceMore ==
  /\ pc = "failed"
  /\ TransportRetryable(failure)
  /\ attempt <= MaxAttempts
  /\ Reschedule
  /\ UNCHANGED <<req, attempt, cancelled, wireVars, replyVars, failure>>

RetryFailure ==
  /\ pc = "failed"
  /\ TransportRetryable(failure)
  /\ attempt < MaxAttempts
  /\ Reschedule
  /\ UNCHANGED <<req, attempt, cancelled, wireVars, replyVars, failure>>

(* Faulty variant: RetryExhausted counts the retries, not the calls.       *)
ReportFailureCountingRetries ==
  /\ pc = "failed"
  /\ ~TransportRetryable(failure) \/ attempt >= MaxAttempts
  /\ onError' = onError + 1
  /\ IF TransportRetryable(failure) /\ req.retries
     THEN Return("RetryExhausted", attempt)
     ELSE Return(failure, 0)
  /\ UNCHANGED <<req, attempt, cancelled, wireVars, replyVars, failure,
                 onRetry, onSuccess>>

(* Faulty variant: the error is propagated before on_error runs.           *)
ReportFailureSilently ==
  /\ pc = "failed"
  /\ ~TransportRetryable(failure) \/ attempt >= MaxAttempts
  /\ Return(failure, 0)
  /\ UNCHANGED <<req, attempt, cancelled, wireVars, replyVars, failure, hookVars>>

(* With a policy even a first failure counts as exhausted (count(0)).      *)
ReportFailure ==
  /\ pc = "failed"
  /\ ~TransportRetryable(failure) \/ attempt >= MaxAttempts
  /\ onError' = onError + 1
  /\ IF TransportRetryable(failure) /\ req.retries
     THEN Return("RetryExhausted", attempt + 1)
     ELSE Return(failure, IF failure = "BodyTooLarge" THEN req.maxBytes ELSE 0)
  /\ UNCHANGED <<req, attempt, cancelled, wireVars, replyVars, failure,
                 onRetry, onSuccess>>

(* Faulty variant: attempts are counted down.                              *)
BackoffElapsesCountingDown ==
  /\ pc = "backoff"
  /\ attempt' = attempt - 1
  /\ Goto("attempt")
  /\ UNCHANGED <<req, cancelled, wireVars, replyVars, failure, hookVars>>

(* sleep_or_cancel: the timer and the token race, whichever is polled      *)
(* first among those that are ready wins.                                  *)
BackoffElapses ==
  /\ pc = "backoff"
  /\ attempt' = attempt + 1
  /\ Goto("attempt")
  /\ UNCHANGED <<req, cancelled, wireVars, replyVars, failure, hookVars>>

CancelBackoff ==
  /\ pc = "backoff"
  /\ cancelled
  /\ Return("Cancelled", 0)
  /\ UNCHANGED <<req, attempt, cancelled, wireVars, replyVars, failure, hookVars>>

(***************************************************************************)
(* A buffered response: on_response hooks, retry decision, settlement.     *)
(***************************************************************************)

(* The hooks run on every attempt, before the retry decision, and may      *)
(* rewrite the status it is taken on.                                      *)
RunOnResponse ==
  /\ pc = "response"
  /\ status' \in Statuses
  /\ Goto("decide")
  /\ UNCHANGED <<req, attempt, cancelled, wireVars, sent, size, peeked, failure,
                 hookVars>>

(* A response hook, buffered or streaming, returns Err: no on_error.       *)
HookAborts ==
  /\ pc \in {"response", "headers"}
  /\ Return("Hook", 0)
  /\ UNCHANGED <<req, attempt, cancelled, wireVars, replyVars, failure, hookVars>>

(* Faulty variant: a status retry does not look at the budget.             *)
RetryBufferedUnbounded ==
  /\ pc = "decide"
  /\ req.retries /\ status = "retryable"
  /\ attempt <= MaxAttempts
  /\ Reschedule
  /\ UNCHANGED <<req, attempt, cancelled, wireVars, replyVars, failure>>

RetryBuffered ==
  /\ pc = "decide"
  /\ MayRetry
  /\ Reschedule
  /\ UNCHANGED <<req, attempt, cancelled, wireVars, replyVars, failure>>

SucceedBuffered ==
  /\ pc = "decide"
  /\ MayContinue
  /\ status = "success"
  /\ onSuccess' = onSuccess + 1
  /\ Return("Answer", 0)
  /\ UNCHANGED <<req, attempt, cancelled, wireVars, replyVars, failure, onRetry,
                 onError>>

(* maybe_validate_response: a strict registry rejects the body before the  *)
(* on_success hooks; on_error is not told.                                 *)
RejectBySchema ==
  /\ pc = "decide"
  /\ MayContinue
  /\ status = "success"
  /\ Return("SchemaValidation", 0)
  /\ UNCHANGED <<req, attempt, cancelled, wireVars, replyVars, failure, hookVars>>

(* Faulty variant: throw_on_error is ignored.                              *)
FailBufferedAnswering ==
  /\ pc = "decide"
  /\ MayContinue
  /\ status # "success"
  /\ onError' = onError + 1
  /\ Return("Answer", 0)
  /\ UNCHANGED <<req, attempt, cancelled, wireVars, replyVars, failure, onRetry,
                 onSuccess>>

FailBuffered ==
  /\ pc = "decide"
  /\ MayContinue
  /\ status # "success"
  /\ onError' = onError + 1
  /\ Return(IF req.throw THEN "Http" ELSE "Answer", 0)
  /\ UNCHANGED <<req, attempt, cancelled, wireVars, replyVars, failure, onRetry,
                 onSuccess>>

(***************************************************************************)
(* A streaming response.  evaluate_stream_retry decides on the status the  *)
(* server sent, before any response hook runs.                             *)
(***************************************************************************)

EvaluateStream ==
  /\ pc = "evaluate"
  /\ Goto(IF req.retries /\ req.custom THEN "peek"
          ELSE IF MayRetry THEN "drain"
          ELSE "headers")
  /\ UNCHANGED <<req, attempt, cancelled, wireVars, replyVars, failure, hookVars>>

(* The custom predicate sees a prefix of the body.                         *)
PeekForPredicate ==
  /\ pc = "peek"
  /\ peeked' = TRUE
  /\ \/ MayRetry /\ Goto("drainRest")
     \/ Goto("headers")
  /\ UNCHANGED <<req, attempt, cancelled, wireVars, sent, status, size, failure,
                 hookVars>>

(* drain_remaining: the rest of the body, however long.                    *)
DrainRest ==
  /\ pc = "drainRest"
  /\ Reschedule
  /\ UNCHANGED <<req, attempt, cancelled, wireVars, replyVars, failure>>

(* drain_body_for_retry: a body longer than the peek limit ends the        *)
(* request instead of being retried.                                       *)
DrainForRetry ==
  /\ pc = "drain"
  /\ IF size > PeekLimit
     THEN Return("BodyTooLarge", PeekLimit) /\ UNCHANGED hookVars
     ELSE Reschedule
  /\ UNCHANGED <<req, attempt, cancelled, wireVars, replyVars, failure>>

(* The hooks may rewrite the status; no retry follows any more.            *)
RunOnResponseStream ==
  /\ pc = "headers"
  /\ status' \in Statuses
  /\ Goto(IF status' = "success" THEN "accept"
          ELSE IF peeked THEN "report"
          ELSE "peekError")
  /\ UNCHANGED <<req, attempt, cancelled, wireVars, sent, size, peeked, failure,
                 hookVars>>

AcceptStream ==
  /\ pc = "accept"
  /\ onSuccess' = onSuccess + 1
  /\ Return("Answer", 0)
  /\ UNCHANGED <<req, attempt, cancelled, wireVars, replyVars, failure, onRetry,
                 onError>>

(* finish_stream_http_status: the error hooks get a prefix of the body.    *)
PeekErrorBody ==
  /\ pc = "peekError"
  /\ peeked' = TRUE
  /\ Goto("report")
  /\ UNCHANGED <<req, attempt, cancelled, wireVars, sent, status, size, failure,
                 hookVars>>

ReportStreamStatus ==
  /\ pc = "report"
  /\ onError' = onError + 1
  /\ IF req.throw THEN Goto("drainError") ELSE Return("Answer", 0)
  /\ UNCHANGED <<req, attempt, cancelled, wireVars, replyVars, failure, onRetry,
                 onSuccess>>

DrainErrorBody ==
  /\ pc = "drainError"
  /\ IF size > PeekLimit
     THEN Return("BodyTooLarge", PeekLimit)
     ELSE Return("Http", 0)
  /\ UNCHANGED <<req, attempt, cancelled, wireVars, replyVars, failure, hookVars>>

-----------------------------------------------------------------------------
(* The token is triggered by its owner, at any time.                       *)
Cancel ==
  /\ ~cancelled
  /\ pc # "done"
  /\ cancelled' = TRUE
  /\ UNCHANGED <<req, pc, attempt, wireVars, replyVars, failure, hookVars, endVars>>

(* The loop has returned.                                                  *)
Returned == pc = "done" /\ UNCHANGED vars

(* Steps the server takes if and when it likes.                            *)
ServerStep ==
  \/ BufferedReply \/ CappedReply \/ StreamReply
  \/ CollectBody \/ PeekForPredicate \/ DrainRest \/ DrainForRetry
  \/ PeekErrorBody \/ DrainErrorBody
  \/ ConnectionBreaks \/ BackendRefuses

(* Steps the runtime takes once their guard holds: the task is polled, the *)
(* timers fire, the hooks return.                                          *)
TaskStep ==
  \/ RefuseReplay \/ CallBackend
  \/ TimeoutFires \/ CancelCall
  \/ RetryFailure \/ ReportFailure \/ BackoffElapses \/ CancelBackoff
  \/ RunOnResponse \/ HookAborts
  \/ RetryBuffered \/ SucceedBuffered \/ RejectBySchema \/ FailBuffered
  \/ EvaluateStream \/ RunOnResponseStream \/ AcceptStream \/ ReportStreamStatus

Next == ServerStep \/ TaskStep \/ Cancel \/ Returned

Spec == Init /\ [][Next]_vars

(* Body steps that wait for nobody.                                        *)
BodyAtHand ==
  /\ ~Reading
  /\ PeekForPredicate \/ PeekErrorBody \/ DrainRest \/ DrainErrorBody

Fairness == WF_vars(TaskStep) /\ WF_vars(BodyAtHand)

FairSpec == Spec /\ Fairness

-----------------------------------------------------------------------------
(* The variables have their types.                                         *)
TypeOK ==
  /\ req \in Requests
  /\ pc \in {"attempt", "inflight", "collect", "failed", "backoff", "response",
             "decide", "evaluate", "peek", "drainRest", "drain", "headers",
             "accept", "peekError", "report", "drainError", "done"}
  /\ attempt \in Nat /\ calls \in Nat /\ reported \in Nat /\ size \in Nat
  /\ onRetry \in Nat /\ onSuccess \in Nat /\ onError \in Nat
  /\ cancelled \in BOOLEAN /\ peeked \in BOOLEAN
  /\ payload \in {"whole", "spent"}
  /\ carried \subseteq {"whole", "spent"}
  /\ sent \in Statuses /\ status \in Statuses
  /\ failure \in {"none", "Transport", "Timeout", "Other", "Cancelled",
                  "BodyTooLarge"}
  /\ pc = "failed" => failure # "none"
  /\ outcome \in {"pending", "Answer", "Http", "RetryExhausted", "Transport",
                  "Timeout", "Other", "Cancelled", "BodyTooLarge", "Hook",
                  "SchemaValidation", "NonReplayableBody"}

(* `attempts` is the number of retries after the first call, however the   *)
(* attempts ended and in both modes; without a policy there is one call.   *)
RetryBudget == calls <= MaxAttempts + 1

(* A request body that cannot be replayed goes out once, and no call ever  *)
(* goes out with the emptied body that the first call left behind.         *)
BodySentWhole ==
  /\ carried \subseteq {"whole"}
  /\ NonReplayable => calls <= 1

(* RetryExhausted carries the number of calls really made, which is the    *)
(* whole budget, and every retry among them was announced to on_retry.     *)
ExhaustedCountExact ==
  outcome = "RetryExhausted" =>
    /\ reported = calls
    /\ calls = MaxAttempts + 1
    /\ onRetry = MaxAttempts

(* on_success and on_error exclude each other and run at most once; the    *)
(* answer given to the caller is the one that was announced.               *)
SettledOnce ==
  /\ onSuccess + onError <= 1
  /\ onSuccess = 1 => outcome = "Answer" /\ status = "success"
  /\ outcome = "Answer" => onSuccess + onError = 1
  /\ outcome = "Answer" /\ onError = 1 => status # "success" /\ ~req.throw
  /\ outcome \in {"Http", "RetryExhausted"} => onError = 1

(* Every transport failure that ends a buffered request is told to the     *)
(* on_error hooks; what they miss is named here, and nothing else.         *)
BufferedFailureReported ==
  req.mode = "buffered" /\ pc = "done" /\ onSuccess + onError = 0 =>
    outcome \in {"Hook", "SchemaValidation", "NonReplayableBody", "Cancelled"}

(* With the default predicate no retryable response is handed to the       *)
(* caller, as an answer or as an Http error, while a retry is left.        *)
RetryableNotSurrendered ==
  LET judged == IF req.mode = "buffered" THEN status ELSE sent IN
  req.retries /\ ~req.custom /\ outcome \in {"Answer", "Http"} /\ judged = "retryable"
    => attempt = MaxAttempts

(* Each call beyond the first was announced by a run of on_retry of its    *)
(* own, and its attempt number is the one the hooks are told.              *)
RetryAnnounced ==
  [][calls' > calls => onRetry = calls /\ attempt = calls]_vars

(* The loop keeps the contract.  A request whose body cannot be replayed   *)
(* has no retry to spend, whatever its policy says.                        *)
Contract == INSTANCE RequestContract WITH
  budget  <- IF NonReplayable THEN 0 ELSE MaxAttempts,
  tries   <- calls,
  phase   <- IF pc = "done" THEN "settled"
             ELSE IF calls = 0 \/ (~NonReplayable /\ onRetry = calls) THEN "idle"
             ELSE "trying",
  verdict <- IF pc # "done" THEN "none"
             ELSE IF onSuccess > 0 THEN "success"
             ELSE IF onError > 0 THEN "error"
             ELSE "silent"

KeepsContract == Contract!ContractSpec

-----------------------------------------------------------------------------
(* With a timeout configured every request ends, even if the server falls  *)
(* silent in any of the calls or bodies.                                   *)
TimedRequestsEnd == req.timed ~> pc = "done"

(* A triggered token ends a buffered request without the server's help.    *)
CancelEndsBuffered == cancelled /\ req.mode = "buffered" ~> pc = "done"

-----------------------------------------------------------------------------
(* What the documentation says and the code does not do.                   *)

(* README.md:357, retry.rs:6: without a custom predicate a status retry of *)
(* a stream does not depend on the body.  In the code a retryable response *)
(* longer than the peek limit ends the request with a retry left.          *)
StreamRetryIgnoresBody ==
  req.mode = "streaming" /\ req.retries /\ ~req.custom
    /\ sent = "retryable" /\ attempt < MaxAttempts
    => outcome # "BodyTooLarge"

(* hooks.rs:229: on_error runs when an error occurs.  In the code a stream *)
(* request whose body read fails inside the loop ends without it.          *)
StreamFailureReported ==
  req.mode = "streaming" /\ outcome \in {"Transport", "Timeout", "BodyTooLarge"}
    => onError = 1

(* request.rs:262, request.rs:367: a triggered token ends the request.  In *)
(* the code the body reads of a streaming request do not listen to it.     *)
CancelEndsStreaming == cancelled /\ req.mode = "streaming" ~> pc = "done"

=============================================================================
