# A TLA+ model of better-fetch

better-fetch is an HTTP client library in Rust on top of tokio and reqwest. A request is built,
prepared (URL, authentication, plugins, hooks), admitted by an optional limit on the number of
requests in flight, sent by a retry loop over a transport backend, and answered as a buffered response
or as a stream that the caller reads. This directory models the parts in which time, order, failure
and other requests matter, checks the models with TLC on small instances, and proves the most
important properties with TLAPS for all values of the constants.

Paths below are relative to `crates/better-fetch/src/` of the repository.

## The system

| Component | State it keeps | Operations | Talks to | What makes it correct |
|---|---|---|---|---|
| Retry loop (`request_pipeline.rs`, `run_http_loop`) | attempt counter, the prepared request with its body, the current response | call the backend, judge the response, back off, run hooks, return | backend, hooks, token, policy | stays in its budget, sends a body only while it has it, announces every retry, settles once, ends when a timeout or a token says so |
| In-flight limit (`request_pipeline.rs:160`, `client_builder.rs`) | a tokio semaphore shared by the clones of a client; a permit inside each prepared request | acquire, hold through retries, give back on return or drop | all requests of the client, hooks that send requests | permits are conserved, the limit holds, nobody is overtaken, everybody ends |
| Retry policy (`retry.rs`) | none; the configuration | delay before an attempt, jitter, Retry-After, retry decision | retry loop, clock | a mandated delay is kept exactly, the own delay stays within bounds through all saturations |
| Cancellation (`cancel.rs`, `streaming.rs`) | a token | race against a sleep, a call, a body | everything that waits | a triggered token ends what listens to it |
| Response body streams (`streaming.rs`) | wrappers around a stream with counters | peek, prepend, limit, cancel, collect, write to a file | loop, caller | bytes in order, exact limits, silence after a stop |
| Server-sent events (`sse.rs`) | text buffer, pending CR, pending events | push a chunk, poll, finish | body stream, caller | independent of how the body is cut |
| Client and request builders (`client_builder.rs`, `client.rs`, `request.rs`, `endpoint.rs`, the derive macros) | what was set so far; for typed requests, a type state | setters, `build`, `call`, `send` | preparation | of two settings that meet, the right one wins; a typed request is complete |
| URL building (`url_build.rs`, `path_params.rs`) | none | method modifier, placeholders, encoding, queries, joining | preparation | a value stays in its segment, a key keeps its last values |
| Authentication, plugins, hooks (`auth.rs`, `plugin.rs`, `hooks.rs`) | ordered chains | resolve and apply, initialise, run, merge, stop at the first error | preparation, loop | order of registration, one error ends the chain |
| Schema registry (`schema.rs`, `schema_validate.rs`) | entries and an index of routes | register, look up, validate | preparation, loop | in strict mode the route that is asked for is registered; what is sent and read satisfies the entry of its route, if there is one |
| Request preparation (`request_pipeline.rs`, `prepare_execution`) | the request under construction | URL, route check, auth, plugins, hooks, permit, schema check | all of the above | each step sees what the one before left |
| Responses (`response.rs`, `json_parser.rs`, `validate_json.rs`, `api_response.rs`) | a body, its status and a parser | a dozen readers | caller | a checked reader looks at the status, the right parser parses |
| Tower transport (`tower/`) | two stacks, cloned for each call, their shared layers | clone, ready, call | loop | the limit of a layer holds, no permit is lost |
| Recording backend (`backend/recording.rs`) | two counters, last request | count, record, execute, take | tests | counters and snapshots are honest |
| OpenAPI export, logging, tracing, diagnostics, alias crates | none | output, re-exports | | |

The hard behaviours are: the loop suspends at a dozen places and can be cancelled, timed out or
dropped there; it has five paths into a retry and more than ten out of the request, in two modes that
judge a response at different moments; requests of one client wait for each other, and hooks can nest
them; a body is read by up to three readers in a row through wrappers that each count bytes; delays
are computed in integers that saturate; and six places write to a request one after the other, some of
them after another part of the code has looked at it.

## Modules

| Module | Models |
|---|---|
| `RequestContract` | what one request promises: an abstract specification |
| `RequestPipeline` | the retry loop; refines `RequestContract` |
| `Admission` | what the in-flight limit promises: an abstract specification |
| `InFlight` | many requests, one semaphore, nested requests from hooks, dropped futures; refines `Admission` |
| `BodyStream` | one response body from the transport to its reader |
| `Sse` | incremental decoder, event stream, and the whole-text parser as their reference |
| `RetryDelay` | policies, jitter and Retry-After on a clock |
| `UrlBuild` | the construction of a URL, as operators |
| `Builders` | extends `UrlBuild`: every setter of the client, the request and the typed endpoint, the checks of the macros |
| `Responses` | the readers of a buffered response, as operators |
| `SchemaRegistry` | extends `Builders` and `Responses`: registration, lookup, validation |
| `Exchange` | extends `SchemaRegistry`: one request from the first setter to the value that is read |
| `Transport` | concurrent calls through a recording backend over Tower stacks |
| `MC...` | the constants of the runs |
| `Induction` | no part of the system: induction and recursion, for the proofs |
| `...Proofs` | invariants, lemmas and theorems |

A request passes through `Exchange`'s preparation; the permit it takes on the way is `InFlight`'s, its
attempts are `RequestPipeline`'s, the delays between them `RetryDelay`'s; each attempt is a call of
`Transport`, and the body of its answer is `BodyStream`'s, which `Sse` may read. `Exchange` has one attempt,
so that it can afford every order of the calls around it.

### RequestPipeline

One action is the code between two suspension points of `run_http_loop`; `pc` says where the loop is
suspended. A status is a success, one that `default_should_retry` accepts, or another failure; a body is
its length. The server answers with anything, breaks any call or read, or stays silent; response hooks
rewrite the status to anything or fail; a custom predicate says anything; the token is triggered at any
time. `calls`, `carried`, `onRetry`, `onSuccess` and `onError` are history variables. The actions follow
the source: `RefuseReplay`/`CallBackend` are the head of the loop, `BufferedReply`, `CappedReply`,
`CollectBody` and `StreamReply` the call, `RetryFailure`/`ReportFailure` are `handle_transport_error`,
`RunOnResponse` to `FailBuffered` the buffered arm, `EvaluateStream` to `DrainErrorBody` the streaming
arm with `evaluate_stream_retry` and `finish_stream_http_status`.

`RequestContract` knows calls, retries and one settlement. The mapping gives a request with a body that
cannot be replayed a budget of zero, whatever its policy says, because `check_attempt_replay` ends it
at the second attempt.

### InFlight

A slot of `Requests` issues one request after the other. `pc` has the phases of `prepare_execution` and
the loop that matter for the permit; `owners` are the requests whose `PreparedExecution` holds one,
`queue` and `granted` the semaphore's waiters. `GiveBack`, `Admit` and `DropWaiting` are tokio's
semaphore, modelled from its documented fairness: a permit given back goes to the first waiter. `Asks`
lets hooks send requests on the same client and await them.

`Admission` is the same without a semaphore: a room with a limited number of places, a line in front of it, and a
place that becomes free goes to the first in line in the same step. In the mapping a waiter that has
its permit but was not polled is in the room, and what requests do inside the room is a stutter.

### BodyStream

A chunk is the stretch of the body it holds, so that order and loss are visible. `PeekChunk`, `PeekStops`
and `PeekFails` are `peek_stream_prefix`, `HandOver` is the prepending, `Pass` is `MaxBytesStream`,
`Cancelled` the `CancelBodyStream` around it, `Keep` the limit of `accumulate_stream` and of
`stream_to_file`. `use` says who reads; a caller that polls sees errors and may go on polling.

### Sse

A text is a sequence of line ends, field names, blanks and other characters. `Push` is `push_chunk` with
`drain_complete_events`; `TakeEvent`, `PushChunk`, `RejectChunk`, `BodyFails` and `BodyEnds` are the
branches of `SseEventStream::poll_next`; `ParseSseEvents` is the parser of `read_sse_events`. The two
differ in one place: `finish` does not trim the last block, so that `StreamEqualsBuffer` excepts a last block that
begins or ends with a blank and was not yet complete when the body ended.

### RetryDelay

`Delays` is `delay_after_response`: the set of delays, because jitter draws a random number. `OwnDelayBounded` demands the
exact delay where no jitter is configured. A count policy has none to configure and is said to wait a fixed second
without jitter (`retry.rs:71`, 105); the code jitters it, and the property says what comes of it: each
of its delays is shorter than the second, never equal to it. Integers
saturate at constants, so that small instances reach every saturation. `StartSleep` lets the `on_retry`
hooks take time before the delay is computed, as in `run_retry_backoff`.

### UrlBuild, Builders, Responses, SchemaRegistry

Strings are tokens. A path template is the parts between its slashes (text, placeholder, method modifier)
and the pairs of its embedded query; a URL keeps for each segment whether it was encoded, because
`ParsePath` cuts a value at the reserved characters that were not. A call of a setter is a tuple of its
name and arguments, and `ConfigureClient` and `ConfigureRequest` are what each setter does, overwriting
or keeping as the code does (`json` keeps a Content-Type that is set, `content_type` replaces it). The
setters that take many values of one kind (`param`, `params`; `query`, `query_array`, `query_struct`)
are one call with a map. `Derives`, `CallInitial`, `Admits` and `StateAfter` are the macros' checks and the
three states of the typed builder. A JSON text stands for its value and a schema for the values it
accepts; `PushEntry` keeps the index on the first entry of a route, as `entry().or_insert` does.

### Exchange

A program says which calls its author may make, in any order, up to a number. `Register`, `MakeStrict`,
`Builder`, `Build`, `Start` or `Call`, and `Configure` are the calls; `PrepareUrl`, `ApplyAuth`, `RunInitAll`,
`RunOnRequest` and `Validate` the phases of `prepare_execution` with each early return; `Exchanged` the
attempt, with everything `build_http_request` hands to the backend; `RunOnResponse` and `Settle` what the
loop does with the answer, and `Read` the reader. Plugins and hooks run one per step and are what they do
to their context. `clientLog` and `requestLog` are history variables: the properties say what should be sent
from the calls that were made, where the model computes it from what the setters left.

### Transport

Each call counts itself, records itself, waits for its clone of the stack to be ready, goes over the wire and
ends; it may fail or be dropped on the way. A test takes snapshots and adds up `total_calls`, which
loads two counters one after the other.

## Runs

| Run | Checks | Bounds |
|---|---|---|
| `RequestPipeline` | type, 6 invariants, `RetryAnnounced`, the refinement `KeepsContract`, liveness `TimedRequestsEnd`, `CancelEndsBuffered` | 672 configurations: two modes, three bodies, seven policies (none, 0, 1 or 2 retries, default or custom predicate), four caps around the peek limit, `throw_on_error`, timeout; body lengths 0 to 3, below, at and above each limit |
| `InFlight` | type, conservation, queue, the refinement `KeepsRoom`, and that every request ends | two permits, three slots, two of which send a request from a hook (one from `on_request`, one from a response hook), one retry: the least in which two requests queue and one is nested under a permit |
| `BodyStream` | type, order, completeness, limits, peek, silence, cancellation | bodies of 0 to 3 bytes in all cuts, each limit below, at and above the length |
| `Sse` | type, events as the whole-text parser's, in time, and at the end | texts of at most 6 tokens of 7 kinds in all cuts: two events, or one with a CRLF blank line, or one between blanks |
| `RetryDelay` | type, Retry-After, bounds, growth | at most 4 retries; a power saturates at 7, a duration at 12, a random number at 10; a second has 3 units |
| `Exchange` | type and registry index, `UrlFaithful`, `LastWriteSent`, `RegisteredValidated`, `EndpointComplete`, `ReadsChecked` | nine programs, below |
| `Transport` | type, `WireConserved`, `RecordingHonest` | three buffered calls on a stack of one permit, two streaming ones on a stack without a layer, two snapshots |

The programs of `Exchange` (`MCExchange`), each of which varies one part and fixes the rest:

| Program | Varies | Calls |
|---|---|---|
| `Urls` | seven templates (modifier known and unknown, two placeholders, absolute with and without a proper host, embedded query), bases with and without a query, values that hold a slash, are empty or are dots, repeated keys | 1 for the client, 3 for the request |
| `Writers` | all that writes headers, bodies and settings: defaults, setters, credentials that are absent or cannot be sent, plugin, hooks | 2 and 2 |
| `Rewriters` | plugins and hooks that replace URL, method, body, response, or fail, in both modes | 2 and 1 |
| `Transports` | every order of three of the five calls that choose a transport, in both modes | 3 |
| `Readings` | ten readers, eleven answers, parsers on client and request | 1 and 2 |
| `Registries` (two: strict and not) | up to two entries of three, two on one route, a plugin that changes the method | 1 and 3 |
| `Endpoints` | nine endpoints: typed by derive, by map, by unit, with and without a body, derived against another path, too few fields or, inline, a path that repeats a name | 3 |
| `TypedRoutes` | two endpoints, one of them of unit types, in a strict registry in which none, one or both are registered as their macro does | 2 |

Two calls of one kind are the least in which an order shows; the third in `Urls`, `Registries` and
`Endpoints` is a parameter, a query or body and what comes in between.

Counters are bounded by the configuration (the retry budget, a program's number of calls), not by the
checker, except the length of a text (`MaxText`), the time hooks and timers may take (`Slack`) and the
number of snapshots (`MaxTakes`). Deadlock is not checked in `Exchange` and `Transport`, whose calls end for
good.

### Disagreements

Five runs are violated by what the code does and document it:

- `StreamRetryIgnoresBody`: the README says a stream's body is not read before a status retry; the code
  drains it, and a body longer than the peek limit ends the request with a retry left.
- `StreamFailureReported`: `on_error` is said to run when an error occurs; a body read that fails inside
  the streaming loop leaves through `?` without it.
- `CancelEndsStreaming`: a token is said to cancel the request; peeking and draining do not listen to it.
- `SseEmptyChunk`: line ends are said to be recognised across chunks; an empty chunk between a CR and its
  LF makes two line ends of one.
- `SentAsDocumented`: `content_type` is said to set the header when it is not present (`request.rs:183`), a hook's
  changes of the body to be what is sent (`hooks.rs:35`), a strict registry to reject what is not
  registered (`schema.rs:53`). `ContentTypeKept`, `HookBodyApplied` and `RouteKnown` state these, and the
  property that one of them at least holds of each request. The trace refutes all three: a default Content-Type is
  replaced by `content_type`, a hook takes the body away and the builder's is sent, and it changes the
  method to one that is not registered, after the route was checked.

Others are visible in the models, which follow the code, and have no run of their own:

- `max_in_flight` is said to count hooks (`client_builder.rs:180`); the `on_request` hooks, authentication and
  plugins run before the permit is acquired (`InFlight`).
- A `Count` policy is said to wait a fixed second without jitter (`retry.rs:40`, 71 to 74 and 105); `uses_jitter`
  includes it, so that it never waits the second. `OwnDelayBounded` states this and `DelayWithinBounds` proves it.
- The unit type is said to be the query of a route without one (`endpoint.rs:100`); its schema accepts only null
  and the validation passes an object, so that a strict registry refuses every call of such an
  endpoint which `register_typed` registered (an outcome in `TypedRoutes`).
- One optional blank is said to be stripped after a field's colon (`sse.rs:200`, the changelog); `trim` removes all
  blanks at the end of a block, so that the value of its last line loses them, and at its beginning (`Sse`).
- A hook's body is ignored, too, when the request is multipart (`BuildHttpRequest`), although its changes are
  said to be applied (`hooks.rs:35`).
- `on_error` is said to run when an error occurs (`hooks.rs:229`). Besides body reads in the streaming loop,
  errors of hooks, rejections by the schema, a body that cannot be sent again and a token that ends a
  backoff end a request without it; `BufferedFailureReported` is about the endings that the transport causes.

And behaviours that no document mentions and a caller may not expect: a path joined to a base with a
query becomes part of that query; errors before the first attempt do not reach `on_error`; a path in which a name repeats is
refused by `derive(EndpointParams)` but not for inline fields; a multipart body is
validated as null; an embedded query is not validated; `hooks` replaces the hooks that were set;
`transport_stack` and `http_service` keep the reqwest client that was set before them; `json` after `form`
keeps the form's Content-Type; the macros count an embedded query as part of the last placeholder and so
refuse such paths; the error type of `send_api` and the schema validation of a response are parsed by
serde_json whatever parser is set; a Tower permit is held by a streaming call until its headers; and an unfinished
event at the end of a body is lost by `sse_events`, but not by `read_sse_events`, when a blank precedes its only line.

### Fairness

`RequestPipeline`: weak fairness of the task's own steps: the runtime polls a ready task, a timer fires,
a hook returns. The server has none: it may stay silent for ever, so that liveness rests on the timeout
or the token. `BodyAtHand` are reads that find the body already ended. `InFlight`: weak fairness of each
slot's task, calls that return (a timeout is configured; that they then do is `TimedRequestsEnd`) and,
for a request sent by a hook, a hook that reads the stream it asked for. Nobody is forced to send a
request. `BodyStream`: a reader polls as long as something is ready; the transport has no fairness.
`Exchange`, `Transport`, `Sse` and `RetryDelay` claim safety only and assume none.

`EveryRequestEnds` needs more permits than slots that send requests from response hooks: with as many,
each can hold a permit and wait for another. The instance is the smallest that has one such slot.

## Proofs

All proofs are checked by `tlapm`; the assumptions are the named `ASSUME`s of the modules on their
constants: finite sets of slots and calls, natural numbers for limits and sizes, typed configurations,
a random number below at least 1 (`NanosMax`), texts that are not JSON apart from numerals, an empty text has no reserved characters (`ReservedAssumption`),
and, in `Exchange`, what the types see to (`WellTyped`): calls are of methods that exist, a hook changes only what
its context lets it change (a streaming hook has no body), the derive macros are applied to a struct, not to the
unit type, and no field's name ends in a question mark; a base is a parsed URL, whose dots were resolved and whose
segments hold nothing that ends one (`IsUrl`); and the literal text of a template has no slash, which separates its
segments, and no question mark, which begins its query (`IsPath`). A literal fragment in a template is left out:
what follows it never reaches the server, by the meaning of a fragment.

- `Induction`: the library's induction theorems take an operator as a parameter and its theorems on
  recursive functions rest on them. Here a statement is a set (`NatSetInduction`, `LengthInduction`,
  `IndexInduction`), obtained from the least element of a well-founded order, and a recursion is a measure
  and a step (`MeasuredRecursion`), whose solution is built up by the measure; `IndexRecursion` and
  `FoldRecursion` are its cases for functions on positions and for `FoldLeft`. With them a recursive function of
  the model satisfies its own equation, and what it computes for inputs of every length can be proved.
- `RequestPipelineProofs`: every invariant of the run, `RetryAnnounced`, and `ImplementsContract`, the
  refinement. None of the invariants is inductive alone. `IInv` adds how the counters hang together:
  the number of calls is the attempt number, plus one from the call on; `onRetry` equals the attempt
  number or, in a backoff, one more; the body is whole exactly until a call took it; which hooks have run
  at which `pc`; and what the status was when a retry was last declined. Each action preserves it
  (`InvariantStep`), and `ContractStep` maps each action to a step of the contract or a stutter.
- `InFlightProofs`: conservation, the limit (`LimitHolds`, which follows from it), the honesty of the queue,
  first come first served, and `ImplementsAdmission`, the refinement (`RoomStep`: `RoomLeft` says that there is room
  exactly while the semaphore has a permit left). First come first served (`NoOvertaking`) follows from the
  refinement, which is what the run checks. All for any number of slots and permits. `IInv` adds that a phase that holds a permit is an owner and that
  the granted ones wait. The lemmas `PartsClose`, `SubSeqParts` and `RemovedAt` say what removing a waiter
  from the middle of the queue does to its elements.
- `BodyStreamProofs`: order, completeness, the limits, the bound of the peek and the silence after a stop,
  for bodies and chunks of every length. `IInv` adds that the peek holds all that has arrived, that the
  chunks in front of the transport join what the reader has to what has arrived (`Covers`), and that the
  limiter has counted what the reader has. `CoversOne`, `CoversTwo` and `CoversTail` say what splitting a
  chunk, prepending it and reading one do to such a stretch.
- `RetryDelayProofs`: type correctness (no delay is negative), `RetryAfterExact` and `OwnDelayBounded` (exact
  without jitter, and short of the second for a count policy), for all widths. `IInv` adds that the alarm of a sleep lies between the mandated moment and the slack.
  `BackoffsGrow` proves `BackoffGrows`: a saturating power grows with its exponent (`PowerGrows`, by induction),
  and so do the products and minima made of it.
- `SseProofs`: type correctness, `EventsInOrder`, `EventsOnTime` and `StreamEqualsBuffer`, for every body
  and every cut into chunks that are not empty. The invariant `StreamIsText` says that the
  events given out and pending and the buffer are those of the whole text so far, but for a CR that waits at
  its end. It is preserved because normalising line ends and draining blocks may be done part by part
  (`NormalizedConcat`, `DrainConcat`: by induction on length), because a waiting CR only
  ever changes the last, unfinished block (`ChunkSettles`), and because `finish` reads the block as the whole-text
  parser does but for blanks at its ends (`FinishIsTrimmed`). The hypothesis `MinChunk = 1`, no empty chunk, is
  needed: `SseEmptyChunk` shows an empty chunk break `EventsInOrder`.
- `TransportProofs`: the permits of a stack and its calls on the wire add up to its limit, and counters and
  snapshots are honest, for any number of calls and any limits. `IInv` adds `HalfRead`: what `total_calls` has
  after its first load. `OneMore` and `OneLess` count a set after a call moved.
- `ExchangeProofs`: the six invariants of its run, for every program, registry, plugin and hook,
  and calls in any number and order.
  - A strict registry knows the route that is asked for, and that which is sent unless a plugin or hook changes the
    method; where the route that is sent has an entry, the first one accepts what is sent and read
    (`RegisteredIsValidated`). `IInv` adds `RegistryOK`, the
    index leads each route to its first entry; `SentOK`, what was sent agrees with the request under
    construction; and `PhaseOK`, which says from which phase on the route is registered, the request accepted,
    the response accepted. `TextsDisjoint` is not needed by the proof: it keeps the tokens of an instance
    consistent. That the sent method is the one asked for unless it was changed comes from the last write.
  - The last write is sent (`LastWritesAreSent`), but for what the documentation promises otherwise: the media
    type of a request in which `content_type` came second (`Retyped`), and the body when a hook's is ignored
    (`HookIgnored`). The property looks for the last of the calls that concern a
    field; the model overwrites. `BuiltOK` joins the two while client and request are built: each field of either is
    what the last call in `clientLog` or `requestLog` wrote, which rests on what appending a call does to the
    filtered logs (`SelectedAppend`, `WrittenAppend`, `ParamCallsAppend`). `WireOK` goes on from there: in each
    phase the request under construction is the built one after the effects of the credentials and of
    the plugins and hooks that have run (`Concatenated` and `MergeFold` put client, plugins and their hooks into one chain).
  - Only what was checked is read (`OnlyCheckedIsRead`): `ReadOK` says that an outcome with a value is what the
    chosen reader made of the answer, which carries the request's parser unless a hook replaced the answer.
  - A typed endpoint is complete (`TypedIsComplete`): `CompleteOK` says what each state of the builder knows to be
    set. `DerivedNames` is the heart: when the macros accept the fields, each name that is
    substituted at run time is one of them, although the macros parse the path in another way.
  - The URL is faithful (`UrlsAreFaithful`). `UrlOK` says that the query of the request is the merge of all the
    caller gave and that a request past its preparation had a URL that could be built. The rest is
    about the operators of `UrlBuild`, on sequences of any length, by `FoldRecursion` and induction. *Path*:
    a template that was substituted has one plain segment for each of its own (`Substituted`, `Placed`), which is
    why the resolution of dots gives back its segments as they are (`AllPlain`, `Resolve`), and joining trims only blanks
    (`JoinedUrl`, `TemplateMade`). *Query*: merging, and turning the pairs of a query string into entries
    and entries into pairs, keeps for each key the values of its last entry and loses no key, and one
    merge after the other is a merge of all (`QueryApplied`). *Base*: what the last `base_url` call left (`BaseIsMade`).
  - `Whole` is their conjunction with `IInv`; each part is kept with the help of those before it (`WholeInvariant`).

Only model-checked: all liveness (`TimedRequestsEnd`, `CancelEndsBuffered`, `EveryRequestEnds`,
`CancelEndsRead`), which the prover does not do. Every safety and action property of the passing runs is proved.

## Not modelled

- OpenAPI export, logging, tracing, diagnostics and the alias crates: output and re-exports, no state.
- How text becomes tokens: percent-encoding and form-encoding character by character, the parsing of
  Retry-After, header syntax, the attributes the macros parse and the text they generate. The models say what these
  conversions keep and lose.
- `serialize_to_query_map` (serde structs to query values), the mapping of a request to reqwest's types, the
  constructors and display of errors.
- Tower's Buffer and RateLimit layers, which live outside of the repository; a stack without a layer and one
  with a ConcurrencyLimit are modelled.
- A base with a fragment, to which the code would join the path behind the `#`.
- Errors of the file system in `stream_to_file`, and which bytes form a character of a server-sent event.
- The wait for a permit of a closed semaphore: nothing closes it.

## Order of work

1. The retry loop with its contract, the in-flight limit, body streams, server-sent events and delays, with their
   proofs.
2. The preparation of a request and what surrounds it: `UrlBuild`, `Builders`, `Responses`, `SchemaRegistry`,
   composed in `Exchange`; `Transport`; their proofs.
3. `Induction`, and with it the proofs about recursive definitions and logs: `SseProofs`, the growth of delays, and
   `Exchange`'s other invariants.
4. What the merge of queries, the substitution and the resolution of dots do to sequences of any length, and with it
   `UrlFaithful`.
5. `Admission`, which `InFlight` refines.
6. Left: `Exchange` with more than one attempt, so that a hook that rewrites a response meets the retry decision of
   `RequestPipeline` with its schema validation.
