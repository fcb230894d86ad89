------------------------------ MODULE Exchange ------------------------------
(***************************************************************************)
(* One request from the first setter to the value the caller reads: the    *)
(* registry is filled, a client is configured and built, a request is      *)
(* configured and sent, prepare_execution turns it into what goes over the *)
(* wire (URL, authentication, plugins, hooks, schema validation), the      *)
(* transport answers and the answer passes hooks and validation before it  *)
(* is read.  There is one attempt: retries, permits, body streams and      *)
(* cancellation are RequestPipeline's, InFlight's and BodyStream's.        *)
(*                                                                         *)
(* A program says which calls its author makes: sets to choose from, in    *)
(* any order, up to a number.                                              *)
(***************************************************************************)
EXTENDS SchemaRegistry

CONSTANT Programs

(* What the compiler sees to: calls are of methods that the builders have, *)
(* and a hook changes what its context lets it change; a streaming hook    *)
(* is given no body.  A transport fails with errors of its own.            *)
ClientSetters ==
  {"base_url", "option", "auth", "default_header", "hooks", "plugin", "reqwest_client",
   "backend", "http_service", "transport_stack", "schema_registry"}
RequestSetters ==
  {"params", "base_url", "queries", "header", "content_type", "json", "form", "body_stream",
   "body", "multipart", "auth", "option"}
Reads ==
  {"text", "bytes", "json", "json_with", "json_unchecked", "send_json_validated",
   "validated_unchecked", "api", "content"}

Mutations == {"none", "fail", "header", "url", "method", "body"}
Permitted == [on_request         |-> Mutations,
              on_response        |-> {"none", "fail", "success", "type", "response"},
              on_response_stream |-> {"none", "fail", "success", "type"}]

IsHooks(hooks) ==
  /\ DOMAIN hooks = DOMAIN NoHooks
  /\ \A chain \in DOMAIN NoHooks :
       /\ hooks[chain] \in Seq(ToSet(hooks[chain]))
       /\ \A effect \in ToSet(hooks[chain]) : effect[1] \in Permitted[chain]

(* The text of a template has no slash, and no question mark (it would     *)
(* begin the query); a fragment in a template is left out.  A parsed base  *)
(* has no dots and nothing that would end a segment.                       *)
IsPath(path) ==
  /\ path.segs \in Seq(ToSet(path.segs)) \ {<<>>} /\ path.query \in Seq(ToSet(path.query))
  /\ \A i \in DOMAIN path.segs : path.segs[i].kind # "param" => path.segs[i].name \notin Reserved

IsPlain(seg) == seg.text \notin {".", ".."} /\ (seg.text \in Reserved => seg.encoded)
IsUrl(url) ==
  /\ DOMAIN url = DOMAIN Host("") /\ url.path \in Seq(ToSet(url.path))
  /\ \A i \in DOMAIN url.path : IsPlain(url.path[i])

IsClientCall(call) ==
  /\ call[1] \in ClientSetters
  /\ call[1] = "base_url" => IsUrl(call[2])
  /\ call[1] = "hooks" => IsHooks(call[2])
  /\ call[1] = "plugin" => call[2].init[1] \in Mutations /\ IsHooks(call[2].hooks)

(* The macros derive for a struct, and no field's name ends in a question  *)
(* mark.                                                                   *)
IsEndpoint(e) ==
  /\ IsPath(e.path)
  /\ e.typed = "derived" =>
       /\ ~IsUnit(e, "params")
       /\ \A i \in DOMAIN e.path.segs :
            e.path.segs[i].kind = "param" => e.path.segs[i].name \o "?" \notin ToSet(e.keys)

IsRequestCall(call) ==
  /\ call[1] \in RequestSetters \cup {"malformed"}
  /\ call[1] = "base_url" => IsUrl(call[2])
  /\ call[1] = "queries" =>
       /\ call[2] \in Seq(ToSet(call[2]))
       /\ \A entry \in ToSet(call[2]) : entry.values \in Seq(ToSet(entry.values))

WellTyped(p) ==
  /\ p.strict \in BOOLEAN
  /\ \A call \in p.clientCalls \cup ToSet(p.preset) : IsClientCall(call)
  /\ \A call \in p.requestCalls : IsRequestCall(call)
  /\ \A start \in p.starts : IsPath(start[2])
  /\ \A e \in p.endpoints : IsEndpoint(e)
  /\ \A how \in p.ways : how[2] \in Reads
  /\ \A reply \in p.replies : reply.error \in {"none", "Transport"}

ASSUME ProgramAssumption == \A p \in Programs : WellTyped(p)

VARIABLES program, phase, client, request, endpoint, state, way,
          wire, next, sent, response, outcome, clientLog, requestLog

calls    == <<client, request, endpoint, state, way, clientLog, requestLog>>
answer   == <<sent, response>>
vars     == <<program, phase, wire, next, outcome, calls, answer, registry>>

Pending == Err("pending")
NoWay   == <<"none", "none">>

Init ==
  /\ RegistryInit
  /\ program \in Programs
  /\ phase = "registry"
  /\ client = NewClient
  /\ request = None /\ endpoint = None /\ state = "Untyped" /\ way = NoWay
  /\ wire = None /\ next = 1
  /\ sent = None /\ response = None
  /\ outcome = Pending
  /\ clientLog = <<>> /\ requestLog = <<>>

Finish(result) == phase' = "done" /\ outcome' = result
Proceed(to)    == phase' = to /\ UNCHANGED outcome
Pass(error, to) == IF error = "none" THEN Proceed(to) ELSE Finish(Err(error))

------------------------------------------------------------------------------
(* The registry is filled before the client shares it.                     *)

Register ==
  /\ phase = "registry"
  /\ Len(entries) < program.maxEntries
  /\ \E entry \in program.entries : PushEntry(entry)
  /\ UNCHANGED <<program, phase, wire, next, outcome, calls, answer>>

MakeStrict ==
  /\ phase = "registry"
  /\ SetStrict(program.strict)
  /\ phase' = "client"
  /\ UNCHANGED <<program, wire, next, outcome, calls, answer>>

------------------------------------------------------------------------------
(* The client and the request are configured.                              *)

Builder(call) ==
  /\ phase = "client"
  /\ Len(clientLog) < Len(program.preset) + program.maxClient
  /\ IF Len(clientLog) < Len(program.preset)
     THEN call = program.preset[Len(clientLog) + 1]
     ELSE call \in program.clientCalls
  /\ client' = ConfigureClient(client, call)
  /\ clientLog' = Append(clientLog, call)
  /\ UNCHANGED <<program, phase, request, endpoint, state, way, requestLog,
                 wire, next, outcome, answer, registry>>

Build ==
  /\ phase = "client"
  /\ Len(clientLog) >= Len(program.preset)
  /\ Pass(IF client.base = None THEN "MissingBaseUrl" ELSE "none", "start")
  /\ UNCHANGED <<program, calls, wire, next, answer, registry>>

Start(method, path) ==
  /\ phase = "start"
  /\ request' = ClientRequest(client, method, path)
  /\ Proceed("request")
  /\ UNCHANGED <<program, client, endpoint, state, way, clientLog, requestLog,
                 wire, next, answer, registry>>

Call(e) ==
  /\ phase = "start"
  /\ Compiles(e)
  /\ request' = ClientRequest(client, e.method, e.path)
  /\ endpoint' = Some(e)
  /\ state' = CallInitial(e)
  /\ Proceed("request")
  /\ UNCHANGED <<program, client, way, clientLog, requestLog, wire, next, answer, registry>>

Configure(call) ==
  /\ phase = "request"
  /\ Len(requestLog) < program.maxRequest
  /\ endpoint # None => Admits(state, endpoint[1], call)
  /\ IF call[1] = "malformed"
     THEN Finish(Err("Argument")) /\ UNCHANGED <<request, state>>
     ELSE /\ request' = ConfigureRequest(request, call)
          /\ state' = IF endpoint = None THEN state ELSE StateAfter(state, endpoint[1])
          /\ Proceed("request")
  /\ requestLog' = Append(requestLog, call)
  /\ UNCHANGED <<program, client, endpoint, way, clientLog, wire, next, answer, registry>>

Send(how) ==
  /\ phase = "request"
  /\ state \in {"Untyped", "Ready"}
  /\ way' = how
  /\ Proceed("prepare")
  /\ UNCHANGED <<program, client, request, endpoint, state, clientLog, requestLog,
                 wire, next, answer, registry>>

------------------------------------------------------------------------------
(* prepare_execution.                                                      *)

Base       == Or(request.base, client.base)[1]
Built      == BuildUrl(Base, request.path, request.params, request.query)
MethodOf(r) == IF HasModifier(r.path) THEN r.path.segs[1].name ELSE r.method

(* What the hooks see of a body; a stream is hidden from them.             *)
BodyForContext(body) == IF body.kind = "Bytes" THEN Some(body.text) ELSE None

UrlError ==
  IF Built.error # "none" THEN Built.error
  ELSE IF client.registry /\ ~EnsureRoute(request.path, MethodOf(request)) THEN "SchemaRoute"
  ELSE "none"

PrepareUrl ==
  /\ phase = "prepare"
  /\ Pass(UrlError, "auth")
  /\ wire' = IF UrlError # "none" THEN wire
             ELSE [url |-> Built.url, method |-> MethodOf(request),
                   headers |-> request.headers, body |-> BodyForContext(request.body)]
  /\ UNCHANGED <<program, next, calls, answer, registry>>

ApplyAuth ==
  LET auth    == Or(request.auth, client.auth)
      applies == auth # None /\ Resolves(auth[1])
  IN  /\ phase = "auth"
      /\ Pass(IF applies /\ Unsendable(auth[1]) THEN "InvalidAuthHeader" ELSE "none", "plugins")
      /\ wire' = IF applies
                 THEN [wire EXCEPT !.headers = Put(@, "authorization", Credential(auth[1]))]
                 ELSE wire
      /\ UNCHANGED <<program, next, calls, answer, registry>>

(* What a plugin or a hook does to the request it is given.                *)
Mutate(ctx, effect) ==
  CASE effect[1] = "none"   -> ctx
    [] effect[1] = "header" -> [ctx EXCEPT !.headers = Put(@, effect[2], effect[3])]
    [] effect[1] \in {"url", "method", "body"} -> [ctx EXCEPT ![effect[1]] = effect[2]]

(* One by one, in order; the first that fails fails the request.           *)
Chain(effects, to) ==
  /\ IF next > Len(effects)
     THEN next' = 1 /\ Proceed(to) /\ UNCHANGED wire
     ELSE IF effects[next][1] = "fail"
     THEN Finish(Err("Hook")) /\ UNCHANGED <<wire, next>>
     ELSE next' = next + 1 /\ wire' = Mutate(wire, effects[next]) /\ UNCHANGED <<phase, outcome>>
  /\ UNCHANGED <<program, calls, answer, registry>>

RunInitAll ==
  /\ phase = "plugins"
  /\ Chain([i \in DOMAIN client.plugins |-> client.plugins[i].init], "hooks")

RunOnRequest ==
  /\ phase = "hooks"
  /\ Chain(MergedHooks(client).on_request, "validate")

NonEmpty(text) == IF text = "" THEN Empty ELSE Bytes(text)

(* A body that hooks set or leave; without one the builder's own is sent.  *)
HttpBodyFromContext(ctx, fallback) ==
  IF ctx.body = None THEN fallback
  ELSE NonEmpty(ctx.body[1])

RequestBody == HttpBodyFromContext(wire, request.body)

Disabled == ValueOf(request.options, "disable_validation") = Some("on")
Checks   == client.registry /\ ~Disabled

ValidationError ==
  IF ~Checks THEN "none"
  ELSE IF ~ValidateRequest(request.path, wire.method, RequestBody) THEN "SchemaValidation request"
  ELSE IF ~ValidateParams(request.path, wire.method, request.params) THEN "SchemaValidation params"
  ELSE IF ~ValidateQuery(request.path, wire.method, request.query) THEN "SchemaValidation query"
  ELSE "none"

Validate ==
  /\ phase = "validate"
  /\ Pass(ValidationError, "call")
  /\ UNCHANGED <<program, wire, next, calls, answer, registry>>

------------------------------------------------------------------------------
(* One attempt, and what becomes of its answer.                            *)

Settings == {"timeout", "retry", "max_response_bytes", "retry_body_peek_bytes", "json_parser"}
Streaming == way[1] = "stream"
Multipart == [kind |-> "Multipart", text |-> ""]

(* The multipart form, when there is one, takes the place of the body.     *)
BuildHttpRequest ==
  [url       |-> wire.url,
   method    |-> wire.method,
   headers   |-> wire.headers,
   body      |-> IF request.multipart THEN Multipart ELSE RequestBody,
   settings  |-> [s \in Settings |-> Effective(client, request, s)],
   transport |-> IF Streaming THEN Transport(client).streaming ELSE Transport(client).buffered]

Exchanged(reply) ==
  /\ phase = "call"
  /\ sent' = Some(BuildHttpRequest)
  /\ Pass(reply.error, "answered")
  /\ response' = [success |-> reply.success, type |-> reply.type, text |-> reply.text,
                  parser |-> Effective(client, request, "json_parser")]
  /\ UNCHANGED <<program, wire, next, calls, registry>>

(* A hook of a buffered response may replace it; a streaming one has the   *)
(* status and the headers.                                                 *)
Answer(effect) ==
  CASE effect[1] = "none"     -> response
    [] effect[1] = "response" -> effect[2]
    [] effect[1] \in {"success", "type"} -> [response EXCEPT ![effect[1]] = effect[2]]

ResponseChain == LET hooks == MergedHooks(client)
                 IN  IF Streaming THEN hooks.on_response_stream ELSE hooks.on_response

RunOnResponse ==
  /\ phase = "answered"
  /\ IF next > Len(ResponseChain)
     THEN next' = 1 /\ Proceed("settle") /\ UNCHANGED response
     ELSE IF ResponseChain[next][1] = "fail"
     THEN Finish(Err("Hook")) /\ UNCHANGED <<response, next>>
     ELSE /\ next' = next + 1
          /\ response' = Answer(ResponseChain[next])
          /\ UNCHANGED <<phase, outcome>>
  /\ UNCHANGED <<program, wire, sent, calls, registry>>

MaybeValidateResponse ==
  Checks => ValidateResponseIfRegistered(request.path, wire.method, response)

(* A stream is collected, which fails for an error status.                 *)
Settle ==
  /\ phase = "settle"
  /\ Pass(IF response.success
          THEN IF MaybeValidateResponse THEN "none" ELSE "SchemaValidation response"
          ELSE IF Streaming \/ ValueOf(request.options, "throw_on_error") = Some("on")
          THEN "Http" ELSE "none", "read")
  /\ UNCHANGED <<program, wire, next, calls, answer, registry>>

SendJsonValidated ==
  IF ValueOf(request.options, "validate_response") = Some("off")
  THEN IntoJson(response) ELSE IntoJsonValidated(response)

ReadAs(how) ==
  CASE how[2] = "text"                -> IntoText(response)
    [] how[2] = "bytes"               -> IntoBytesChecked(response)
    [] how[2] = "json"                -> IntoJson(response)
    [] how[2] = "json_with"           -> IntoJsonWith(response, how[3])
    [] how[2] = "json_unchecked"      -> IntoJsonUnchecked(response)
    [] how[2] = "send_json_validated" -> SendJsonValidated
    [] how[2] = "validated_unchecked" -> IntoJsonValidatedUnchecked(response)
    [] how[2] = "api"                 -> IntoApiResult(response)
    [] how[2] = "content"             -> Ok(BodyByContentType(response))

Read ==
  /\ phase = "read"
  /\ Finish(ReadAs(way))
  /\ UNCHANGED <<program, wire, next, calls, answer, registry>>

------------------------------------------------------------------------------
Next ==
  \/ Register
  \/ MakeStrict
  \/ \E call \in program.clientCalls \cup ToSet(program.preset) : Builder(call)
  \/ Build
  \/ \E start \in program.starts : Start(start[1], start[2])
  \/ \E e \in program.endpoints : Call(e)
  \/ \E call \in program.requestCalls : Configure(call)
  \/ \E how \in program.ways : Send(how)
  \/ PrepareUrl
  \/ ApplyAuth
  \/ RunInitAll
  \/ RunOnRequest
  \/ Validate
  \/ \E reply \in program.replies : Exchanged(reply)
  \/ RunOnResponse
  \/ Settle
  \/ Read

Spec == Init /\ [][Next]_vars

------------------------------------------------------------------------------
(* Properties.                                                             *)

Phases == {"registry", "client", "start", "request", "prepare", "auth", "plugins", "hooks",
           "validate", "call", "answered", "settle", "read", "done"}

(* Type invariant: the control state, and a registry whose index leads     *)
(* every route to an entry of that route.                                  *)
TypeOK ==
  /\ program \in Programs
  /\ phase \in Phases
  /\ next \in Nat \ {0}
  /\ strict \in BOOLEAN
  /\ \A k \in DOMAIN index : index[k] \in DOMAIN entries /\ KeyOf(entries[index[k]]) = k
  /\ phase # "done" => outcome = Pending

(* The calls of some setters, and the last of one setter if there is one.  *)
CallsOf(log, setters) == Selected(log, {i \in DOMAIN log : log[i][1] \in setters})
LastCall(log, setter) ==
  LET made == CallsOf(log, {setter}) IN IF made = <<>> THEN None ELSE Some(Last(made))
Argument(call, i) == IF call = None THEN None ELSE Some(call[1][i])

(* The plugins in the order of their registration; the hooks last set, and *)
(* behind them those of the plugins.                                       *)
PluginsMade == LET made == CallsOf(clientLog, {"plugin"}) IN [i \in DOMAIN made |-> made[i][2]]
ChainMade(chain) ==
  LET own == LastCall(clientLog, "hooks")
  IN  (IF own = None THEN <<>> ELSE own[1][2][chain])
        \o FlattenSeq([i \in DOMAIN PluginsMade |-> PluginsMade[i].hooks[chain]])
EffectsMade == [i \in DOMAIN PluginsMade |-> PluginsMade[i].init] \o ChainMade("on_request")

BaseMade == Or(Argument(LastCall(requestLog, "base_url"), 2),
               Argument(LastCall(clientLog, "base_url"), 2))[1]

(* What the caller said last of a path parameter and of a query key.       *)
ParamCalls(log, name) ==
  Selected(log, {i \in DOMAIN log : log[i][1] = "params" /\ name \in DOMAIN log[i][2]})
ParamMade(name) == Last(ParamCalls(requestLog, name))[2][name]
QueryMade(key) ==
  LET queries  == CallsOf(requestLog, {"queries"})
      all      == FlattenSeq([i \in DOMAIN queries |-> queries[i][2]])
      made     == Selected(all, {i \in DOMAIN all : all[i].key = key})
      embedded == CallsOf(request.path.query, {key})
  IN  IF made # <<>> THEN Last(made).values
      ELSE [i \in DOMAIN embedded |-> embedded[i][2]]

(* Texts that stand for one segment each.                                  *)
NonBlank(texts) == Selected(texts, {i \in DOMAIN texts : texts[i] # ""})
Filled(segs)    == NonBlank([i \in DOMAIN segs |-> segs[i].text])
Template ==
  LET segs == IF HasModifier(request.path) THEN Tail(request.path.segs) ELSE request.path.segs
  IN  NonBlank([i \in DOMAIN segs |-> IF segs[i].kind = "param" THEN ParamMade(segs[i].name)
                                       ELSE segs[i].name])
Dotless == \A i \in DOMAIN Template : Template[i] \notin {".", ".."}

(* A request whose URL no plugin and no hook rewrites goes to the host and *)
(* the path of the base that was set last, followed by the template with   *)
(* every placeholder replaced, as one segment, by the value given last;    *)
(* each query key has the values the caller gave it last, or else those of *)
(* the path's own query (build_url, url_build.rs).  A base with a query    *)
(* and values that are dots are outside of it.                             *)
UrlFaithful ==
  sent # None /\ CallsOf(EffectsMade, {"url"}) = <<>> /\ BaseMade.query = <<>> /\ Dotless =>
    LET url == sent[1].url
    IN  /\ url.host = IF request.path.absolute THEN request.path.host ELSE BaseMade.host
        /\ Filled(url.path) =
             (IF request.path.absolute THEN <<>> ELSE Filled(BaseMade.path)) \o Template
        /\ \A key \in {url.query[i][1] : i \in DOMAIN url.query}
                        \cup {request.path.query[i][1] : i \in DOMAIN request.path.query} :
             LET pairs == CallsOf(url.query, {key})
             IN  [i \in DOMAIN pairs |-> pairs[i][2]] = QueryMade(key)

(* The writes of a header: by the client's defaults, the request's setters *)
(* and, once sent, the credentials, the plugins and the hooks.             *)
WritesHeader(call, h) ==
  \/ call[1] \in {"default_header", "header"} /\ call[2] = h
  \/ call[1] = "content_type" /\ h = "content-type"
HeaderValue(call) == IF call[1] = "content_type" THEN call[2] ELSE call[3]
Written(log, h) ==
  LET made == Selected(log, {i \in DOMAIN log : WritesHeader(log[i], h)})
  IN  [i \in DOMAIN made |-> HeaderValue(made[i])]
AuthMade == Or(Argument(LastCall(requestLog, "auth"), 2), Argument(LastCall(clientLog, "auth"), 2))
Authorized(h) ==
  IF h = "authorization" /\ AuthMade # None /\ Resolves(AuthMade[1])
  THEN <<Credential(AuthMade[1])>> ELSE <<>>
HeaderWrites(h) ==
  Written(clientLog, h) \o Written(requestLog, h) \o Authorized(h) \o Written(EffectsMade, h)

(* A body brings a media type that counts while no other was written.      *)
Implied == [json |-> "application/json", form |-> "application/x-www-form-urlencoded",
            body_stream |-> "application/octet-stream"]
BodyTypes == CallsOf(requestLog, DOMAIN Implied)
HeaderMade(h) ==
  IF HeaderWrites(h) # <<>> THEN Some(Last(HeaderWrites(h)))
  ELSE IF h = "content-type" /\ BodyTypes # <<>> THEN Some(Implied[BodyTypes[1][1]])
  ELSE None

BodyEffects == CallsOf(EffectsMade, {"body"})
BodyMade ==
  LET built == CallsOf(requestLog, DOMAIN Implied \cup {"body"})
  IN  IF CallsOf(requestLog, {"multipart"}) # <<>> THEN Multipart
      ELSE IF BodyEffects # <<>> THEN NonEmpty(Last(BodyEffects)[2][1])
      ELSE IF built = <<>> THEN Empty
      ELSE IF Last(built)[1] = "body_stream" THEN Stream ELSE NonEmpty(Last(built)[2])

(* Where the documentation says other than the code: content_type called   *)
(* when there is a Content-Type, by a default or by an earlier call (it    *)
(* "sets Content-Type when not already present", request.rs:183, and       *)
(* replaces it), and a hook that takes the body away or sets that of a     *)
(* multipart request (its "mutations are applied to the outgoing HTTP      *)
(* request", hooks.rs:35, and it is ignored).                              *)
TypedBefore(i) ==
  \/ Written(clientLog, "content-type") # <<>>
  \/ \E j \in 1..(i - 1) : WritesHeader(requestLog[j], "content-type")
                            \/ requestLog[j][1] \in DOMAIN Implied
Retyped ==
  \E i \in DOMAIN requestLog : requestLog[i][1] = "content_type" /\ TypedBefore(i)
HookIgnored ==
  /\ BodyEffects # <<>>
  /\ Last(BodyEffects)[2] = None \/ CallsOf(requestLog, {"multipart"}) # <<>>

OptionCalls(log, s) ==
  Selected(log, {i \in DOMAIN log : log[i][1] = "option" /\ log[i][2] = s})
SettingMade(s) ==
  LET made == OptionCalls(clientLog, s) \o OptionCalls(requestLog, s)
  IN  IF made = <<>> THEN None ELSE Some(Last(made)[3])

(* The stack configured last, over the reqwest client set before it.       *)
StackCalls(log) ==
  {i \in DOMAIN log : log[i][1] \in {"backend", "http_service", "transport_stack"}}
ReqwestUnder(log) ==
  LET made == LastCall(log, "reqwest_client") IN IF made = None THEN "default" ELSE made[1][2]
TransportAt(at) ==
  LET call  == clientLog[at]
      under == ReqwestUnder(SubSeq(clientLog, 1, at))
  IN  IF call[1] = "transport_stack" THEN <<call[2], under>>
      ELSE IF call[1] = "http_service" /\ Streaming THEN <<"plain", under>>
      ELSE <<call[2], "its own">>
TransportMade ==
  IF StackCalls(clientLog) = {} THEN <<"plain", ReqwestUnder(clientLog)>>
  ELSE TransportAt(CHOOSE i \in StackCalls(clientLog) : \A j \in StackCalls(clientLog) : j <= i)

(* What goes over the wire is what was written last, in this order: the    *)
(* client's defaults, the request's setters, the credentials, the plugins, *)
(* the client's hooks, the plugins' hooks.  That holds of the method, the  *)
(* headers, the body and the settings; the transport is the one configured *)
(* last (ClientBuilder, RequestBuilder, prepare_execution).  Nothing is    *)
(* claimed of the media type of a request that was Retyped and of a body   *)
(* whose hook was ignored, where the documentation promises otherwise:     *)
(* those are SentAsDocumented's.                                           *)
LastWriteSent ==
  sent # None =>
    LET made    == sent[1]
        methods == CallsOf(EffectsMade, {"method"})
    IN  /\ made.method = IF methods = <<>> THEN MethodOf(request) ELSE Last(methods)[2]
        /\ \A h \in DOMAIN made.headers :
             ~(h = "content-type" /\ Retyped) => HeaderMade(h) = Some(made.headers[h])
        /\ \A h \in {"content-type", "authorization", "x"} \ DOMAIN made.headers :
             HeaderMade(h) = None
        /\ ~HookIgnored => (IF made.body = Bytes("") THEN Empty ELSE made.body) = BodyMade
        /\ \A s \in Settings : made.settings[s] = SettingMade(s)
        /\ made.transport = TransportMade

IsFirst(i, k) == KeyOf(entries[i]) = k /\ \A j \in 1..(i - 1) : KeyOf(entries[j]) # k

RouteRegistered(method) ==
  \E i \in DOMAIN entries : KeyOf(entries[i]) = RouteKey(request.path, method)

(* Under a strict registry, the route that the caller asks for is          *)
(* registered, and so is the route that is sent unless a plugin or a hook  *)
(* changes the method: the registry is asked before they run.  Where the   *)
(* route that is sent has an entry and the request did not disable         *)
(* validation, body, parameters and query satisfy the one registered first *)
(* for it, also when plugins or hooks changed method and body, and a       *)
(* response that is about to be read satisfies it too.  A route that       *)
(* plugins or hooks change to one without an entry is sent unchecked, see  *)
(* SentAsDocumented (prepare_execution, schema.rs).                        *)
RegisteredValidated ==
  sent # None /\ client.registry /\ strict =>
    /\ RouteRegistered(MethodOf(request))
    /\ CallsOf(EffectsMade, {"method"}) = <<>> => RouteRegistered(sent[1].method)
    /\ ~Disabled =>
         \A i \in DOMAIN entries : IsFirst(i, RouteKey(request.path, sent[1].method)) =>
           /\ sent[1].body # Multipart => AcceptsRequest(entries[i], sent[1].body)
           /\ AcceptsParams(entries[i], request.params)
           /\ AcceptsQuery(entries[i], request.query)
           /\ phase = "read" => AcceptsResponse(entries[i], response)

(* A typed request is complete: with parameters derived against its own    *)
(* path it never fails for a missing one, and a POST with a typed body is  *)
(* sent with a body the caller gave (endpoint.rs, the derive macros).      *)
EndpointComplete ==
  endpoint # None =>
    LET e == endpoint[1]
    IN  /\ e.typed = "derived" /\ e.checked = e.path => outcome # Err(MissingPathParam)
        /\ sent # None /\ e.method = "POST" /\ "body" \notin e.units =>
             CallsOf(requestLog, BodyCalls) # <<>>

Checked2xx == {"text", "bytes", "json", "json_with", "send_json_validated"}
Replaced   == CallsOf(ChainMade("on_response"), {"response"}) # <<>>

(* A checked read yields a value only from a 2xx answer: JSON that the     *)
(* parser set last made of it, on the request or else on the client, and   *)
(* that garde accepts where the request asks for validation.  The API's    *)
(* error type is read from other answers only (response.rs).               *)
ReadsChecked ==
  /\ phase = "done" /\ outcome.error = "api" => ~response.success
  /\ phase = "done" /\ outcome.error = "none" /\ way[2] \in Checked2xx =>
       /\ response.success
       /\ way[2] \in {"json", "json_with", "send_json_validated"} => outcome.value \in Shaped
       /\ way[2] = "send_json_validated" /\ SettingMade("validate_response") # Some("off")
            => outcome.value \in Valid
       /\ way[2] \in {"json", "send_json_validated"} /\ (Streaming \/ ~Replaced)
            => outcome.value = ParsedBy(SettingMade("json_parser"), response.text)

(* Three things the documentation says of what is sent.  request.rs:183 of *)
(* content_type: "Sets `Content-Type` when not already present."  So when  *)
(* nothing else writes one behind it, a default is still what is sent.     *)
ContentTypeKept ==
  LET written == HeaderWrites("content-type")
      default == Written(clientLog, "content-type")
      own     == Written(requestLog, "content-type")
      set     == CallsOf(requestLog, {"content_type"})
  IN  default # <<>> /\ Len(set) = Len(own) /\ Len(written) = Len(default) + Len(own)
        => sent[1].headers["content-type"] = Last(default)

(* hooks.rs:35 of the body that hooks are given: "Mutations are applied to *)
(* the outgoing HTTP request after all `on_request` hooks run."            *)
HookBodyApplied ==
  BodyEffects # <<>> =>
    sent[1].body = (IF Last(BodyEffects)[2] = None THEN Empty ELSE NonEmpty(Last(BodyEffects)[2][1]))

(* schema.rs:53 of a strict registry: "rejects unregistered paths at       *)
(* request time", where a path is registered for a method.                 *)
RouteKnown == client.registry /\ strict => RouteRegistered(sent[1].method)

(* At least one of the three holds of every request that is sent.  None    *)
(* does: one request contradicts them all.                                 *)
SentAsDocumented == sent # None => ContentTypeKept \/ HookBodyApplied \/ RouteKnown

=============================================================================
