------------------------------ MODULE Builders ------------------------------
(***************************************************************************)
(* What a caller sets before anything is sent: the client builder          *)
(* (client_builder.rs), the request builder (client.rs, request.rs), the   *)
(* typed endpoint builder with its macros (endpoint.rs and the derive      *)
(* macros), hooks and plugins (hooks.rs, plugin.rs), credentials (auth.rs).*)
(*                                                                         *)
(* A call of a setter is a tuple: the setter's name and its arguments.     *)
(* "malformed" is a call of any setter that can fail, with an argument it  *)
(* refuses.  Header names and values, parameters and options are tokens;   *)
(* an Option is an empty sequence or a sequence of one.                    *)
(***************************************************************************)
EXTENDS UrlBuild

CONSTANT Malformed   \* credentials a header cannot hold

None      == <<>>
Some(v)   == <<v>>
Or(a, b)  == IF a # None THEN a ELSE b

(* A map is a function.  The entries of a second one take the place of     *)
(* those with the same key (HashMap::extend, insert); or_insert leaves an  *)
(* entry that is there.                                                    *)
ValueOf(f, name) == IF name \in DOMAIN f THEN Some(f[name]) ELSE None
Extend(f, other) ==
  [k \in DOMAIN f \cup DOMAIN other |-> IF k \in DOMAIN other THEN other[k] ELSE f[k]]
Put(f, key, value)      == Extend(f, [k \in {key} |-> value])
OrInsert(f, key, value) == Extend([k \in {key} |-> value], f)

Empty       == [kind |-> "Empty", text |-> ""]
Bytes(text) == [kind |-> "Bytes", text |-> text]
Stream      == [kind |-> "Stream", text |-> ""]

------------------------------------------------------------------------------
(* Hooks and plugins.  A hook is what it does to the context it is given:  *)
(* a tuple, <<"none">> or <<"fail">> or the field and its new value.       *)

Hooks(onRequest, onResponse, onResponseStream) ==
  [on_request |-> onRequest, on_response |-> onResponse,
   on_response_stream |-> onResponseStream]
NoHooks == Hooks(<<>>, <<>>, <<>>)

Merge(hooks, other) == [chain \in DOMAIN hooks |-> hooks[chain] \o other[chain]]

PluginHooks(plugins) == FoldLeft(LAMBDA h, p : Merge(h, p.hooks), NoHooks, plugins)

------------------------------------------------------------------------------
(* Credentials: a scheme and the tokens its sources return, if any.        *)

Auth(scheme, tokens) == [scheme |-> scheme, tokens |-> tokens]

Resolves(auth)   == \A i \in DOMAIN auth.tokens : auth.tokens[i] # None
Credential(auth) == FoldLeft(LAMBDA text, t : text \o " " \o t[1], auth.scheme, auth.tokens)
(* Basic credentials are encoded, so that every text can be sent.          *)
Unsendable(auth) ==
  auth.scheme # "Basic" /\ \E i \in DOMAIN auth.tokens : auth.tokens[i][1] \in Malformed

------------------------------------------------------------------------------
(* The client.                                                             *)

NewClient ==
  [base |-> None, auth |-> None, headers |-> <<>>, hooks |-> NoHooks, plugins |-> <<>>,
   options |-> <<>>, reqwest |-> None, custom |-> None, registry |-> FALSE]

(* A transport is a stack and the reqwest client under it.                 *)
OwnReqwest(c) == IF c.reqwest = None THEN "default" ELSE c.reqwest[1]
Both(t)       == [buffered |-> t, streaming |-> t]
Plain(c)      == <<"plain", OwnReqwest(c)>>

(* The stacks take the reqwest client that is set when they are configured.*)
HttpService(c, s)    == [buffered |-> <<s, "its own">>, streaming |-> Plain(c)]
TransportStack(c, s) == Both(<<s, OwnReqwest(c)>>)

ConfigureClient(c, call) ==
  CASE call[1] = "base_url"        -> [c EXCEPT !.base = Some(call[2])]
    [] call[1] = "option"          -> [c EXCEPT !.options = Put(@, call[2], call[3])]
    [] call[1] = "auth"            -> [c EXCEPT !.auth = Some(call[2])]
    [] call[1] = "default_header"  -> [c EXCEPT !.headers = Put(@, call[2], call[3])]
    [] call[1] = "hooks"           -> [c EXCEPT !.hooks = call[2]]
    [] call[1] = "plugin"          -> [c EXCEPT !.plugins = Append(@, call[2])]
    [] call[1] = "reqwest_client"  -> [c EXCEPT !.reqwest = Some(call[2])]
    [] call[1] = "backend"         -> [c EXCEPT !.custom = Some(Both(<<call[2], "its own">>))]
    [] call[1] = "http_service"    -> [c EXCEPT !.custom = Some(HttpService(c, call[2]))]
    [] call[1] = "transport_stack" -> [c EXCEPT !.custom = Some(TransportStack(c, call[2]))]
    [] call[1] = "schema_registry" -> [c EXCEPT !.registry = TRUE]

MergedHooksPluginsFirst(c) == Merge(PluginHooks(c.plugins), c.hooks)

MergedHooks(c) == Merge(c.hooks, PluginHooks(c.plugins))
Transport(c)   == IF c.custom = None THEN Both(Plain(c)) ELSE c.custom[1]

------------------------------------------------------------------------------
(* The request.                                                            *)

Copied == {"timeout", "retry"}

ClientRequest(c, method, path) ==
  [method |-> method, path |-> path, base |-> None, params |-> <<>>, query |-> <<>>,
   headers |-> c.headers, body |-> Empty, multipart |-> FALSE, auth |-> c.auth,
   options |-> [o \in Copied \cap DOMAIN c.options |-> c.options[o]]]

SetParams(r, params) == [r EXCEPT !.params = Extend(@, params)]
SetQueries(r, query) == [r EXCEPT !.query = MergeQueries(@, query)]
SetHeader(r, h, v)   == [r EXCEPT !.headers = Put(@, h, v)]
SetOption(r, o, v)   == [r EXCEPT !.options = Put(@, o, v)]
SetBody(r, body)     == [r EXCEPT !.body = body]

(* json, form and body_stream: a Content-Type that is set already stays.   *)
SetBodyAs(r, body, type) ==
  [r EXCEPT !.body = body, !.headers = OrInsert(@, "content-type", type)]

SetMultipart(r) == [r EXCEPT !.multipart = TRUE, !.body = Empty]

ConfigureRequest(r, call) ==
  CASE call[1] = "params"       -> SetParams(r, call[2])
    [] call[1] = "base_url"     -> [r EXCEPT !.base = Some(call[2])]
    [] call[1] = "queries"      -> SetQueries(r, call[2])
    [] call[1] = "header"       -> SetHeader(r, call[2], call[3])
    [] call[1] = "content_type" -> SetHeader(r, "content-type", call[2])
    [] call[1] = "json"         -> SetBodyAs(r, Bytes(call[2]), "application/json")
    [] call[1] = "form"         -> SetBodyAs(r, Bytes(call[2]), "application/x-www-form-urlencoded")
    [] call[1] = "body_stream"  -> SetBodyAs(r, Stream, "application/octet-stream")
    [] call[1] = "body"         -> SetBody(r, Bytes(call[2]))
    [] call[1] = "multipart"    -> SetMultipart(r)
    [] call[1] = "auth"         -> [r EXCEPT !.auth = Some(call[2])]
    [] call[1] = "option"       -> SetOption(r, call[2], call[3])

(* What a request runs with: its own setting, else the client's.           *)
Effective(c, r, option) == Or(ValueOf(r.options, option), ValueOf(c.options, option))

------------------------------------------------------------------------------
(* Typed endpoints.  `params` says how the path parameters are typed: the  *)
(* unit type, fields checked by a derive macro against the path `checked`, *)
(* fields of define_params!, or a map; `keys` are the fields.  Derived     *)
(* fields are those of a struct of their own or, if `inline`, of the       *)
(* endpoint.  `units` are the positions at which the unit type stands.     *)

IsUnit(e, position) == position \in e.units

(* The macros see an embedded query as a part of the last segment.         *)
MacroNamesOf(path) ==
  LET names == PathParamNames(path)
  IN  IF path.query # <<>> /\ Last(path.segs).kind = "param"
      THEN Front(names) \o <<Last(names) \o "?">> ELSE names

DerivesAnyway(path, keys) == IsInjective(keys)

Derives(path, keys) ==
  /\ IsInjective(keys)
  /\ Len(MacroNamesOf(path)) = Len(keys)
  /\ ToSet(MacroNamesOf(path)) \subseteq ToSet(keys)

(* Fields of an endpoint are checked like those of derive(EndpointParams),  *)
(* which alone refuses a name that stands twice in a path.                 *)
Compiles(e) ==
  e.typed = "derived" =>
    /\ Derives(e.checked, e.keys)
    /\ ~e.inline => IsInjective(MacroNamesOf(e.checked))

BodyRequired(e) == e.method = "POST" /\ ~IsUnit(e, "body")

ParamsNext(e)  == IF BodyRequired(e) THEN "NeedsBody" ELSE "Ready"
CallInitial(e) == IF IsUnit(e, "params") THEN ParamsNext(e) ELSE "NeedsParams"

BodyCalls == {"json", "body"}
ReadyCalls ==
  {"queries", "header", "option", "auth", "base_url", "malformed"} \cup BodyCalls

(* The calls a typed builder has in a state; a map may hold any keys.      *)
Admits(state, e, call) ==
  CASE state = "NeedsParams" ->
         call[1] = "params" /\ (e.typed # "map" => DOMAIN call[2] = ToSet(e.keys))
    [] state = "NeedsBody" -> call[1] \in BodyCalls \cup {"malformed"}
    [] state = "Ready" -> call[1] \in ReadyCalls

StateAfter(state, e) == IF state = "NeedsParams" THEN ParamsNext(e) ELSE "Ready"

=============================================================================
