----------------------------- MODULE MCExchange -----------------------------
(* Programs for Exchange: each is about one part of the library.           *)
EXTENDS Exchange

MCReserved    == {"a/b"}
MCHostless    == {"[far"}
MCMalformed   == {"line\n"}
MCNumerals    == {"7"}
MCNotJson     == {"", "oops", "bom{}", "bin"}
MCShaped      == {"{}", "{0}"}
MCValid       == {"{}"}
MCErrorShaped == {"{e}"}
MCUnprintable == {"bin"}
Texts         == MCNotJson \cup MCShaped \cup MCErrorShaped \cup {"null"}
MCParsers     == [bom |-> [t \in Texts |-> IF t = "bom{}" THEN "{}" ELSE "oops"],
                  lax |-> [t \in Texts |-> "{0}"]]

Path(segs)    == [absolute |-> FALSE, host |-> "", segs |-> segs, query |-> <<>>]
Query(pairs)  == [i \in DOMAIN pairs |-> Scalar(pairs[i][1], pairs[i][2])]
Url(host, path, query) ==
  [host |-> host, path |-> [i \in DOMAIN path |-> [text |-> path[i], encoded |-> FALSE]],
   query |-> query, tail |-> <<>>]

Home   == Url("home", <<"v1", "">>, <<>>)
Other  == Url("other", <<"">>, <<>>)
Asking == Url("home", <<"v1">>, <<<<"k", "base">>>>)

Items    == Path(<<Text("items")>>)
Item     == Path(<<Blank, Text("items"), Param("id")>>)
Twice    == Path(<<Modifier("PUT"), Blank, Param("id"), Param("to")>>)
Again    == Path(<<Param("id"), Param("id")>>)
Odd      == Path(<<Modifier("FETCH"), Param("id"), Blank>>)
Full     == [Item EXCEPT !.absolute = TRUE, !.host = "far"]
Broken   == [Full EXCEPT !.host = "[far"]
Embedded == [Item EXCEPT !.query = <<<<"k", "1">>, <<"n", "1">>, <<"k", "2">>>>]

Reply(success, type, text) == [error |-> "none", success |-> success, type |-> type, text |-> text]
Fine   == Reply(TRUE, "application/json", "{}")
Failed == [Fine EXCEPT !.error = "Transport"]

Idle ==
  [entries |-> {}, maxEntries |-> 0, strict |-> FALSE,
   preset |-> <<<<"base_url", Home>>>>, clientCalls |-> {}, maxClient |-> 0,
   starts |-> {<<"GET", Items>>}, endpoints |-> {}, requestCalls |-> {}, maxRequest |-> 0,
   ways |-> {<<"send", "text">>}, replies |-> {Fine}]

(* URLs: every kind of template, base and value.                           *)
Urls ==
  [Idle EXCEPT
    !.preset = <<>>, !.clientCalls = {<<"base_url", Home>>, <<"base_url", Asking>>}, !.maxClient = 1,
    !.starts = {<<"GET", p>> : p \in {Items, Item, Twice, Odd, Full, Broken, Embedded}},
    !.requestCalls = {<<"params", p>> : p \in {[id |-> "7"], [id |-> "a/b", to |-> ".."], [to |-> ""]}}
       \cup {<<"queries", q>> : q \in {Query(<<<<"k", "3">>>>), Query(<<<<"q", "4">>, <<"k", "4">>>>),
                                       <<Array("k", <<"5", "a/b">>)>>}}
       \cup {<<"base_url", Other>>, <<"malformed">>},
    !.maxRequest = 3]

(* Headers, bodies and settings: who writes last.                          *)
Bearer(token) == Auth("Bearer", <<token>>)
Plug(init, hooks) == [init |-> init, hooks |-> hooks]
OnRequest(effects) == Hooks(effects, <<>>, <<>>)

Writers ==
  [Idle EXCEPT
    !.clientCalls = {<<"default_header", "content-type", "default">>, <<"option", "timeout", 1>>,
       <<"auth", Bearer(Some("t"))>>,
       <<"hooks", OnRequest(<<<<"header", "x", "hook">>, <<"body", Some("hooked")>>>>)>>,
       <<"plugin", Plug(<<"header", "authorization", "plugin">>,
                        OnRequest(<<<<"header", "x", "plugin">>, <<"body", None>>>>))>>},
    !.maxClient = 2,
    !.requestCalls = {<<"header", "x", "own">>, <<"content_type", "own">>, <<"json", "{}">>,
       <<"form", "f">>, <<"body", "">>, <<"body_stream">>, <<"multipart">>,
       <<"option", "timeout", 2>>, <<"auth", Bearer(None)>>, <<"auth", Bearer(Some("line\n"))>>,
       <<"auth", Auth("Basic", <<Some("u"), Some("line\n")>>)>>},
    !.maxRequest = 2]

(* Hooks and plugins that rewrite or fail, and what hooks do to answers.   *)
Rewriters ==
  [Idle EXCEPT
    !.clientCalls = {
       <<"hooks", Hooks(<<<<"method", "PUT">>, <<"body", Some("")>>>>, <<<<"none">>, <<"fail">>>>,
                        <<<<"success", FALSE>>>>)>>,
       <<"hooks", Hooks(<<<<"fail">>>>, <<>>, <<>>)>>,
       <<"plugin", Plug(<<"url", Other>>, Hooks(<<<<"method", "DELETE">>>>, <<>>, <<<<"type", "">>>>))>>,
       <<"plugin", Plug(<<"fail">>, NoHooks)>>,
       <<"plugin", Plug(<<"none">>, Hooks(<<<<"none">>>>,
           <<<<"response", [success |-> TRUE, type |-> "", text |-> "{0}", parser |-> None]>>>>,
           <<<<"none">>>>))>>},
    !.maxClient = 2,
    !.requestCalls = {<<"body", "b">>}, !.maxRequest = 1,
    !.ways = {<<"send", "json">>, <<"stream", "content">>}]

(* Which transport: every order of three calls.                            *)
Transports ==
  [Idle EXCEPT
    !.clientCalls = {<<"reqwest_client", "mine">>, <<"reqwest_client", "new">>, <<"backend", "mock">>,
                     <<"http_service", "service">>, <<"transport_stack", "stack">>},
    !.maxClient = 3,
    !.ways = {<<"send", "text">>, <<"stream", "text">>}]

(* Reading: answers, parsers, ways.                                        *)
Readings ==
  [Idle EXCEPT
    !.clientCalls = {<<"option", "json_parser", "bom">>}, !.maxClient = 1,
    !.requestCalls = {<<"option", "json_parser", "lax">>, <<"option", "throw_on_error", "on">>,
                      <<"option", "validate_response", "off">>},
    !.maxRequest = 2,
    !.ways = {<<"send", r>> : r \in {"text", "bytes", "json", "json_unchecked", "send_json_validated",
                                     "validated_unchecked", "api", "content"}}
             \cup {<<"send", "json_with", "bom">>, <<"stream", "json">>},
    !.replies = {Failed, Reply(TRUE, "text/json", "oops"), Reply(FALSE, "", "{e}")}
                \cup {Reply(s, "application/json", "{0}") : s \in BOOLEAN}
                \cup {Reply(TRUE, t, "bom{}") : t \in {"", "text/plain", "image/png"}}
                \cup {Fine, Reply(TRUE, "", ""), Reply(FALSE, "", "bin")}]

(* The registry: duplicates, other methods, every schema.                  *)
Loose  == Object({}, [id |-> {"string", "number"}])
Number == Object({"id"}, [id |-> {"number"}])
Paged  == Object({"k"}, [k |-> {"array"}])
Registries ==
  {[Idle EXCEPT
     !.entries = {EndpointEntry(Item, "GET", None, Some({"{}"})),
                  Entry(Item, "GET", None, None, Some(Paged), Some(Loose)),
                  Entry(Item, "PUT", Some({"{0}", "null"}), Some({"null"}), None, Some(Number))},
     !.maxEntries = 2, !.strict = on,
     !.preset = <<<<"base_url", Home>>, <<"schema_registry">>>>,
     !.clientCalls = {<<"plugin", Plug(<<"method", "PUT">>, NoHooks)>>}, !.maxClient = 1,
     !.starts = {<<"GET", Item>>},
     !.requestCalls = {<<"params", [id |-> "7"]>>, <<"params", [id |-> "x"]>>, <<"json", "{0}">>,
        <<"queries", <<Array("k", <<"1">>)>>>>, <<"body_stream">>,
        <<"option", "disable_validation", "on">>},
     !.maxRequest = 3,
     !.ways = {<<"send", "text">>, <<"stream", "text">>},
     !.replies = {Fine, Reply(TRUE, "", ""), Reply(FALSE, "", "oops")}] : on \in BOOLEAN}

(* Typed endpoints.                                                        *)
Endpoint(method, path, typed, checked, keys, units) ==
  [method |-> method, path |-> path, typed |-> typed, checked |-> checked, keys |-> keys,
   inline |-> FALSE, units |-> units, body |-> IF "body" \in units THEN UnitBody ELSE {"{}"}, response |-> {"{}"},
   query |-> UnitObject, params |-> IF "params" \in units THEN UnitObject ELSE Number]

Get      == Endpoint("GET", Item, "derived", Item, <<"id">>, {"query", "body"})
Post     == Endpoint("POST", Item, "derived", Item, <<"id">>, {"query"})
PostUnit == Endpoint("POST", Items, "unit", Items, <<>>, {"params", "query"})
Mistyped == Endpoint("GET", Item, "derived", Items, <<>>, {"query", "body"})
Partial  == Endpoint("GET", Twice, "derived", Twice, <<"id">>, {"query", "body"})
Repeated == [Endpoint("GET", Again, "derived", Again, <<"id", "to">>, {"query", "body"})
               EXCEPT !.inline = TRUE]
Asked    == Endpoint("GET", Embedded, "derived", Embedded, <<"id">>, {"query", "body"})
Mapped   == Endpoint("GET", Item, "map", Item, <<>>, {"query", "body"})
Health   == Endpoint("GET", Items, "unit", Items, <<>>, {"params", "query", "body"})

Endpoints ==
  [Idle EXCEPT
    !.starts = {}, !.endpoints = {Get, Post, PostUnit, Mistyped, Partial, Repeated, Asked, Mapped, Health},
    !.requestCalls = {<<"params", [id |-> "7"]>>, <<"params", [id |-> "7", to |-> "8"]>>, <<"params", <<>>>>,
                      <<"json", "{}">>, <<"body", "">>,
                      <<"queries", Query(<<<<"k", "3">>>>)>>, <<"malformed">>,
                      <<"header", "x", "own">>},
    !.maxRequest = 3]

(* Typed endpoints that are registered as their macro does.                *)
TypedRoutes ==
  [Idle EXCEPT
    !.entries = {TypedEntry(Get), TypedEntry(Health)}, !.maxEntries = 2, !.strict = TRUE,
    !.preset = <<<<"base_url", Home>>, <<"schema_registry">>>>,
    !.starts = {}, !.endpoints = {Get, Health},
    !.requestCalls = {<<"params", [id |-> "7"]>>, <<"params", [id |-> "x"]>>,
                      <<"header", "x", "own">>},
    !.maxRequest = 2]

MCPrograms ==
  {Urls, Writers, Rewriters, Transports, Readings, Endpoints, TypedRoutes} \cup Registries

(* A default Content-Type, a hook that takes the body away and sends with  *)
(* a method that is not registered, and a caller who types the body.       *)
DocumentedPrograms ==
  {[Idle EXCEPT
     !.entries = {EndpointEntry(Items, "POST", None, None)}, !.maxEntries = 1, !.strict = TRUE,
     !.preset = <<<<"base_url", Home>>, <<"schema_registry">>>>,
     !.clientCalls = {<<"default_header", "content-type", "default">>,
                      <<"hooks", OnRequest(<<<<"body", None>>, <<"method", "PUT">>>>)>>},
     !.maxClient = 2,
     !.starts = {<<"POST", Items>>},
     !.requestCalls = {<<"content_type", "own">>, <<"body", "b">>}, !.maxRequest = 2]}

=============================================================================
