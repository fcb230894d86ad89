--------------------------- MODULE SchemaRegistry ---------------------------
(***************************************************************************)
(* The registry of endpoint schemas (schema.rs) and what it says of a      *)
(* request and of its response (schema_validate.rs).                       *)
(*                                                                         *)
(* A JSON text stands for its value; the schema of a body is the set of    *)
(* values it accepts.  The schema of parameters or of a query says which   *)
(* keys an object must have and of which JSON types their values may be;   *)
(* the schema of Rust's unit accepts nothing but null.                     *)
(***************************************************************************)
EXTENDS Builders, Responses

CONSTANT Numerals   \* the texts that read as numbers
ASSUME TextsDisjoint == NotJson \cap Numerals = {}

VARIABLES entries, index, strict
registry == <<entries, index, strict>>

UnitBody    == {"null"}
UnitObject  == [object |-> FALSE, required |-> {}, types |-> <<>>]
Object(required, types) == [object |-> TRUE, required |-> required, types |-> types]

Entry(path, method, request, response, query, params) ==
  [path |-> path, method |-> method, request |-> request, response |-> response,
   query |-> query, params |-> params]

EndpointEntry(path, method, request, response) ==
  Entry(path, method, request, response, None, None)

(* Every type has a schema, the unit type too.                             *)
TypedEntry(e) ==
  Entry(e.path, e.method, Some(e.body), Some(e.response), Some(e.query), Some(e.params))

RouteKey(path, method) == <<method, path>>
KeyOf(entry) == RouteKey(entry.path, entry.method)

RegistryInit == entries = <<>> /\ index = <<>> /\ strict = FALSE

SetStrict(value) == strict' = value /\ UNCHANGED <<entries, index>>

PushEntryLast(entry) ==
  /\ index' = [k \in DOMAIN index \cup {KeyOf(entry)} |->
                 IF k = KeyOf(entry) THEN Len(entries) + 1 ELSE index[k]]
  /\ entries' = Append(entries, entry)
  /\ UNCHANGED strict

PushEntryFromZero(entry) ==
  /\ index' = [k \in DOMAIN index \cup {KeyOf(entry)} |->
                 IF k \in DOMAIN index THEN index[k] ELSE Len(entries)]
  /\ entries' = Append(entries, entry)
  /\ UNCHANGED strict

(* The index keeps the first entry of a route.                             *)
PushEntry(entry) ==
  /\ index' = [k \in DOMAIN index \cup {KeyOf(entry)} |->
                 IF k \in DOMAIN index THEN index[k] ELSE Len(entries) + 1]
  /\ entries' = Append(entries, entry)
  /\ UNCHANGED strict

Registered(path, method)  == RouteKey(path, method) \in DOMAIN index
EnsureRoute(path, method) == strict => Registered(path, method)
Find(path, method)        == entries[index[RouteKey(path, method)]]

(* What counts of an entry: no schema, no check.                           *)
Applies(schema)  == schema # None
Checked(path, method) == strict /\ Registered(path, method)

------------------------------------------------------------------------------
(* JSON values of what goes over the wire.                                 *)

WireType(text) ==
  IF text \in {"true", "false"} THEN "boolean"
  ELSE IF text \in Numerals THEN "number" ELSE "string"

ParamsToJson(params) == [k \in DOMAIN params |-> WireType(params[k])]

QueryToJson(query) ==
  [k \in KeysOf(query) |->
     LET e == CHOOSE x \in ToSet(query) : x.key = k
     IN  IF e.array THEN "array" ELSE WireType(e.values[1])]

AcceptsObject(schema, types) ==
  /\ schema.object
  /\ schema.required \subseteq DOMAIN types
  /\ \A k \in DOMAIN types \cap DOMAIN schema.types : types[k] \in schema.types[k]

(* No body is null, and a stream satisfies no schema.                      *)
AcceptsBody(schema, body) ==
  LET value == IF body.text = "" THEN "null" ELSE body.text
  IN  body.kind # "Stream" /\ value \notin NotJson /\ value \in schema

AcceptsRequest(entry, body)  == Applies(entry.request) => AcceptsBody(entry.request[1], body)
AcceptsParams(entry, params) ==
  Applies(entry.params) => AcceptsObject(entry.params[1], ParamsToJson(params))
AcceptsQuery(entry, query)   ==
  Applies(entry.query) => AcceptsObject(entry.query[1], QueryToJson(query))

(* A response without a body is accepted whatever its schema says.         *)
AcceptsResponse(entry, response) ==
  Applies(entry.response) /\ response.success /\ response.text # ""
    => response.text \notin NotJson /\ response.text \in entry.response[1]

ValidateRequest(path, method, body) ==
  Checked(path, method) => AcceptsRequest(Find(path, method), body)
ValidateParams(path, method, params) ==
  Checked(path, method) => AcceptsParams(Find(path, method), params)
ValidateQuery(path, method, query) ==
  Checked(path, method) => AcceptsQuery(Find(path, method), query)
ValidateResponseIfRegistered(path, method, response) ==
  Checked(path, method) => AcceptsResponse(Find(path, method), response)

=============================================================================
