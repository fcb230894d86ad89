--------------------------- MODULE ExchangeProofs ---------------------------
(***************************************************************************)
(* Proofs about Exchange, for every set of programs: every registry, every *)
(* chain of plugins and hooks and every answer.                            *)
(***************************************************************************)
EXTENDS Exchange, Induction

EntriesOf == UNION {p.entries : p \in Programs}

(* The index leads from the key of every entry to the first entry that has *)
(* it.                                                                     *)
RegistryOK ==
  /\ entries \in Seq(EntriesOf)
  /\ \A k \in DOMAIN index : index[k] \in DOMAIN entries /\ IsFirst(index[k], k)
  /\ \A i \in DOMAIN entries : KeyOf(entries[i]) \in DOMAIN index

(* What prepare_execution has established of the route, of what is about   *)
(* to be sent, and Settle of the answer.                                   *)
RouteOK ==
  client.registry /\ strict =>
    \E i \in DOMAIN entries : KeyOf(entries[i]) = RouteKey(request.path, MethodOf(request))

Accepted ==
  client.registry /\ strict /\ ~Disabled =>
    \A i \in DOMAIN entries : IsFirst(i, RouteKey(request.path, wire.method)) =>
      /\ AcceptsRequest(entries[i], RequestBody)
      /\ AcceptsParams(entries[i], request.params)
      /\ AcceptsQuery(entries[i], request.query)

ResponseAccepted ==
  client.registry /\ strict /\ ~Disabled =>
    \A i \in DOMAIN entries : IsFirst(i, RouteKey(request.path, wire.method)) =>
      AcceptsResponse(entries[i], response)

SentOK ==
  /\ sent # None => phase \in {"answered", "settle", "read", "done"}
  /\ sent # None => sent[1].method = wire.method /\ sent[1].body \in {Multipart, RequestBody}

Unsent   == {"registry", "client", "start", "request", "prepare"}
Prepared == {"auth", "plugins", "hooks", "validate", "call"}

PhaseOK ==
  /\ phase \in Prepared \/ sent # None => RouteOK
  /\ phase = "call" \/ sent # None => Accepted
  /\ phase = "read" => ResponseAccepted

IInv == TypeOK /\ RegistryOK /\ SentOK /\ PhaseOK

------------------------------------------------------------------------------
(* The registry.                                                           *)

LEMMA FirstIsIndexed ==
  ASSUME RegistryOK, NEW k, NEW i \in DOMAIN entries, IsFirst(i, k)
  PROVE  k \in DOMAIN index /\ index[k] = i
<1>1. KeyOf(entries[i]) = k
  BY DEF IsFirst
<1>2. k \in DOMAIN index /\ index[k] \in DOMAIN entries /\ IsFirst(index[k], k)
  BY <1>1 DEF RegistryOK
<1>3. DOMAIN entries = 1..Len(entries) /\ Len(entries) \in Nat
  BY DEF RegistryOK
<1>4. ~(i < index[k]) /\ ~(index[k] < i)
  BY <1>1, <1>2, <1>3 DEF IsFirst
<1> QED BY <1>2, <1>3, <1>4

(* A registration moves no index and gives a new key the new entry.        *)
LEMMA PushKeepsFirst ==
  ASSUME RegistryOK, NEW entry \in EntriesOf, PushEntry(entry)
  PROVE  RegistryOK'
<1>1. /\ entries' = Append(entries, entry)
      /\ index' = [k \in DOMAIN index \cup {KeyOf(entry)} |->
                     IF k \in DOMAIN index THEN index[k] ELSE Len(entries) + 1]
  BY DEF PushEntry
<1>2. entries \in Seq(EntriesOf) /\ Len(entries) \in Nat /\ DOMAIN entries = 1..Len(entries)
  BY DEF RegistryOK
<1>3. /\ entries' \in Seq(EntriesOf)
      /\ DOMAIN entries' = 1..(Len(entries) + 1)
      /\ \A i \in 1..Len(entries) : entries'[i] = entries[i]
      /\ entries'[Len(entries) + 1] = entry
  BY <1>1, <1>2
<1>4. DOMAIN index' = DOMAIN index \cup {KeyOf(entry)}
  BY <1>1
<1>5. ASSUME NEW k \in DOMAIN index'
      PROVE  index'[k] \in DOMAIN entries' /\ IsFirst(index[k], k)'
  <2>1. CASE k \in DOMAIN index
    <3>1. index'[k] = index[k]
      BY <1>1, <1>4, <2>1
    <3>2. index[k] \in 1..Len(entries) /\ KeyOf(entries[index[k]]) = k
          /\ \A j \in 1..(index[k] - 1) : KeyOf(entries[j]) # k
      BY <1>2, <2>1 DEF RegistryOK, IsFirst
    <3>3. \A j \in 1..(index[k] - 1) : j \in 1..Len(entries)
      BY <1>2, <3>2
    <3>4. KeyOf(entries'[index[k]]) = k /\ \A j \in 1..(index[k] - 1) : KeyOf(entries'[j]) # k
      BY <1>3, <3>2, <3>3
    <3> QED BY <1>2, <1>3, <3>1, <3>2, <3>4 DEF IsFirst
  <2>2. CASE k \notin DOMAIN index
    <3>1. k = KeyOf(entry) /\ index'[k] = Len(entries) + 1
      BY <1>1, <1>4, <2>2
    <3>2. \A j \in 1..Len(entries) : KeyOf(entries'[j]) # k
      BY <1>2, <1>3, <2>2 DEF RegistryOK
    <3>3. index'[k] - 1 = Len(entries)
      BY <1>2, <3>1
    <3> QED BY <1>2, <1>3, <3>1, <3>2, <3>3 DEF IsFirst
  <2> QED BY <2>1, <2>2
<1>6. ASSUME NEW i \in DOMAIN entries'
      PROVE  KeyOf(entries'[i]) \in DOMAIN index'
  <2>1. CASE i = Len(entries) + 1
    BY <1>3, <1>4, <2>1
  <2>2. CASE i \in 1..Len(entries)
    BY <1>2, <1>3, <1>4, <2>2 DEF RegistryOK
  <2> QED BY <1>2, <1>3, <2>1, <2>2
<1> QED BY <1>3, <1>5, <1>6 DEF RegistryOK

LEMMA RegistryType ==
  ASSUME RegistryOK
  PROVE  \A k \in DOMAIN index : index[k] \in DOMAIN entries /\ KeyOf(entries[index[k]]) = k
BY DEF RegistryOK, IsFirst

(* A registered route has an entry.                                        *)
LEMMA RegisteredRoute ==
  ASSUME RegistryOK, NEW path, NEW method, Registered(path, method)
  PROVE  \E i \in DOMAIN entries : KeyOf(entries[i]) = RouteKey(path, method)
BY RegistryType DEF Registered

------------------------------------------------------------------------------
(* The checks of prepare_execution are those of the first entry.           *)

LEMMA ValidationAccepts ==
  ASSUME RegistryOK, ValidationError = "none"
  PROVE  Accepted
<1> SUFFICES ASSUME client.registry, strict, ~Disabled, NEW i \in DOMAIN entries,
                    IsFirst(i, RouteKey(request.path, wire.method))
             PROVE  /\ AcceptsRequest(entries[i], RequestBody)
                    /\ AcceptsParams(entries[i], request.params)
                    /\ AcceptsQuery(entries[i], request.query)
  BY DEF Accepted
<1>1. /\ RouteKey(request.path, wire.method) \in DOMAIN index
      /\ index[RouteKey(request.path, wire.method)] = i
  BY FirstIsIndexed
<1>2. Checked(request.path, wire.method) /\ Find(request.path, wire.method) = entries[i]
  BY <1>1 DEF Checked, Registered, Find
<1>3. /\ ValidateRequest(request.path, wire.method, RequestBody)
      /\ ValidateParams(request.path, wire.method, request.params)
      /\ ValidateQuery(request.path, wire.method, request.query)
  BY DEF ValidationError, Checks
<1> QED BY <1>2, <1>3 DEF ValidateRequest, ValidateParams, ValidateQuery

LEMMA ResponseAccepts ==
  ASSUME RegistryOK, response.success => MaybeValidateResponse
  PROVE  ResponseAccepted
<1> SUFFICES ASSUME client.registry, strict, ~Disabled, NEW i \in DOMAIN entries,
                    IsFirst(i, RouteKey(request.path, wire.method))
             PROVE  AcceptsResponse(entries[i], response)
  BY DEF ResponseAccepted
<1>1. /\ RouteKey(request.path, wire.method) \in DOMAIN index
      /\ index[RouteKey(request.path, wire.method)] = i
  BY FirstIsIndexed
<1>2. Checked(request.path, wire.method) /\ Find(request.path, wire.method) = entries[i]
  BY <1>1 DEF Checked, Registered, Find
<1>3. CASE response.success
  BY <1>2, <1>3 DEF MaybeValidateResponse, Checks, ValidateResponseIfRegistered
<1>4. CASE ~response.success
  BY <1>4 DEF AcceptsResponse
<1> QED BY <1>3, <1>4

LEMMA RouteChecked ==
  ASSUME RegistryOK, UrlError = "none"
  PROVE  RouteOK
<1> SUFFICES ASSUME client.registry, strict
             PROVE  \E i \in DOMAIN entries :
                      KeyOf(entries[i]) = RouteKey(request.path, MethodOf(request))
  BY DEF RouteOK
<1>1. EnsureRoute(request.path, MethodOf(request))
  BY DEF UrlError
<1> QED BY <1>1, RegisteredRoute DEF EnsureRoute

------------------------------------------------------------------------------
(* What a step leaves alone.                                               *)

LEMMA RegistryKept ==
  ASSUME RegistryOK, UNCHANGED <<entries, index>>
  PROVE  RegistryOK'
BY DEF RegistryOK, IsFirst

LEMMA RouteKept ==
  ASSUME RouteOK, UNCHANGED <<entries, strict, client, request>>
  PROVE  RouteOK'
BY DEF RouteOK, MethodOf

LEMMA AcceptedKept ==
  ASSUME Accepted, UNCHANGED <<entries, strict, client, request, wire>>
  PROVE  Accepted'
BY DEF Accepted, Disabled, RequestBody, IsFirst

LEMMA ResponseKept ==
  ASSUME ResponseAccepted, UNCHANGED <<entries, strict, client, request, wire, response>>
  PROVE  ResponseAccepted'
BY DEF ResponseAccepted, Disabled, IsFirst

(* A step before anything is prepared.                                     *)
LEMMA EarlyStep ==
  ASSUME IInv, phase \in Unsent, sent' = sent, phase' \in Unsent \cup {"done"}
  PROVE  SentOK' /\ PhaseOK'
BY DEF IInv, SentOK, PhaseOK, Unsent, Prepared

(* A step while the request is prepared: it may rewrite what is sent.      *)
LEMMA PreparingStep ==
  ASSUME IInv, phase \in Prepared, sent' = sent, UNCHANGED <<calls, registry>>,
         phase' \in (Prepared \ {"call"}) \cup {"done"}
  PROVE  SentOK' /\ PhaseOK' /\ RegistryOK'
<1>1. sent = None
  BY DEF IInv, SentOK, Prepared
<1>2. RouteOK'
  BY RouteKept DEF IInv, PhaseOK, calls, registry
<1>3. RegistryOK'
  BY RegistryKept DEF IInv, registry
<1> QED BY <1>1, <1>2, <1>3 DEF SentOK, PhaseOK, Prepared

(* A step after the request was sent.                                      *)
LEMMA AnsweredStep ==
  ASSUME IInv, UNCHANGED <<wire, sent, calls, registry>>,
         phase' \in {"answered", "settle", "done"} \/ (phase' = "read" /\ ResponseAccepted'),
         phase \in {"answered", "settle", "read"}
  PROVE  SentOK' /\ PhaseOK' /\ RegistryOK'
<1>1. RegistryOK'
  BY RegistryKept DEF IInv, registry
<1>2. RequestBody' = RequestBody
  BY DEF RequestBody, calls
<1>3. SentOK'
  BY <1>2 DEF IInv, SentOK
<1>4. CASE sent # None
  <2>1. RouteOK' /\ Accepted'
    BY <1>4, RouteKept, AcceptedKept DEF IInv, PhaseOK, calls, registry
  <2> QED BY <1>1, <1>3, <2>1 DEF PhaseOK
<1>5. CASE sent = None
  BY <1>1, <1>3, <1>5 DEF PhaseOK, Prepared
<1> QED BY <1>4, <1>5

(* The control state: a step that ends the request has an outcome.         *)
Control == phase \in Phases /\ (phase # "done" => outcome = Pending) /\ next \in Nat \ {0}

LEMMA PassControl ==
  ASSUME NEW error, NEW to \in Phases \ {"done"}, TypeOK, phase # "done", Pass(error, to),
         next' = next
  PROVE  Control'
BY DEF Pass, Finish, Proceed, TypeOK, Control, Phases

LEMMA ChainControl ==
  ASSUME NEW effects, NEW to \in Phases \ {"done"}, TypeOK, phase # "done", Chain(effects, to)
  PROVE  Control' /\ phase' \in {phase, to, "done"} /\ UNCHANGED <<program, sent, calls, registry>>
BY DEF Chain, Finish, Proceed, TypeOK, Control, Phases, answer

LEMMA TypeFrom ==
  ASSUME TypeOK, Control', RegistryOK', program' = program, strict' \in BOOLEAN
  PROVE  TypeOK'
<1>1. \A k \in DOMAIN index' : index'[k] \in DOMAIN entries' /\ KeyOf(entries[index[k]])' = k
  BY DEF RegistryOK, IsFirst
<1> QED BY <1>1 DEF TypeOK, Control

------------------------------------------------------------------------------
LEMMA InitInv == Init => IInv
<1> SUFFICES ASSUME Init PROVE IInv
  OBVIOUS
<1>1. entries = <<>> /\ index = <<>> /\ strict = FALSE
  BY DEF Init, RegistryInit
<1>2. DOMAIN entries = {} /\ DOMAIN index = {} /\ entries \in Seq(EntriesOf)
  BY <1>1
<1>3. RegistryOK
  BY <1>2 DEF RegistryOK
<1>4. TypeOK
  <2>1. \A k \in DOMAIN index : index[k] \in DOMAIN entries /\ KeyOf(entries[index[k]]) = k
    BY <1>2
  <2>2. /\ program \in Programs /\ phase \in Phases /\ next \in Nat \ {0}
        /\ outcome = Pending
    BY DEF Init, Phases
  <2> QED BY <1>1, <2>1, <2>2 DEF TypeOK
<1>5. SentOK /\ PhaseOK
  BY DEF Init, SentOK, PhaseOK, Prepared
<1> QED BY <1>3, <1>4, <1>5 DEF IInv

(* Steps before the request is prepared.                                   *)
LEMMA ConfigureStep ==
  ASSUME IInv,
         \/ Register \/ MakeStrict \/ Build
         \/ \E call : Builder(call)
         \/ \E method, path : Start(method, path)
         \/ \E e : Call(e)
         \/ \E call : Configure(call)
         \/ \E how : Send(how)
  PROVE  IInv'
<1>1. TypeOK /\ RegistryOK /\ strict \in BOOLEAN
  BY DEF IInv, TypeOK
<1>2. CASE Register
  <2>1. /\ phase = "registry" /\ phase' = phase /\ sent' = sent /\ strict' = strict
        /\ program' = program /\ outcome' = outcome /\ next' = next
    BY <1>2 DEF Register, PushEntry, answer
  <2>2. PICK entry \in program.entries : PushEntry(entry)
    BY <1>2 DEF Register
  <2>3. entry \in EntriesOf
    BY <1>1 DEF TypeOK, EntriesOf
  <2>4. RegistryOK'
    BY <1>1, <2>2, <2>3, PushKeepsFirst
  <2>5. Control'
    BY <1>1, <2>1 DEF TypeOK, Control
  <2>6. SentOK' /\ PhaseOK'
    BY <2>1, EarlyStep DEF Unsent
  <2> QED BY <1>1, <2>1, <2>4, <2>5, <2>6, TypeFrom DEF IInv
<1>3. CASE MakeStrict
  <2>1. /\ phase = "registry" /\ phase' = "client" /\ sent' = sent /\ strict' = program.strict
        /\ program' = program /\ outcome' = outcome /\ next' = next
        /\ UNCHANGED <<entries, index>>
    BY <1>3 DEF MakeStrict, SetStrict, answer
  <2>2. RegistryOK'
    BY <1>1, <2>1, RegistryKept
  <2>3. Control'
    BY <1>1, <2>1 DEF TypeOK, Control, Phases
  <2>4. SentOK' /\ PhaseOK'
    BY <2>1, EarlyStep DEF Unsent
  <2>5. strict' \in BOOLEAN
    BY <1>1, <2>1, ProgramAssumption DEF TypeOK, WellTyped
  <2> QED BY <1>1, <2>1, <2>2, <2>3, <2>4, <2>5, TypeFrom DEF IInv
<1>4. ASSUME \/ Build \/ \E call : Builder(call) \/ \E method, path : Start(method, path)
             \/ \E e : Call(e) \/ \E call : Configure(call) \/ \E how : Send(how)
      PROVE  IInv'
  <2>1. /\ phase \in Unsent /\ phase' \in Unsent \cup {"done"} /\ Control'
        /\ UNCHANGED <<program, sent, next, entries, index, strict>>
    <3>1. CASE Build
      BY <1>1, <3>1 DEF Build, Pass, Finish, Proceed, Unsent, Control, TypeOK, Phases, answer, registry
    <3>2. ASSUME NEW call, Builder(call) PROVE <2>1
      BY <1>1, <3>2 DEF Builder, Unsent, Control, TypeOK, Phases, answer, registry
    <3>3. ASSUME NEW method, NEW path, Start(method, path) PROVE <2>1
      BY <1>1, <3>3 DEF Start, Proceed, Unsent, Control, TypeOK, Phases, answer, registry
    <3>4. ASSUME NEW e, Call(e) PROVE <2>1
      BY <1>1, <3>4 DEF Call, Proceed, Unsent, Control, TypeOK, Phases, answer, registry
    <3>5. ASSUME NEW call, Configure(call) PROVE <2>1
      BY <1>1, <3>5 DEF Configure, Finish, Proceed, Unsent, Control, TypeOK, Phases, answer, registry
    <3>6. ASSUME NEW how, Send(how) PROVE <2>1
      BY <1>1, <3>6 DEF Send, Proceed, Unsent, Control, TypeOK, Phases, answer, registry
    <3> QED BY <1>4, <3>1, <3>2, <3>3, <3>4, <3>5, <3>6
  <2>2. RegistryOK'
    BY <1>1, <2>1, RegistryKept
  <2>3. SentOK' /\ PhaseOK'
    BY <2>1, EarlyStep
  <2> QED BY <1>1, <2>1, <2>2, <2>3, TypeFrom DEF IInv
<1> QED BY <1>2, <1>3, <1>4

(* Steps of prepare_execution.                                             *)
LEMMA PrepareStep ==
  ASSUME IInv, PrepareUrl \/ ApplyAuth \/ RunInitAll \/ RunOnRequest \/ Validate
  PROVE  IInv'
<1>1. TypeOK /\ RegistryOK /\ strict \in BOOLEAN
  BY DEF IInv, TypeOK
<1>2. CASE PrepareUrl
  <2>1. /\ phase = "prepare" /\ Pass(UrlError, "auth")
        /\ UNCHANGED <<program, sent, next, client, request, entries, index, strict>>
    BY <1>2 DEF PrepareUrl, calls, answer, registry
  <2>2. Control'
    BY <1>1, <2>1, PassControl DEF Phases
  <2>3. sent = None
    BY <2>1 DEF IInv, SentOK
  <2>4. RegistryOK'
    BY <1>1, <2>1, RegistryKept
  <2>5. CASE UrlError = "none"
    <3>1. RouteOK'
      BY <1>1, <2>1, <2>5, RouteChecked, RouteKept
    <3>2. phase' = "auth"
      BY <2>1, <2>5 DEF Pass, Proceed
    <3> QED BY <1>1, <2>1, <2>2, <2>3, <2>4, <3>1, <3>2, TypeFrom DEF IInv, SentOK, PhaseOK
  <2>6. CASE UrlError # "none"
    <3>1. phase' = "done"
      BY <2>1, <2>6 DEF Pass, Finish
    <3> QED BY <1>1, <2>1, <2>2, <2>3, <2>4, <3>1, TypeFrom DEF IInv, SentOK, PhaseOK, Prepared
  <2> QED BY <2>5, <2>6
<1>3. CASE ApplyAuth \/ RunInitAll \/ RunOnRequest
  <2>1. /\ phase \in Prepared /\ phase' \in (Prepared \ {"call"}) \cup {"done"} /\ Control'
        /\ UNCHANGED <<program, sent, calls, registry>>
    <3>1. CASE ApplyAuth
      <4>1. PICK error : phase = "auth" /\ Pass(error, "plugins") /\ next' = next
                         /\ UNCHANGED <<program, sent, calls, registry>>
        BY <3>1, Zenon DEF ApplyAuth, answer
      <4>2. Control'
        BY <1>1, <4>1, PassControl DEF Phases
      <4> QED BY <4>1, <4>2 DEF Pass, Finish, Proceed, Prepared
    <3>2. CASE RunInitAll
      <4>1. PICK effects : phase = "plugins" /\ Chain(effects, "hooks")
        BY <3>2, Zenon DEF RunInitAll
      <4> QED BY <1>1, <4>1, ChainControl DEF Phases, Prepared
    <3>3. CASE RunOnRequest
      <4>1. PICK effects : phase = "hooks" /\ Chain(effects, "validate")
        BY <3>3, Zenon DEF RunOnRequest
      <4> QED BY <1>1, <4>1, ChainControl DEF Phases, Prepared
    <3> QED BY <1>3, <3>1, <3>2, <3>3
  <2>2. SentOK' /\ PhaseOK' /\ RegistryOK'
    BY <2>1, PreparingStep
  <2> QED BY <1>1, <2>1, <2>2, TypeFrom DEF IInv, registry
<1>4. CASE Validate
  <2>1. /\ phase = "validate" /\ Pass(ValidationError, "call")
        /\ UNCHANGED <<program, sent, wire, next, client, request, entries, index, strict>>
    BY <1>4 DEF Validate, calls, answer, registry
  <2>2. Control'
    BY <1>1, <2>1, PassControl DEF Phases
  <2>3. sent = None
    BY <2>1 DEF IInv, SentOK
  <2>4. RegistryOK' /\ RouteOK'
    BY <1>1, <2>1, RegistryKept, RouteKept DEF IInv, PhaseOK, Prepared
  <2>5. CASE ValidationError = "none"
    <3>1. Accepted'
      BY <1>1, <2>1, <2>5, ValidationAccepts, AcceptedKept
    <3>2. phase' = "call"
      BY <2>1, <2>5 DEF Pass, Proceed
    <3> QED BY <1>1, <2>1, <2>2, <2>3, <2>4, <3>1, <3>2, TypeFrom DEF IInv, SentOK, PhaseOK
  <2>6. CASE ValidationError # "none"
    <3>1. phase' = "done"
      BY <2>1, <2>6 DEF Pass, Finish
    <3> QED BY <1>1, <2>1, <2>2, <2>3, <2>4, <3>1, TypeFrom DEF IInv, SentOK, PhaseOK, Prepared
  <2> QED BY <2>5, <2>6
<1> QED BY <1>2, <1>3, <1>4

(* The attempt: what is sent is what was validated, or the multipart form. *)
LEMMA ExchangeStep ==
  ASSUME IInv, NEW reply, Exchanged(reply)
  PROVE  IInv'
<1>1. TypeOK /\ RegistryOK /\ strict \in BOOLEAN
  BY DEF IInv, TypeOK
<1>2. /\ phase = "call" /\ Pass(reply.error, "answered") /\ sent' = Some(BuildHttpRequest)
      /\ UNCHANGED <<program, wire, next, client, request, entries, index, strict>>
  BY DEF Exchanged, calls, registry
<1>3. Control'
  BY <1>1, <1>2, PassControl DEF Phases
<1>4. RegistryOK' /\ RouteOK' /\ Accepted'
  BY <1>1, <1>2, RegistryKept, RouteKept, AcceptedKept DEF IInv, PhaseOK, Prepared
<1>5. RequestBody' = RequestBody
  BY <1>2 DEF RequestBody
<1>6. sent'[1].method = wire'.method /\ sent'[1].body \in {Multipart, RequestBody'}
  <2>1. sent'[1] = BuildHttpRequest
    BY <1>2 DEF Some
  <2> QED BY <1>2, <1>5, <2>1 DEF BuildHttpRequest
<1>7. phase' \in {"answered", "done"}
  BY <1>2 DEF Pass, Finish, Proceed
<1>8. SentOK'
  BY <1>6, <1>7 DEF SentOK
<1>9. PhaseOK'
  BY <1>4, <1>7 DEF PhaseOK
<1> QED BY <1>1, <1>2, <1>3, <1>4, <1>8, <1>9, TypeFrom DEF IInv

(* Steps after the attempt.                                                *)
LEMMA AnswerStep ==
  ASSUME IInv, RunOnResponse \/ Settle \/ Read
  PROVE  IInv'
<1>1. TypeOK /\ RegistryOK /\ strict \in BOOLEAN
  BY DEF IInv, TypeOK
<1>2. /\ phase \in {"answered", "settle", "read"} /\ Control'
      /\ UNCHANGED <<program, wire, sent, calls, registry>>
      /\ phase' \in {"answered", "settle", "done"} \/ (phase' = "read" /\ ResponseAccepted')
  <2>1. CASE RunOnResponse
    BY <1>1, <2>1 DEF RunOnResponse, Finish, Proceed, Control, TypeOK, Phases
  <2>2. CASE Settle
    <3>1. PICK error : /\ Pass(error, "read")
                       /\ error = "none" => (response.success => MaybeValidateResponse)
                       /\ phase = "settle" /\ next' = next
                       /\ UNCHANGED <<program, wire, sent, response, calls, registry>>
      <4> DEFINE error == IF response.success
                          THEN IF MaybeValidateResponse THEN "none" ELSE "SchemaValidation response"
                          ELSE IF Streaming \/ ValueOf(request.options, "throw_on_error") = Some("on")
                          THEN "Http" ELSE "none"
      <4>1. /\ Pass(error, "read") /\ phase = "settle" /\ next' = next
            /\ UNCHANGED <<program, wire, sent, response, calls, registry>>
        BY <2>2 DEF Settle, answer
      <4>2. error = "none" => (response.success => MaybeValidateResponse)
        OBVIOUS
      <4> HIDE DEF error
      <4> QED BY <4>1, <4>2
    <3>2. Control'
      BY <1>1, <3>1, PassControl DEF Phases
    <3>3. phase' = "done" \/ (phase' = "read" /\ error = "none")
      BY <3>1 DEF Pass, Finish, Proceed
    <3>4. error = "none" => ResponseAccepted'
      BY <1>1, <3>1, ResponseAccepts, ResponseKept DEF calls, registry
    <3> QED BY <3>1, <3>2, <3>3, <3>4
  <2>3. CASE Read
    BY <1>1, <2>3 DEF Read, Finish, Control, TypeOK, Phases, answer
  <2> QED BY <2>1, <2>2, <2>3
<1>3. SentOK' /\ PhaseOK' /\ RegistryOK'
  BY <1>2, AnsweredStep
<1> QED BY <1>1, <1>2, <1>3, TypeFrom DEF IInv, registry

LEMMA StutterStep == ASSUME IInv, UNCHANGED vars PROVE IInv'
<1>1. /\ UNCHANGED <<phase, next, outcome, program, wire, client, request, sent, response,
                     entries, index, strict>>
  BY DEF vars, calls, answer, registry
<1>2. RegistryOK' /\ TypeOK'
  BY <1>1, RegistryKept DEF IInv, TypeOK
<1>3. SentOK'
  BY <1>1 DEF IInv, SentOK, RequestBody
<1>4. PhaseOK'
  BY <1>1, RouteKept, AcceptedKept, ResponseKept DEF IInv, PhaseOK
<1> QED BY <1>2, <1>3, <1>4 DEF IInv

LEMMA InvariantStep == IInv /\ [Next]_vars => IInv'
<1> SUFFICES ASSUME IInv, [Next]_vars PROVE IInv'
  OBVIOUS
<1>1. CASE UNCHANGED vars
  BY <1>1, StutterStep
<1>2. CASE Next
  BY <1>2, ConfigureStep, PrepareStep, ExchangeStep, AnswerStep DEF Next
<1> QED BY <1>1, <1>2

LEMMA Invariant == Spec => []IInv
BY InitInv, InvariantStep, PTL DEF Spec

------------------------------------------------------------------------------
(* The calls of a log: what is selected from it, call by call.             *)

(* g picks the elements of a sequence from left to right.                  *)
PickedBy(seq, at, g) ==
  /\ g[0] = <<>>
  /\ \A i \in 1..Len(seq) : g[i] = IF i \in at THEN Append(g[i - 1], seq[i]) ELSE g[i - 1]

(* Selected is the last of such picks.                                     *)
LEMMA SelectedDef ==
  ASSUME NEW T, NEW seq \in Seq(T), NEW at
  PROVE  \E g \in [0..Len(seq) -> Seq(T)] : PickedBy(seq, at, g) /\ Selected(seq, at) = g[Len(seq)]
<1> DEFINE Eq(h) == h = [i \in 0..Len(seq) |->
                           IF i = 0 THEN <<>>
                           ELSE IF i \in at THEN Append(h[i - 1], seq[i]) ELSE h[i - 1]]
           turn == [p \in (1..Len(seq)) \X Seq(T) |->
                      IF p[1] \in at THEN Append(p[2], seq[p[1]]) ELSE p[2]]
<1>1. \A i \in 1..Len(seq), v \in Seq(T) : turn[<<i, v>>] \in Seq(T)
  <2>1. \A i \in 1..Len(seq) : seq[i] \in T
    OBVIOUS
  <2> QED BY <2>1
<1>2. PICK g \in [0..Len(seq) -> Seq(T)] :
        g[0] = <<>> /\ \A i \in 1..Len(seq) : g[i] = turn[<<i, g[i - 1]>>]
  <2>1. PICK start, n, V : start = <<>> /\ n = Len(seq) /\ V = Seq(T)
    OBVIOUS
  <2>2. start \in V /\ n \in Nat
    BY <2>1
  <2>3. \A i \in 1..n, v \in V : turn[<<i, v>>] \in V
    BY <1>1, <2>1, Zenon
  <2> HIDE DEF turn
  <2>4. \E g : Iterates(n, V, start, turn, g)
    BY <2>2, <2>3, IndexRecursion
  <2> QED BY <2>1, <2>4 DEF Iterates
<1>3. PickedBy(seq, at, g)
  <2>1. \A i \in 1..Len(seq), v \in Seq(T) :
          turn[<<i, v>>] = IF i \in at THEN Append(v, seq[i]) ELSE v
    OBVIOUS
  <2>2. \A i \in 1..Len(seq) : g[i - 1] \in Seq(T)
    OBVIOUS
  <2> HIDE DEF turn
  <2> QED BY <1>2, <2>1, <2>2 DEF PickedBy
<1>4. Eq(g)
  <2>1. \A i \in 0..Len(seq) :
          g[i] = IF i = 0 THEN <<>>
                 ELSE IF i \in at THEN Append(g[i - 1], seq[i]) ELSE g[i - 1]
    <3>1. ASSUME NEW i \in 1..Len(seq)
          PROVE  i # 0 /\ g[i] = IF i \in at THEN Append(g[i - 1], seq[i]) ELSE g[i - 1]
      BY <1>3 DEF PickedBy
    <3>2. ASSUME NEW i \in 0..Len(seq), i \notin 1..Len(seq)
          PROVE  i = 0 /\ g[i] = <<>>
      BY <1>3, <3>2 DEF PickedBy
    <3> QED BY <3>1, <3>2, Zenon
  <2>2. g = [i \in 0..Len(seq) |-> g[i]]
    OBVIOUS
  <2> QED BY <2>1, <2>2, Zenon
<1> DEFINE picked == CHOOSE h : Eq(h)
<1>5. Eq(picked)
  <2> HIDE DEF Eq
  <2> QED BY <1>4
<1> HIDE DEF picked
<1>6. picked = g
  <2> DEFINE S == {i \in 0..Len(seq) : picked[i] = g[i]}
  <2>1. \A i \in 0..Len(seq) :
          picked[i] = IF i = 0 THEN <<>>
                      ELSE IF i \in at THEN Append(picked[i - 1], seq[i]) ELSE picked[i - 1]
    BY <1>5
  <2>2. 0 \in S
    BY <1>3, <2>1 DEF PickedBy
  <2>3. ASSUME NEW i \in 0..(Len(seq) - 1), i \in S PROVE i + 1 \in S
    <3>1. i + 1 \in 1..Len(seq) /\ i + 1 \in 0..Len(seq) /\ i + 1 - 1 = i /\ i + 1 # 0
      OBVIOUS
    <3>2. picked[i + 1] = IF i + 1 \in at THEN Append(picked[i], seq[i + 1]) ELSE picked[i]
      BY <2>1, <3>1
    <3>3. g[i + 1] = IF i + 1 \in at THEN Append(g[i], seq[i + 1]) ELSE g[i]
      BY <1>3, <3>1 DEF PickedBy
    <3> QED BY <2>3, <3>1, <3>2, <3>3
  <2>4. 0..Len(seq) \subseteq S
    <3>1. PICK n : n = Len(seq)
      OBVIOUS
    <3>2. n \in Nat /\ \A i \in 0..(n - 1) : i \in S => i + 1 \in S
      BY <2>3, <3>1
    <3> HIDE DEF S
    <3> QED BY <2>2, <3>1, <3>2, IndexInduction
  <2>5. picked = [i \in 0..Len(seq) |-> picked[i]]
    BY <1>5
  <2> QED BY <2>4, <2>5
<1>7. Selected(seq, at) = picked[Len(seq)]
  BY Zenon DEF Selected, picked
<1> QED BY <1>3, <1>6, <1>7

(* Nothing is selected from nothing.                                       *)
LEMMA SelectedEmpty == \A at : Selected(<<>>, at) = <<>>
<1> TAKE at
<1>1. PICK s : s = <<>>
  OBVIOUS
<1>2. s \in Seq({}) /\ Len(s) = 0
  BY <1>1
<1>3. PICK g : PickedBy(s, at, g) /\ Selected(s, at) = g[Len(s)]
  BY <1>2, SelectedDef
<1> QED BY <1>1, <1>2, <1>3 DEF PickedBy

(* One more element is selected or not; what was selected stays.           *)
LEMMA SelectedAppend ==
  ASSUME NEW T, NEW seq \in Seq(T), NEW e \in T, NEW at, NEW bt,
         \A i \in 1..Len(seq) : i \in at <=> i \in bt
  PROVE  /\ Selected(seq, bt) \in Seq(T)
         /\ Selected(Append(seq, e), at) =
              IF Len(seq) + 1 \in at THEN Append(Selected(seq, bt), e) ELSE Selected(seq, bt)
<1>1. PICK longer, n : longer = Append(seq, e) /\ n = Len(seq)
  OBVIOUS
<1>2. /\ n \in Nat /\ longer \in Seq(T) /\ Len(longer) = n + 1
      /\ longer[n + 1] = e /\ \A i \in 1..n : longer[i] = seq[i]
  BY <1>1
<1>3. PICK g \in [0..n -> Seq(T)] : PickedBy(seq, bt, g) /\ Selected(seq, bt) = g[n]
  BY <1>1, SelectedDef
<1>4. PICK h : PickedBy(longer, at, h) /\ Selected(longer, at) = h[n + 1]
  BY <1>2, SelectedDef
<1> DEFINE S == {i \in 0..n : h[i] = g[i]}
<1>5. 0 \in S
  BY <1>2, <1>3, <1>4 DEF PickedBy
<1>6. ASSUME NEW i \in 0..(n - 1), i \in S PROVE i + 1 \in S
  <2>1. i + 1 \in 1..n /\ i + 1 \in 1..(n + 1) /\ i + 1 - 1 = i /\ h[i] = g[i]
    BY <1>2, <1>6
  <2>2. h[i + 1] = IF i + 1 \in at THEN Append(h[i], longer[i + 1]) ELSE h[i]
    BY <1>2, <1>4, <2>1 DEF PickedBy
  <2>3. g[i + 1] = IF i + 1 \in bt THEN Append(g[i], seq[i + 1]) ELSE g[i]
    BY <1>1, <1>3, <2>1 DEF PickedBy
  <2> QED BY <1>1, <1>2, <2>1, <2>2, <2>3
<1>7. h[n] = g[n]
  <2> HIDE DEF S
  <2>1. 0..n \subseteq S
    BY <1>2, <1>5, <1>6, IndexInduction
  <2> QED BY <1>2, <2>1 DEF S
<1>8. h[n + 1] = IF n + 1 \in at THEN Append(h[n], e) ELSE h[n]
  <2>1. n + 1 \in 1..(n + 1) /\ n + 1 - 1 = n
    BY <1>2
  <2> QED BY <1>2, <1>4, <2>1 DEF PickedBy
<1>9. Selected(seq, bt) \in Seq(T)
  BY <1>2, <1>3
<1> QED BY <1>1, <1>3, <1>4, <1>7, <1>8, <1>9, Zenon

(* An empty log has no calls.                                              *)
LEMMA CallsOfEmpty == \A setters : CallsOf(<<>>, setters) = <<>>
BY SelectedEmpty DEF CallsOf

(* One more call in a log, for each way of looking at the log.             *)
LEMMA CallsOfAppend ==
  ASSUME NEW T, NEW log \in Seq(T), NEW call \in T, NEW setters
  PROVE  /\ CallsOf(log, setters) \in Seq(T)
         /\ CallsOf(Append(log, call), setters) =
              IF call[1] \in setters THEN Append(CallsOf(log, setters), call)
              ELSE CallsOf(log, setters)
<1>1. PICK longer, n, at, bt :
        /\ longer = Append(log, call) /\ n = Len(log)
        /\ at = {i \in DOMAIN longer : longer[i][1] \in setters}
        /\ bt = {i \in DOMAIN log : log[i][1] \in setters}
  OBVIOUS
<1>2. (\A i \in 1..n : i \in at <=> i \in bt) /\ (n + 1 \in at <=> call[1] \in setters)
  BY <1>1
<1>3. /\ Selected(log, bt) \in Seq(T)
      /\ Selected(longer, at) =
              IF n + 1 \in at THEN Append(Selected(log, bt), call) ELSE Selected(log, bt)
  BY <1>1, <1>2, SelectedAppend
<1> QED BY <1>1, <1>2, <1>3, Zenon DEF CallsOf

(* A call is the last of its setter.                                       *)
LEMMA LastCallAppend ==
  ASSUME NEW T, NEW log \in Seq(T), NEW call \in T, NEW setter
  PROVE  LastCall(Append(log, call), setter) =
           IF call[1] = setter THEN Some(call) ELSE LastCall(log, setter)
<1>1. /\ CallsOf(log, {setter}) \in Seq(T)
      /\ CallsOf(Append(log, call), {setter}) =
              IF call[1] \in {setter} THEN Append(CallsOf(log, {setter}), call)
              ELSE CallsOf(log, {setter})
  BY CallsOfAppend
<1>2. PICK made : made = CallsOf(log, {setter})
  OBVIOUS
<1>3. made \in Seq(T) /\ Append(made, call) # <<>> /\ Last(Append(made, call)) = call
  BY <1>1, <1>2 DEF Last
<1> QED BY <1>1, <1>2, <1>3, Zenon DEF LastCall

(* The calls that set an option.                                           *)
LEMMA OptionCallsAppend ==
  ASSUME NEW T, NEW log \in Seq(T), NEW call \in T, NEW s
  PROVE  /\ OptionCalls(log, s) \in Seq(T)
         /\ OptionCalls(Append(log, call), s) =
              IF call[1] = "option" /\ call[2] = s THEN Append(OptionCalls(log, s), call)
              ELSE OptionCalls(log, s)
<1>1. PICK longer, n, at, bt :
        /\ longer = Append(log, call) /\ n = Len(log)
        /\ at = {i \in DOMAIN longer : longer[i][1] = "option" /\ longer[i][2] = s}
        /\ bt = {i \in DOMAIN log : log[i][1] = "option" /\ log[i][2] = s}
  OBVIOUS
<1>2. (\A i \in 1..n : i \in at <=> i \in bt)
      /\ (n + 1 \in at <=> call[1] = "option" /\ call[2] = s)
  BY <1>1
<1>3. /\ Selected(log, bt) \in Seq(T)
      /\ Selected(longer, at) =
              IF n + 1 \in at THEN Append(Selected(log, bt), call) ELSE Selected(log, bt)
  BY <1>1, <1>2, SelectedAppend
<1> QED BY <1>1, <1>2, <1>3, Zenon DEF OptionCalls

(* The calls that give a parameter.                                        *)
LEMMA ParamCallsAppend ==
  ASSUME NEW T, NEW log \in Seq(T), NEW call \in T, NEW name
  PROVE  /\ ParamCalls(log, name) \in Seq(T)
         /\ ParamCalls(Append(log, call), name) =
              IF call[1] = "params" /\ name \in DOMAIN call[2] THEN Append(ParamCalls(log, name), call)
              ELSE ParamCalls(log, name)
<1>1. PICK longer, n, at, bt :
        /\ longer = Append(log, call) /\ n = Len(log)
        /\ at = {i \in DOMAIN longer : longer[i][1] = "params" /\ name \in DOMAIN longer[i][2]}
        /\ bt = {i \in DOMAIN log : log[i][1] = "params" /\ name \in DOMAIN log[i][2]}
  OBVIOUS
<1>2. (\A i \in 1..n : i \in at <=> i \in bt)
      /\ (n + 1 \in at <=> call[1] = "params" /\ name \in DOMAIN call[2])
  BY <1>1
<1>3. /\ Selected(log, bt) \in Seq(T)
      /\ Selected(longer, at) =
              IF n + 1 \in at THEN Append(Selected(log, bt), call) ELSE Selected(log, bt)
  BY <1>1, <1>2, SelectedAppend
<1> QED BY <1>1, <1>2, <1>3, Zenon DEF ParamCalls

(* The writes of a header.                                                 *)
LEMMA WrittenAppend ==
  ASSUME NEW T, NEW log \in Seq(T), NEW call \in T, NEW h
  PROVE  LET seq == Written(log, h)
             U == {HeaderValue(c) : c \in T}
         IN  /\ seq \in Seq(U)
             /\ Written(Append(log, call), h) =
                  IF WritesHeader(call, h) THEN Append(seq, HeaderValue(call)) ELSE seq
<1>1. PICK longer, n, at, bt :
        /\ longer = Append(log, call) /\ n = Len(log)
        /\ at = {i \in DOMAIN longer : WritesHeader(longer[i], h)}
        /\ bt = {i \in DOMAIN log : WritesHeader(log[i], h)}
  OBVIOUS
<1>2. (\A i \in 1..n : i \in at <=> i \in bt) /\ (n + 1 \in at <=> WritesHeader(call, h))
  BY <1>1
<1>3. PICK made : made = Selected(log, bt)
  OBVIOUS
<1>4. /\ made \in Seq(T)
      /\ Selected(longer, at) = IF WritesHeader(call, h) THEN Append(made, call) ELSE made
  <2>1. /\ Selected(log, bt) \in Seq(T)
        /\ Selected(longer, at) =
              IF n + 1 \in at THEN Append(Selected(log, bt), call) ELSE Selected(log, bt)
    BY <1>1, <1>2, SelectedAppend
  <2> QED BY <1>2, <1>3, <2>1, Zenon
<1> DEFINE Values(s) == [i \in DOMAIN s |-> HeaderValue(s[i])]
<1>5. Written(log, h) = Values(made) /\ Written(longer, h) = Values(Selected(longer, at))
  BY <1>1, <1>3, Zenon DEF Written
<1>6. Values(made) \in Seq({HeaderValue(c) : c \in T})
  BY <1>4
<1>7. Values(Append(made, call)) = Append(Values(made), HeaderValue(call))
  BY <1>4
<1> HIDE DEF Values
<1> QED BY <1>1, <1>4, <1>5, <1>6, <1>7

------------------------------------------------------------------------------
(* The hooks of all plugins behind the client's.                           *)

(* The fold of the hooks of all plugins joins, chain by chain, their       *)
(* sequences.                                                              *)
LEMMA MergeFold ==
  ASSUME NEW T, NEW plugins \in Seq(T), \A p \in T : IsHooks(p.hooks)
  PROVE  \E h : /\ h[0] = NoHooks
                /\ \A i \in 1..Len(plugins) : h[i] = Merge(h[i - 1], plugins[i].hooks)
                /\ PluginHooks(plugins) = h[Len(plugins)]
<1> DEFINE Op(hooks, p) == Merge(hooks, p.hooks)
           Eq(f) == f = [s \in SUBSET DOMAIN plugins |->
                           IF s = {} THEN NoHooks
                           ELSE Op(f[s \ {Max(s)}], plugins[Max(s)])]
           W == UNION {UNION {ToSet(p.hooks[chain]) : chain \in DOMAIN NoHooks} : p \in T}
           turn == [q \in (1..Len(plugins)) \X [DOMAIN NoHooks -> Seq(W)] |-> Op(q[2], plugins[q[1]])]
<1>1. PICK n, V : n = Len(plugins) /\ V = [DOMAIN NoHooks -> Seq(W)]
  OBVIOUS
<1>2. n \in Nat /\ DOMAIN plugins = 1..n /\ \A i \in 1..n : plugins[i] \in T
  BY <1>1
<1>3. \A i \in 1..n, v \in V : turn[<<i, v>>] = Op(v, plugins[i])
  BY <1>1
<1>4. \A i \in 1..n, v \in V : Op(v, plugins[i]) \in V
  <2> SUFFICES ASSUME NEW i \in 1..n, NEW v \in V PROVE Op(v, plugins[i]) \in V
    OBVIOUS
  <2>1. PICK p : p = plugins[i]
    OBVIOUS
  <2>2. p \in T
    BY <1>2, <2>1
  <2>3. ASSUME NEW chain \in DOMAIN NoHooks PROVE v[chain] \o p.hooks[chain] \in Seq(W)
    <3>1. p.hooks[chain] \in Seq(ToSet(p.hooks[chain]))
      BY <2>2 DEF IsHooks
    <3>2. ToSet(p.hooks[chain]) \subseteq W
      BY <2>2
    <3>3. p.hooks[chain] \in Seq(W)
      BY <3>1, <3>2
    <3>4. v[chain] \in Seq(W)
      BY <1>1
    <3> QED BY <3>3, <3>4
  <2>4. DOMAIN v = DOMAIN NoHooks
    BY <1>1
  <2>5. Op(v, p) = [chain \in DOMAIN NoHooks |-> v[chain] \o p.hooks[chain]]
    BY <2>4 DEF Merge
  <2> QED BY <1>1, <2>1, <2>3, <2>5
<1>5. \A i \in 1..n, v \in V : turn[<<i, v>>] \in V
  BY <1>3, <1>4
<1>6. NoHooks \in V
  <2>1. \A chain \in DOMAIN NoHooks : NoHooks[chain] = <<>>
    BY DEF NoHooks, Hooks
  <2>2. NoHooks = [chain \in DOMAIN NoHooks |-> NoHooks[chain]]
    BY DEF NoHooks, Hooks
  <2>3. <<>> \in Seq(W)
    OBVIOUS
  <2> HIDE DEF W
  <2> QED BY <1>1, <2>1, <2>2, <2>3
<1>7. PICK g : FoldsFrom(n, V, NoHooks, turn, g)
  <2>1. PICK start : start = NoHooks
    OBVIOUS
  <2> HIDE DEF turn
  <2> QED BY <1>2, <1>5, <1>6, <2>1, FoldRecursion
<1>8. Eq(g)
  <2>1. \A s \in SUBSET (1..n) : g[s] = IF s = {} THEN NoHooks ELSE Op(g[s \ {Max(s)}], plugins[Max(s)])
    <3> SUFFICES ASSUME NEW s \in SUBSET (1..n)
                 PROVE  g[s] = IF s = {} THEN NoHooks ELSE Op(g[s \ {Max(s)}], plugins[Max(s)])
      OBVIOUS
    <3>1. CASE s = {}
      BY <1>7, <3>1 DEF FoldsFrom
    <3>2. CASE s # {}
      <4>1. Max(s) \in 1..n /\ s \ {Max(s)} \in SUBSET (1..n)
        BY <1>2, <3>2, MaxOfPositions
      <4>2. g[s \ {Max(s)}] \in V
        BY <1>7, <4>1 DEF FoldsFrom
      <4>3. g[s] = turn[<<Max(s), g[s \ {Max(s)}]>>]
        BY <1>7, <3>2 DEF FoldsFrom
      <4> HIDE DEF turn, Op
      <4> QED BY <1>3, <3>2, <4>1, <4>2, <4>3
    <3> QED BY <3>1, <3>2
  <2>2. g = [s \in SUBSET (1..n) |-> g[s]]
    BY <1>7 DEF FoldsFrom
  <2> HIDE DEF Op
  <2> QED BY <1>2, <2>1, <2>2, Zenon
<1> DEFINE iter == CHOOSE f : Eq(f)
<1>9. Eq(iter)
  <2> HIDE DEF Eq
  <2> QED BY <1>8
<1>10. PluginHooks(plugins) = iter[DOMAIN plugins]
  BY Zenon DEF PluginHooks, FoldLeft, MapThenFoldSet, iter, Eq, Op
<1> HIDE DEF iter
<1> DEFINE h == [i \in 0..n |-> iter[1..i]]
<1>11. h[0] = NoHooks
  <2>1. 1..0 = {} /\ {} \in SUBSET DOMAIN plugins
    OBVIOUS
  <2>2. iter[{}] = NoHooks
    BY <1>9, <2>1
  <2> QED BY <1>2, <2>1, <2>2
<1>12. ASSUME NEW i \in 1..n PROVE h[i] = Merge(h[i - 1], plugins[i].hooks)
  <2>1. 1..i \in SUBSET (1..n) /\ 1..i # {} /\ Max(1..i) = i /\ (1..i) \ {i} = 1..(i - 1)
    BY <1>2, FirstPositions
  <2>2. iter[1..i] = Op(iter[(1..i) \ {i}], plugins[i])
    <3> HIDE DEF Op
    <3> QED BY <1>2, <1>9, <2>1
  <2>3. h[i] = iter[1..i] /\ h[i - 1] = iter[1..(i - 1)]
    BY <1>2
  <2> QED BY <2>1, <2>2, <2>3
<1>13. PluginHooks(plugins) = h[n]
  BY <1>2, <1>10
<1> HIDE DEF h
<1> QED BY <1>1, <1>11, <1>12, <1>13, Zenon

(* The merged hooks of the plugins are theirs, one after another.          *)
LEMMA MergedPlugins ==
  ASSUME NEW T, NEW plugins \in Seq(T), \A p \in T : IsHooks(p.hooks)
  PROVE  /\ DOMAIN PluginHooks(plugins) = DOMAIN NoHooks
         /\ \A chain \in DOMAIN NoHooks :
              PluginHooks(plugins)[chain] =
                FlattenSeq([i \in DOMAIN plugins |-> plugins[i].hooks[chain]])
<1>1. PICK n : n = Len(plugins)
  OBVIOUS
<1>2. n \in Nat /\ DOMAIN plugins = 1..n /\ \A i \in 1..n : plugins[i] \in T
  BY <1>1
<1>3. PICK h : /\ h[0] = NoHooks
               /\ \A i \in 1..n : h[i] = Merge(h[i - 1], plugins[i].hooks)
               /\ PluginHooks(plugins) = h[n]
  BY <1>1, MergeFold
<1> DEFINE S == {i \in 0..n : DOMAIN h[i] = DOMAIN NoHooks}
<1>4. 0 \in S
  BY <1>2, <1>3
<1>5. ASSUME NEW i \in 0..(n - 1), i \in S PROVE i + 1 \in S
  <2>1. i + 1 \in 1..n /\ i + 1 - 1 = i
    BY <1>2
  <2>2. h[i + 1] = Merge(h[i], plugins[i + 1].hooks)
    BY <1>3, <2>1
  <2> QED BY <1>2, <1>5, <2>1, <2>2 DEF Merge
<1>6. \A i \in 0..n : DOMAIN h[i] = DOMAIN NoHooks
  <2> HIDE DEF S
  <2>1. 0..n \subseteq S
    BY <1>2, <1>4, <1>5, IndexInduction
  <2> QED BY <2>1 DEF S
<1>7. ASSUME NEW chain \in DOMAIN NoHooks
      PROVE  PluginHooks(plugins)[chain] =
               FlattenSeq([i \in DOMAIN plugins |-> plugins[i].hooks[chain]])
  <2>1. PICK seqs : seqs = [i \in DOMAIN plugins |-> plugins[i].hooks[chain]]
    OBVIOUS
  <2>2. /\ Len(seqs) = n /\ DOMAIN seqs = 1..n
        /\ \A i \in 1..n : seqs[i] = plugins[i].hooks[chain]
    BY <1>2, <2>1
  <2>3. h[0][chain] = <<>>
    BY <1>3 DEF NoHooks, Hooks
  <2>4. \A i \in 1..n : h[i][chain] = h[i - 1][chain] \o seqs[i]
    <3> SUFFICES ASSUME NEW i \in 1..n PROVE h[i][chain] = h[i - 1][chain] \o seqs[i]
      OBVIOUS
    <3>1. h[i] = Merge(h[i - 1], plugins[i].hooks) /\ DOMAIN h[i - 1] = DOMAIN NoHooks
      BY <1>2, <1>3, <1>6
    <3> QED BY <2>2, <3>1 DEF Merge
  <2>5. CASE n = 0
    <3>1. FlattenSeq(seqs) = seqs
      BY <2>2, <2>5 DEF FlattenSeq
    <3>2. seqs = <<>>
      BY <1>2, <2>1, <2>5
    <3> QED BY <1>3, <2>1, <2>3, <2>5, <3>1, <3>2, Zenon
  <2>6. CASE n # 0
    <3> DEFINE Eq(f) == f = [i \in 1..Len(seqs) |-> IF i = 1 THEN seqs[i] ELSE f[i - 1] \o seqs[i]]
               g == [i \in 1..n |-> h[i][chain]]
               flatten == CHOOSE f : Eq(f)
    <3>1. h[1][chain] = seqs[1]
      <4>1. 1 \in 1..n /\ 1 - 1 = 0
        BY <1>2, <2>6
      <4>2. seqs[1] \in Seq(ToSet(seqs[1]))
        BY <1>2, <2>2, <4>1 DEF IsHooks
      <4>3. <<>> \o seqs[1] = seqs[1]
        BY <4>2
      <4> QED BY <2>3, <2>4, <4>1, <4>3, Zenon
    <3>2. \A i \in 1..n : g[i] = IF i = 1 THEN seqs[i] ELSE g[i - 1] \o seqs[i]
      <4>1. g[1] = seqs[1]
        BY <1>2, <2>6, <3>1
      <4>2. ASSUME NEW i \in 1..n, i # 1 PROVE g[i] = g[i - 1] \o seqs[i]
        <5>1. i - 1 \in 1..n /\ g[i] = h[i][chain] /\ g[i - 1] = h[i - 1][chain]
          BY <1>2, <4>2
        <5> HIDE DEF g
        <5> QED BY <2>4, <5>1
      <4> HIDE DEF g
      <4> QED BY <4>1, <4>2
    <3>3. Eq(g)
      BY <2>2, <3>2
    <3>4. Eq(flatten)
      <4> HIDE DEF Eq
      <4> QED BY <3>3
    <3>5. FlattenSeq(seqs) = flatten[n]
      BY <2>2, <2>6, Zenon DEF FlattenSeq, flatten, Eq
    <3> HIDE DEF flatten
    <3>6. \A i \in 1..n : flatten[i] = IF i = 1 THEN seqs[i] ELSE flatten[i - 1] \o seqs[i]
      BY <2>2, <3>4
    <3> DEFINE Q == {i \in 0..n : i # 0 => flatten[i] = g[i]}
    <3>7. 0 \in Q
      BY <1>2
    <3>8. ASSUME NEW i \in 0..(n - 1), i \in Q PROVE i + 1 \in Q
      <4>1. i + 1 \in 1..n /\ i + 1 - 1 = i
        BY <1>2
      <4>2. /\ flatten[i + 1] = IF i + 1 = 1 THEN seqs[i + 1] ELSE flatten[i] \o seqs[i + 1]
            /\ g[i + 1] = IF i + 1 = 1 THEN seqs[i + 1] ELSE g[i] \o seqs[i + 1]
        BY <3>2, <3>6, <4>1
      <4> HIDE DEF g
      <4>3. CASE i = 0
        BY <1>2, <4>2, <4>3
      <4>4. CASE i # 0
        <5>1. flatten[i] = g[i]
          BY <3>8, <4>4
        <5> QED BY <1>2, <4>2, <4>4, <5>1
      <4> QED BY <4>3, <4>4
    <3>9. flatten[n] = g[n]
      <4> HIDE DEF Q
      <4>1. 0..n \subseteq Q
        BY <1>2, <3>7, <3>8, IndexInduction
      <4> QED BY <1>2, <2>6, <4>1 DEF Q
    <3>10. g[n] = h[n][chain]
      BY <1>2, <2>6
    <3> QED BY <1>3, <2>1, <3>5, <3>9, <3>10, Zenon
  <2> QED BY <2>5, <2>6
<1>8. DOMAIN PluginHooks(plugins) = DOMAIN NoHooks
  BY <1>2, <1>3, <1>6
<1> QED BY <1>7, <1>8

------------------------------------------------------------------------------
(* What a setter does, field by field.                                     *)

(* The fields of the builders.                                             *)
ClientFields == {"base", "auth", "headers", "hooks", "plugins", "options", "reqwest", "custom", "registry"}
RequestFields == {"method", "path", "base", "params", "query", "headers", "body", "multipart",
                  "auth", "options"}

(* The client d after a call, field by field.                              *)
ClientAfter(c, call, d) ==
  /\ DOMAIN d = ClientFields
  /\ d.base    = IF call[1] = "base_url" THEN Some(call[2]) ELSE c.base
  /\ d.options = IF call[1] = "option" THEN Put(c.options, call[2], call[3]) ELSE c.options
  /\ d.auth    = IF call[1] = "auth" THEN Some(call[2]) ELSE c.auth
  /\ d.headers = IF call[1] = "default_header" THEN Put(c.headers, call[2], call[3])
                     ELSE c.headers
  /\ d.hooks   = IF call[1] = "hooks" THEN call[2] ELSE c.hooks
  /\ d.plugins = IF call[1] = "plugin" THEN Append(c.plugins, call[2]) ELSE c.plugins
  /\ d.reqwest = IF call[1] = "reqwest_client" THEN Some(call[2]) ELSE c.reqwest
  /\ d.custom  = IF call[1] = "backend" THEN Some(Both(<<call[2], "its own">>))
                     ELSE IF call[1] = "http_service" THEN Some(HttpService(c, call[2]))
                     ELSE IF call[1] = "transport_stack" THEN Some(TransportStack(c, call[2]))
                     ELSE c.custom

(* Every setter of the client changes its field and no other.              *)
LEMMA ClientConfigured ==
  ASSUME NEW c, DOMAIN c = ClientFields, NEW call, call[1] \in ClientSetters,
         NEW d, d = ConfigureClient(c, call)
  PROVE  ClientAfter(c, call, d)
<1>1. CASE call[1] = "base_url"
  <2>1. d = [c EXCEPT !.base = Some(call[2])]
    BY <1>1 DEF ConfigureClient
  <2> QED BY <1>1, <2>1 DEF ClientFields, ClientAfter
<1>2. CASE call[1] = "option"
  <2>1. d = [c EXCEPT !.options = Put(@, call[2], call[3])]
    BY <1>2 DEF ConfigureClient
  <2> QED BY <1>2, <2>1 DEF ClientFields, ClientAfter
<1>3. CASE call[1] = "auth"
  <2>1. d = [c EXCEPT !.auth = Some(call[2])]
    BY <1>3 DEF ConfigureClient
  <2> QED BY <1>3, <2>1 DEF ClientFields, ClientAfter
<1>4. CASE call[1] = "default_header"
  <2>1. d = [c EXCEPT !.headers = Put(@, call[2], call[3])]
    BY <1>4 DEF ConfigureClient
  <2> QED BY <1>4, <2>1 DEF ClientFields, ClientAfter
<1>5. CASE call[1] = "hooks"
  <2>1. d = [c EXCEPT !.hooks = call[2]]
    BY <1>5 DEF ConfigureClient
  <2> QED BY <1>5, <2>1 DEF ClientFields, ClientAfter
<1>6. CASE call[1] = "plugin"
  <2>1. d = [c EXCEPT !.plugins = Append(@, call[2])]
    BY <1>6 DEF ConfigureClient
  <2> QED BY <1>6, <2>1 DEF ClientFields, ClientAfter
<1>7. CASE call[1] = "reqwest_client"
  <2>1. d = [c EXCEPT !.reqwest = Some(call[2])]
    BY <1>7 DEF ConfigureClient
  <2> QED BY <1>7, <2>1 DEF ClientFields, ClientAfter
<1>8. CASE call[1] = "backend"
  <2>1. d = [c EXCEPT !.custom = Some(Both(<<call[2], "its own">>))]
    BY <1>8 DEF ConfigureClient
  <2> QED BY <1>8, <2>1 DEF ClientFields, ClientAfter
<1>9. CASE call[1] = "http_service"
  <2>1. d = [c EXCEPT !.custom = Some(HttpService(c, call[2]))]
    BY <1>9 DEF ConfigureClient
  <2> QED BY <1>9, <2>1 DEF ClientFields, ClientAfter
<1>10. CASE call[1] = "transport_stack"
  <2>1. d = [c EXCEPT !.custom = Some(TransportStack(c, call[2]))]
    BY <1>10 DEF ConfigureClient
  <2> QED BY <1>10, <2>1 DEF ClientFields, ClientAfter
<1>11. CASE call[1] = "schema_registry"
  <2>1. d = [c EXCEPT !.registry = TRUE]
    BY <1>11 DEF ConfigureClient
  <2> QED BY <1>11, <2>1 DEF ClientFields, ClientAfter
<1> QED BY <1>1, <1>2, <1>3, <1>4, <1>5, <1>6, <1>7, <1>8, <1>9, <1>10, <1>11 DEF ClientSetters

(* The setters that replace the body, and the body they set.               *)
BodySetters == {"json", "form", "body_stream", "body", "multipart"}
BodyOf(call) ==
  IF call[1] = "body_stream" THEN Stream
  ELSE IF call[1] = "multipart" THEN Empty ELSE Bytes(call[2])

(* The request d after a call, field by field.                             *)
RequestAfter(r, call, d) ==
  /\ DOMAIN d = RequestFields
  /\ d.method = r.method /\ d.path = r.path
  /\ d.base   = IF call[1] = "base_url" THEN Some(call[2]) ELSE r.base
  /\ d.params = IF call[1] = "params" THEN Extend(r.params, call[2]) ELSE r.params
  /\ d.query  = IF call[1] = "queries" THEN MergeQueries(r.query, call[2]) ELSE r.query
  /\ d.auth   = IF call[1] = "auth" THEN Some(call[2]) ELSE r.auth
  /\ d.options = IF call[1] = "option" THEN Put(r.options, call[2], call[3]) ELSE r.options
  /\ d.multipart = IF call[1] = "multipart" THEN TRUE ELSE r.multipart
  /\ d.headers =
           IF call[1] = "header" THEN Put(r.headers, call[2], call[3])
           ELSE IF call[1] = "content_type" THEN Put(r.headers, "content-type", call[2])
           ELSE IF call[1] \in DOMAIN Implied THEN OrInsert(r.headers, "content-type", Implied[call[1]])
           ELSE r.headers
  /\ d.body = IF call[1] \in BodySetters THEN BodyOf(call) ELSE r.body

(* Every setter of the request changes its fields and no other.            *)
LEMMA RequestConfigured ==
  ASSUME NEW r, DOMAIN r = RequestFields, NEW call, call[1] \in RequestSetters,
         NEW d, d = ConfigureRequest(r, call)
  PROVE  RequestAfter(r, call, d)
<1>1. CASE call[1] = "params"
  <2>1. d = [r EXCEPT !.params = Extend(@, call[2])]
    BY <1>1 DEF ConfigureRequest, SetParams
  <2> QED BY <1>1, <2>1 DEF RequestFields, RequestAfter, Implied, BodySetters, BodyOf
<1>2. CASE call[1] = "base_url"
  <2>1. d = [r EXCEPT !.base = Some(call[2])]
    BY <1>2 DEF ConfigureRequest
  <2> QED BY <1>2, <2>1 DEF RequestFields, RequestAfter, Implied, BodySetters, BodyOf
<1>3. CASE call[1] = "queries"
  <2>1. d = [r EXCEPT !.query = MergeQueries(@, call[2])]
    BY <1>3 DEF ConfigureRequest, SetQueries
  <2> QED BY <1>3, <2>1 DEF RequestFields, RequestAfter, Implied, BodySetters, BodyOf
<1>4. CASE call[1] = "header"
  <2>1. d = [r EXCEPT !.headers = Put(@, call[2], call[3])]
    BY <1>4 DEF ConfigureRequest, SetHeader
  <2> QED BY <1>4, <2>1 DEF RequestFields, RequestAfter, Implied, BodySetters, BodyOf
<1>5. CASE call[1] = "content_type"
  <2>1. d = [r EXCEPT !.headers = Put(@, "content-type", call[2])]
    BY <1>5 DEF ConfigureRequest, SetHeader
  <2> QED BY <1>5, <2>1 DEF RequestFields, RequestAfter, Implied, BodySetters, BodyOf
<1>6. CASE call[1] = "body"
  <2>1. d = [r EXCEPT !.body = Bytes(call[2])]
    BY <1>6 DEF ConfigureRequest, SetBody
  <2> QED BY <1>6, <2>1 DEF RequestFields, RequestAfter, Implied, BodySetters, BodyOf
<1>7. CASE call[1] = "auth"
  <2>1. d = [r EXCEPT !.auth = Some(call[2])]
    BY <1>7 DEF ConfigureRequest
  <2> QED BY <1>7, <2>1 DEF RequestFields, RequestAfter, Implied, BodySetters, BodyOf
<1>8. CASE call[1] = "option"
  <2>1. d = [r EXCEPT !.options = Put(@, call[2], call[3])]
    BY <1>8 DEF ConfigureRequest, SetOption
  <2> QED BY <1>8, <2>1 DEF RequestFields, RequestAfter, Implied, BodySetters, BodyOf
<1>9. CASE call[1] = "json"
  <2>1. d = [r EXCEPT !.body = Bytes(call[2]), !.headers = OrInsert(@, "content-type", "application/json")]
    BY <1>9 DEF ConfigureRequest, SetBodyAs
  <2> QED BY <1>9, <2>1 DEF RequestFields, RequestAfter, Implied, BodySetters, BodyOf
<1>10. CASE call[1] = "form"
  <2>1. d = [r EXCEPT !.body = Bytes(call[2]), !.headers = OrInsert(@, "content-type", "application/x-www-form-urlencoded")]
    BY <1>10 DEF ConfigureRequest, SetBodyAs
  <2> QED BY <1>10, <2>1 DEF RequestFields, RequestAfter, Implied, BodySetters, BodyOf
<1>11. CASE call[1] = "body_stream"
  <2>1. d = [r EXCEPT !.body = Stream, !.headers = OrInsert(@, "content-type", "application/octet-stream")]
    BY <1>11 DEF ConfigureRequest, SetBodyAs
  <2> QED BY <1>11, <2>1 DEF RequestFields, RequestAfter, Implied, BodySetters, BodyOf
<1>12. CASE call[1] = "multipart"
  <2>1. d = [r EXCEPT !.multipart = TRUE, !.body = Empty]
    BY <1>12 DEF ConfigureRequest, SetMultipart
  <2> QED BY <1>12, <2>1 DEF RequestFields, RequestAfter, Implied, BodySetters, BodyOf
<1> QED BY <1>1, <1>2, <1>3, <1>4, <1>5, <1>6, <1>7, <1>8, <1>9, <1>10, <1>11, <1>12 DEF RequestSetters

------------------------------------------------------------------------------
(* The client is what its calls make of it.                                *)

(* The last of a sequence, and of the settings of an option, if there is   *)
(* one.                                                                    *)
LastOf(seq) == IF seq = <<>> THEN None ELSE Some(Last(seq))
LastOption(log, s) ==
  LET made == OptionCalls(log, s) IN IF made = <<>> THEN None ELSE Some(Last(made)[3])

(* All calls of all programs.                                              *)
ClientCalls  == UNION {p.clientCalls \cup ToSet(p.preset) : p \in Programs}
RequestCalls == UNION {p.requestCalls : p \in Programs}

Unstarted == {"registry", "client", "start"}

(* The logs are of such calls; a request is there once it is started.      *)
LogsOK ==
  /\ clientLog \in Seq(ClientCalls)
  /\ requestLog \in Seq(RequestCalls)
  /\ phase \in Unstarted => request = None /\ requestLog = <<>>
  /\ phase \notin Unstarted \cup {"done"} \/ sent # None => DOMAIN request = RequestFields

(* The client holds what was set last.                                     *)
ClientOK ==
  /\ DOMAIN client = ClientFields
  /\ client.base = Argument(LastCall(clientLog, "base_url"), 2)
  /\ client.auth = Argument(LastCall(clientLog, "auth"), 2)
  /\ \A s : ValueOf(client.options, s) = LastOption(clientLog, s)
  /\ \A h : ValueOf(client.headers, h) = LastOf(Written(clientLog, h))
  /\ client.plugins = PluginsMade
  /\ client.hooks = LET own == LastCall(clientLog, "hooks")
                    IN  IF own = None THEN NoHooks ELSE own[1][2]
  /\ client.reqwest = Argument(LastCall(clientLog, "reqwest_client"), 2)

(* A map after an insertion and after or_insert.                           *)
LEMMA Overridden ==
  ASSUME NEW f, NEW a, NEW v, NEW x
  PROVE  /\ ValueOf(Put(f, a, v), x) = IF x = a THEN Some(v) ELSE ValueOf(f, x)
         /\ ValueOf(OrInsert(f, a, v), x) = IF x \in DOMAIN f THEN ValueOf(f, x)
                                        ELSE IF x = a THEN Some(v) ELSE None
BY DEF ValueOf, Put, OrInsert, Extend

(* The last setting of an option after one more call.                      *)
LEMMA LastOptionAppend ==
  ASSUME NEW T, NEW log \in Seq(T), NEW call \in T, NEW s
  PROVE  LastOption(Append(log, call), s) =
           IF call[1] = "option" /\ call[2] = s THEN Some(call[3]) ELSE LastOption(log, s)
<1>1. /\ OptionCalls(log, s) \in Seq(T)
      /\ OptionCalls(Append(log, call), s) =
           IF call[1] = "option" /\ call[2] = s THEN Append(OptionCalls(log, s), call)
           ELSE OptionCalls(log, s)
  BY OptionCallsAppend
<1>2. PICK made : made = OptionCalls(log, s)
  OBVIOUS
<1>3. made \in Seq(T) /\ Append(made, call) # <<>> /\ Last(Append(made, call)) = call
  BY <1>1, <1>2 DEF Last
<1> QED BY <1>1, <1>2, <1>3, Zenon DEF LastOption

(* The last of a sequence is what was appended to it.                      *)
LEMMA LastOfAppend ==
  ASSUME NEW T, NEW seq \in Seq(T), NEW v \in T
  PROVE  LastOf(Append(seq, v)) = Some(v)
<1>1. Append(seq, v) # <<>> /\ Append(seq, v)[Len(Append(seq, v))] = v
  OBVIOUS
<1> QED BY <1>1, Zenon DEF LastOf, Last

(* The last write of a header after one more call.                         *)
LEMMA LastWrittenAppend ==
  ASSUME NEW T, NEW log \in Seq(T), NEW call \in T, NEW h
  PROVE  LastOf(Written(Append(log, call), h)) =
           IF WritesHeader(call, h) THEN Some(HeaderValue(call)) ELSE LastOf(Written(log, h))
<1>1. PICK seq, longer, U : /\ seq = Written(log, h) /\ longer = Written(Append(log, call), h)
                            /\ U = {HeaderValue(c) : c \in T}
  OBVIOUS
<1>2. /\ seq \in Seq(U)
      /\ longer = IF WritesHeader(call, h) THEN Append(seq, HeaderValue(call)) ELSE seq
  BY <1>1, WrittenAppend
<1>3. HeaderValue(call) \in U
  BY <1>1
<1>4. PICK v : v = HeaderValue(call)
  OBVIOUS
<1>5. LastOf(Append(seq, v)) = Some(v)
  BY <1>2, <1>3, <1>4, LastOfAppend
<1> QED BY <1>1, <1>2, <1>4, <1>5, Zenon

(* A plugin is registered behind the others.                               *)
LEMMA PluginsAppend ==
  ASSUME LogsOK, NEW call \in ClientCalls, clientLog' = Append(clientLog, call)
  PROVE  PluginsMade' = IF call[1] = "plugin" THEN Append(PluginsMade, call[2]) ELSE PluginsMade
<1>1. PICK made, more : /\ made = CallsOf(clientLog, {"plugin"})
                        /\ more = CallsOf(Append(clientLog, call), {"plugin"})
  OBVIOUS
<1>2. made \in Seq(ClientCalls) /\ more = IF call[1] \in {"plugin"} THEN Append(made, call) ELSE made
  BY <1>1, CallsOfAppend DEF LogsOK
<1>3. /\ PluginsMade = [i \in DOMAIN made |-> made[i][2]]
      /\ PluginsMade' = [i \in DOMAIN more |-> more[i][2]]
  BY <1>1, Zenon DEF PluginsMade
<1>4. [i \in DOMAIN Append(made, call) |-> Append(made, call)[i][2]] =
        Append([i \in DOMAIN made |-> made[i][2]], call[2])
  BY <1>2
<1> QED BY <1>2, <1>3, <1>4

(* A setter keeps the client what its calls make of it.                    *)
LEMMA BuilderStep ==
  ASSUME LogsOK, ClientOK, NEW call \in ClientCalls, Builder(call)
  PROVE  ClientOK'
<1>1. client' = ConfigureClient(client, call) /\ clientLog' = Append(clientLog, call)
  BY DEF Builder
<1>2. IsClientCall(call)
  BY ProgramAssumption DEF ClientCalls, WellTyped
<1>3. call[1] \in ClientSetters /\ clientLog \in Seq(ClientCalls)
  BY <1>2 DEF IsClientCall, LogsOK
<1>4. \A setter : LastCall(clientLog', setter) =
                    IF call[1] = setter THEN Some(call) ELSE LastCall(clientLog, setter)
  BY <1>1, <1>3, LastCallAppend
<1>5. PICK c, d : c = client /\ d = client'
  OBVIOUS
<1>6. ClientAfter(client, call, d)
  <2>1. DOMAIN c = ClientFields /\ d = ConfigureClient(c, call)
    BY <1>1, <1>5 DEF ClientOK
  <2>2. ClientAfter(c, call, d)
    BY <1>3, <2>1, ClientConfigured
  <2> QED BY <1>5, <2>2
<1>7. \A i : Argument(Some(call), i) = Some(call[i]) /\ Some(call) # None /\ Some(call)[1] = call
  BY DEF Argument, Some, None
<1>8. /\ (d.base = Argument(LastCall(clientLog', "base_url"), 2))
      /\ (d.auth = Argument(LastCall(clientLog', "auth"), 2))
      /\ (d.reqwest = Argument(LastCall(clientLog', "reqwest_client"), 2))
  BY <1>4, <1>6, <1>7, Zenon DEF ClientAfter, ClientOK
<1>9. d.hooks = LET own == LastCall(clientLog', "hooks") IN IF own = None THEN NoHooks ELSE own[1][2]
  BY <1>4, <1>6, <1>7, Zenon DEF ClientAfter, ClientOK
<1>10. ASSUME NEW s PROVE ValueOf(d.options, s) = LastOption(clientLog', s)
  <2>1. LastOption(clientLog', s) =
          IF call[1] = "option" /\ call[2] = s THEN Some(call[3]) ELSE LastOption(clientLog, s)
    BY <1>1, <1>3, LastOptionAppend
  <2>2. ValueOf(Put(client.options, call[2], call[3]), s) =
          IF s = call[2] THEN Some(call[3]) ELSE ValueOf(client.options, s)
    BY Overridden
  <2>3. ValueOf(client.options, s) = LastOption(clientLog, s)
    BY DEF ClientOK
  <2> QED BY <1>6, <2>1, <2>2, <2>3, Zenon DEF ClientAfter
<1>11. ASSUME NEW h PROVE ValueOf(d.headers, h) = LastOf(Written(clientLog', h))
  <2>1. LastOf(Written(clientLog', h)) =
          IF WritesHeader(call, h) THEN Some(HeaderValue(call)) ELSE LastOf(Written(clientLog, h))
    BY <1>1, <1>3, LastWrittenAppend
  <2>2. ValueOf(Put(client.headers, call[2], call[3]), h) =
          IF h = call[2] THEN Some(call[3]) ELSE ValueOf(client.headers, h)
    BY Overridden
  <2>3. ValueOf(client.headers, h) = LastOf(Written(clientLog, h))
    BY DEF ClientOK
  <2>4. /\ WritesHeader(call, h) <=> call[1] = "default_header" /\ call[2] = h
        /\ call[1] = "default_header" => HeaderValue(call) = call[3]
    BY <1>3 DEF ClientSetters, WritesHeader, HeaderValue
  <2> QED BY <1>6, <2>1, <2>2, <2>3, <2>4, Zenon DEF ClientAfter
<1>12. d.plugins = PluginsMade'
  BY <1>1, <1>6, PluginsAppend DEF ClientAfter, ClientOK
<1> QED BY <1>5, <1>6, <1>8, <1>9, <1>10, <1>11, <1>12, Zenon DEF ClientAfter, ClientOK

------------------------------------------------------------------------------
(* The request is what its calls make of it.                               *)

BodySet == CallsOf(requestLog, DOMAIN Implied \cup {"body"})

(* What the builders have written of a header.                             *)
HeaderSet(h) ==
  LET own  == LastOf(Written(requestLog, h))
      past == LastOf(Written(clientLog, h))
  IN  IF own # None THEN own ELSE IF past # None THEN past
      ELSE IF h = "content-type" /\ BodyTypes # <<>> THEN Some(Implied[BodyTypes[1][1]])
      ELSE None

(* The request holds what was set last; a header or an option it was not   *)
(* given is the client's.                                                  *)
RequestOK ==
  /\ DOMAIN request = RequestFields
  /\ request.base = Argument(LastCall(requestLog, "base_url"), 2)
  /\ request.auth = Or(Argument(LastCall(requestLog, "auth"), 2), client.auth)
  /\ \A s : ValueOf(request.options, s) =
              Or(LastOption(requestLog, s), IF s \in Copied THEN LastOption(clientLog, s) ELSE None)
  /\ \A h : ValueOf(request.headers, h) = HeaderSet(h)
  /\ request.multipart = (CallsOf(requestLog, {"multipart"}) # <<>>)
  /\ ~request.multipart =>
       request.body = IF BodySet = <<>> THEN Empty ELSE BodyOf(Last(BodySet))
  /\ \A name : LET made == ParamCalls(requestLog, name)
               IN  /\ name \in DOMAIN request.params <=> made # <<>>
                   /\ made # <<>> => request.params[name] = Last(made)[2][name]

(* Of an empty log.                                                        *)
LEMMA NothingCalled ==
  /\ \A setters : CallsOf(<<>>, setters) = <<>>
  /\ \A setter : LastCall(<<>>, setter) = None
  /\ \A s : LastOption(<<>>, s) = None
  /\ \A h : LastOf(Written(<<>>, h)) = None
  /\ \A name : ParamCalls(<<>>, name) = <<>>
<1>1. \A setters : CallsOf(<<>>, setters) = <<>>
  BY SelectedEmpty DEF CallsOf
<1>2. \A setter : LastCall(<<>>, setter) = None
  BY <1>1, Zenon DEF LastCall
<1>3. \A s : LastOption(<<>>, s) = None
  BY SelectedEmpty, Zenon DEF LastOption, OptionCalls
<1>4. ASSUME NEW h PROVE LastOf(Written(<<>>, h)) = None
  <2>1. PICK made : made = Selected(<<>>, {i \in DOMAIN <<>> : WritesHeader(<<>>[i], h)})
    OBVIOUS
  <2>2. made = <<>>
    BY <2>1, SelectedEmpty
  <2>3. Written(<<>>, h) = [i \in DOMAIN made |-> HeaderValue(made[i])]
    BY <2>1, Zenon DEF Written
  <2>4. Written(<<>>, h) = <<>>
    BY <2>2, <2>3
  <2> QED BY <2>4 DEF LastOf
<1>5. \A name : ParamCalls(<<>>, name) = <<>>
  BY SelectedEmpty, Zenon DEF ParamCalls
<1> QED BY <1>1, <1>2, <1>3, <1>4, <1>5

(* A request starts as a copy of the client's settings.                    *)
LEMMA StartedRequest ==
  ASSUME ClientOK, requestLog = <<>>, UNCHANGED <<client, clientLog, requestLog>>,
         NEW method, NEW path, request' = ClientRequest(client, method, path)
  PROVE  RequestOK'
<1>1. PICK r : r = request'
  OBVIOUS
<1>2. /\ DOMAIN r = RequestFields
      /\ r.base = None /\ r.auth = client.auth /\ r.headers = client.headers
      /\ r.options = [o \in Copied \cap DOMAIN client.options |-> client.options[o]]
      /\ r.multipart = FALSE /\ r.body = Empty /\ r.params = <<>>
  BY <1>1 DEF ClientRequest, RequestFields
<1>3. Or(None, client.auth) = client.auth /\ Argument(None, 2) = None
  BY DEF Or, Argument
<1>4. r.base = Argument(LastCall(requestLog', "base_url"), 2)
      /\ r.auth = Or(Argument(LastCall(requestLog', "auth"), 2), client'.auth)
  BY <1>2, <1>3, NothingCalled
<1>5. ASSUME NEW s
      PROVE  ValueOf(r.options, s) =
              Or(LastOption(requestLog', s), IF s \in Copied THEN LastOption(clientLog', s) ELSE None)
  <2>1. ValueOf(r.options, s) = IF s \in Copied THEN ValueOf(client.options, s) ELSE None
    BY <1>2 DEF ValueOf
  <2>2. ValueOf(client.options, s) = LastOption(clientLog, s) /\ LastOption(requestLog', s) = None
    BY NothingCalled DEF ClientOK
  <2> QED BY <2>1, <2>2 DEF Or
<1>6. ASSUME NEW h PROVE ValueOf(r.headers, h) = HeaderSet(h)'
  <2>1. ValueOf(client.headers, h) = LastOf(Written(clientLog, h))
    BY DEF ClientOK
  <2>2. LastOf(Written(requestLog', h)) = None /\ BodyTypes' = <<>>
    BY NothingCalled DEF BodyTypes
  <2> QED BY <1>2, <2>1, <2>2 DEF HeaderSet
<1>7. CallsOf(requestLog', {"multipart"}) = <<>> /\ BodySet' = <<>>
  BY NothingCalled DEF BodySet
<1>8. \A name : ParamCalls(requestLog', name) = <<>> /\ name \notin DOMAIN r.params
  BY <1>2, NothingCalled
<1> QED BY <1>1, <1>2, <1>4, <1>5, <1>6, <1>7, <1>8 DEF RequestOK

(* A call of a setter has the effect of that setter, a malformed one none. *)
LEMMA ConfigureAfter ==
  ASSUME RequestOK, NEW call \in RequestCalls, Configure(call)
  PROVE  RequestAfter(request, call, request')
<1>1. call[1] \in RequestSetters \cup {"malformed"}
  BY ProgramAssumption DEF RequestCalls, WellTyped, IsRequestCall
<1>2. PICK r, d : r = request /\ d = request'
  OBVIOUS
<1>3. DOMAIN r = RequestFields
  BY <1>2 DEF RequestOK
<1>4. CASE call[1] = "malformed"
  <2>1. d = r
    BY <1>2, <1>4 DEF Configure
  <2>2. RequestAfter(r, call, d)
    BY <1>3, <1>4, <2>1 DEF RequestAfter, Implied, BodySetters
  <2> QED BY <1>2, <2>2
<1>5. CASE call[1] # "malformed"
  <2>1. d = ConfigureRequest(r, call) /\ call[1] \in RequestSetters
    BY <1>1, <1>2, <1>5 DEF Configure
  <2>2. RequestAfter(r, call, d)
    BY <1>3, <2>1, RequestConfigured
  <2> QED BY <1>2, <2>2
<1> QED BY <1>4, <1>5

(* The entries of an extended map.                                         *)
LEMMA ValueOfExtend ==
  ASSUME NEW f, NEW g, NEW x
  PROVE  /\ x \in DOMAIN Extend(f, g) <=> x \in DOMAIN f \/ x \in DOMAIN g
         /\ x \in DOMAIN g => Extend(f, g)[x] = g[x]
         /\ x \in DOMAIN f /\ x \notin DOMAIN g => Extend(f, g)[x] = f[x]
BY DEF Extend

(* A setter keeps the request what its calls make of it.                   *)
LEMMA ConfigureKeepsRequest ==
  ASSUME LogsOK, RequestOK, NEW call \in RequestCalls, Configure(call)
  PROVE  RequestOK'
<1>1. /\ requestLog' = Append(requestLog, call) /\ requestLog \in Seq(RequestCalls)
      /\ clientLog' = clientLog /\ client' = client
  BY DEF Configure, LogsOK
<1>2. PICK r, d, log : r = request /\ d = request' /\ log = requestLog
  OBVIOUS
<1>3. RequestAfter(r, call, d)
  BY <1>2, ConfigureAfter
<1>4. \A setter : LastCall(requestLog', setter) =
                    IF call[1] = setter THEN Some(call) ELSE LastCall(requestLog, setter)
  BY <1>1, LastCallAppend
<1>5. \A i : Argument(Some(call), i) = Some(call[i]) /\ Some(call) # None /\ Some(call)[1] = call
             /\ \A b : Or(Some(call[i]), b) = Some(call[i])
  BY DEF Argument, Some, None, Or
<1>6. d.base = Argument(LastCall(requestLog', "base_url"), 2)
  BY <1>2, <1>3, <1>4, <1>5, Zenon DEF RequestAfter, RequestOK
<1>7. d.auth = Or(Argument(LastCall(requestLog', "auth"), 2), client'.auth)
  <2>1. r.auth = Or(Argument(LastCall(requestLog, "auth"), 2), client.auth)
    BY <1>2 DEF RequestOK
  <2>2. CASE call[1] = "auth"
    <3>1. d.auth = Some(call[2])
      BY <1>3, <2>2 DEF RequestAfter
    <3>2. LastCall(requestLog', "auth") = Some(call)
      BY <1>4, <2>2
    <3> QED BY <1>5, <3>1, <3>2
  <2>3. CASE call[1] # "auth"
    <3>1. d.auth = r.auth
      BY <1>3, <2>3 DEF RequestAfter
    <3>2. LastCall(requestLog', "auth") = LastCall(requestLog, "auth")
      BY <1>4, <2>3
    <3> QED BY <1>1, <2>1, <3>1, <3>2
  <2> QED BY <2>2, <2>3
<1>8. ASSUME NEW s
      PROVE  ValueOf(d.options, s) =
              Or(LastOption(requestLog', s), IF s \in Copied THEN LastOption(clientLog', s) ELSE None)
  <2>1. LastOption(requestLog', s) =
          IF call[1] = "option" /\ call[2] = s THEN Some(call[3]) ELSE LastOption(requestLog, s)
    BY <1>1, LastOptionAppend
  <2>2. ValueOf(Put(r.options, call[2], call[3]), s) =
          IF s = call[2] THEN Some(call[3]) ELSE ValueOf(r.options, s)
    BY Overridden
  <2>3. ValueOf(r.options, s) =
          Or(LastOption(requestLog, s), IF s \in Copied THEN LastOption(clientLog, s) ELSE None)
    BY <1>2 DEF RequestOK
  <2>4. \A b : Or(Some(call[3]), b) = Some(call[3])
    BY <1>5
  <2> QED BY <1>1, <1>3, <2>1, <2>2, <2>3, <2>4, Zenon DEF RequestAfter
<1>9. ASSUME NEW setters
      PROVE  /\ CallsOf(requestLog, setters) \in Seq(RequestCalls)
             /\ CallsOf(requestLog', setters) =
                  IF call[1] \in setters THEN Append(CallsOf(requestLog, setters), call)
                  ELSE CallsOf(requestLog, setters)
  BY <1>1, CallsOfAppend
<1>10. ASSUME NEW h PROVE ValueOf(d.headers, h) = HeaderSet(h)'
  <2>1. LastOf(Written(requestLog', h)) =
          IF WritesHeader(call, h) THEN Some(HeaderValue(call)) ELSE LastOf(Written(requestLog, h))
    BY <1>1, LastWrittenAppend
  <2>2. /\ \A v : ValueOf(Put(r.headers, call[2], v), h) =
                    IF h = call[2] THEN Some(v) ELSE ValueOf(r.headers, h)
        /\ \A v : ValueOf(Put(r.headers, "content-type", v), h) =
                    IF h = "content-type" THEN Some(v) ELSE ValueOf(r.headers, h)
        /\ \A v : ValueOf(OrInsert(r.headers, "content-type", v), h) =
                    IF h \in DOMAIN r.headers THEN ValueOf(r.headers, h)
                    ELSE IF h = "content-type" THEN Some(v) ELSE None
    BY Overridden
  <2>3. /\ ValueOf(r.headers, h) = HeaderSet(h)
        /\ h \in DOMAIN r.headers <=> ValueOf(r.headers, h) # None
    BY <1>2 DEF RequestOK, ValueOf, Some, None
  <2>4. PICK types, more : types = BodyTypes /\ more = BodyTypes'
    OBVIOUS
  <2>5. types \in Seq(RequestCalls) /\ more = IF call[1] \in DOMAIN Implied THEN Append(types, call) ELSE types
    BY <1>9, <2>4 DEF BodyTypes
  <2>6. \A v : Some(v) # None
    BY DEF Some, None
  <2>7. CASE WritesHeader(call, h)
    <3>1. \/ call[1] = "header" /\ call[2] = h /\ HeaderValue(call) = call[3]
          \/ call[1] = "content_type" /\ h = "content-type" /\ HeaderValue(call) = call[2]
          \/ call[1] = "default_header"
      BY <2>7 DEF WritesHeader, HeaderValue
    <3>2. call[1] # "default_header"
      BY ProgramAssumption DEF RequestCalls, WellTyped, IsRequestCall, RequestSetters
    <3>3. ValueOf(d.headers, h) = Some(HeaderValue(call))
      BY <1>3, <2>2, <3>1, <3>2 DEF RequestAfter
    <3>4. HeaderSet(h)' = Some(HeaderValue(call))
      BY <2>1, <2>6, <2>7, Zenon DEF HeaderSet
    <3> QED BY <3>3, <3>4
  <2>8. CASE ~WritesHeader(call, h) /\ call[1] \in DOMAIN Implied
    <3>1. /\ d.headers = OrInsert(r.headers, "content-type", Implied[call[1]])
      BY <1>3, <2>8 DEF RequestAfter, Implied
    <3>2. more # <<>> /\ (types # <<>> => more[1] = types[1]) /\ (types = <<>> => more[1] = call)
      BY <2>5, <2>8
    <3>3. HeaderSet(h)' =
            IF LastOf(Written(requestLog, h)) # None THEN LastOf(Written(requestLog, h))
            ELSE IF LastOf(Written(clientLog, h)) # None THEN LastOf(Written(clientLog, h))
            ELSE IF h = "content-type" THEN Some(Implied[more[1][1]])
            ELSE None
      BY <1>1, <2>1, <2>4, <2>8, <3>2, Zenon DEF HeaderSet
    <3>4. HeaderSet(h) =
            IF LastOf(Written(requestLog, h)) # None THEN LastOf(Written(requestLog, h))
            ELSE IF LastOf(Written(clientLog, h)) # None THEN LastOf(Written(clientLog, h))
            ELSE IF h = "content-type" /\ types # <<>> THEN Some(Implied[types[1][1]])
            ELSE None
      BY <2>4, Zenon DEF HeaderSet
    <3>5. ValueOf(d.headers, h) = IF HeaderSet(h) # None THEN HeaderSet(h)
                                  ELSE IF h = "content-type" THEN Some(Implied[call[1]]) ELSE None
      BY <2>2, <2>3, <3>1
    <3> QED BY <2>6, <3>2, <3>3, <3>4, <3>5
  <2>9. CASE ~WritesHeader(call, h) /\ call[1] \notin DOMAIN Implied
    <3>1. BodyTypes' = BodyTypes
      BY <2>4, <2>5, <2>9
    <3>2. ValueOf(d.headers, h) = ValueOf(r.headers, h)
      <4>1. CASE call[1] = "header"
        BY <1>3, <2>2, <2>9, <4>1 DEF RequestAfter, WritesHeader
      <4>2. CASE call[1] = "content_type"
        BY <1>3, <2>2, <2>9, <4>2 DEF RequestAfter, WritesHeader
      <4> QED BY <1>3, <2>9, <4>1, <4>2 DEF RequestAfter
    <3>3. HeaderSet(h)' = HeaderSet(h)
      BY <1>1, <2>1, <2>9, <3>1, Zenon DEF HeaderSet
    <3> QED BY <2>3, <3>2, <3>3
  <2> QED BY <2>7, <2>8, <2>9
<1>11. d.multipart = (CallsOf(requestLog', {"multipart"}) # <<>>)
  <2>1. PICK made : made = CallsOf(requestLog, {"multipart"})
    OBVIOUS
  <2>2. made \in Seq(RequestCalls)
        /\ CallsOf(requestLog', {"multipart"}) = IF call[1] \in {"multipart"} THEN Append(made, call) ELSE made
    BY <1>9, <2>1
  <2>3. Append(made, call) # <<>>
    BY <2>2
  <2>4. r.multipart = (made # <<>>)
    BY <1>2, <2>1 DEF RequestOK
  <2>5. CASE call[1] = "multipart"
    BY <1>3, <2>2, <2>3, <2>5 DEF RequestAfter
  <2>6. CASE call[1] # "multipart"
    BY <1>3, <2>2, <2>4, <2>6 DEF RequestAfter
  <2> QED BY <2>5, <2>6
<1>12. ASSUME ~d.multipart
       PROVE  d.body = IF BodySet' = <<>> THEN Empty ELSE BodyOf(Last(BodySet'))
  <2>1. call[1] # "multipart" /\ ~r.multipart
    BY <1>3, <1>12 DEF RequestAfter
  <2>2. PICK set, more : set = BodySet /\ more = BodySet'
    OBVIOUS
  <2>3. set \in Seq(RequestCalls)
        /\ more = IF call[1] \in DOMAIN Implied \cup {"body"} THEN Append(set, call) ELSE set
    BY <1>9, <2>2 DEF BodySet
  <2>4. r.body = IF set = <<>> THEN Empty ELSE BodyOf(Last(set))
    BY <1>2, <2>1, <2>2 DEF RequestOK
  <2>5. DOMAIN Implied \cup {"body"} = BodySetters \ {"multipart"}
    BY DEF Implied, BodySetters
  <2>6. Append(set, call) # <<>> /\ Last(Append(set, call)) = call
    BY <2>3 DEF Last
  <2> QED BY <1>3, <2>1, <2>2, <2>3, <2>4, <2>5, <2>6, Zenon DEF RequestAfter
<1>13. ASSUME NEW name
       PROVE  LET made == ParamCalls(requestLog', name)
              IN  /\ name \in DOMAIN d.params <=> made # <<>>
                  /\ made # <<>> => d.params[name] = Last(made)[2][name]
  <2>1. PICK made, more : made = ParamCalls(requestLog, name) /\ more = ParamCalls(requestLog', name)
    OBVIOUS
  <2>2. /\ made \in Seq(RequestCalls)
        /\ more = IF call[1] = "params" /\ name \in DOMAIN call[2] THEN Append(made, call) ELSE made
    BY <1>1, <2>1, ParamCallsAppend
  <2>3. /\ name \in DOMAIN r.params <=> made # <<>>
        /\ made # <<>> => r.params[name] = Last(made)[2][name]
    BY <1>2, <2>1 DEF RequestOK
  <2>4. Append(made, call) # <<>> /\ Last(Append(made, call)) = call
    BY <2>2 DEF Last
  <2>5. /\ name \in DOMAIN Extend(r.params, call[2]) <=> name \in DOMAIN r.params \/ name \in DOMAIN call[2]
        /\ name \in DOMAIN call[2] => Extend(r.params, call[2])[name] = call[2][name]
        /\ name \in DOMAIN r.params /\ name \notin DOMAIN call[2] =>
             Extend(r.params, call[2])[name] = r.params[name]
    BY ValueOfExtend
  <2>6. CASE call[1] = "params" /\ name \in DOMAIN call[2]
    <3>1. d.params = Extend(r.params, call[2]) /\ more = Append(made, call)
      BY <1>3, <2>2, <2>6 DEF RequestAfter
    <3>2. (name \in DOMAIN d.params <=> more # <<>>) /\ (more # <<>> => d.params[name] = Last(more)[2][name])
      BY <2>4, <2>5, <2>6, <3>1
    <3> QED BY <2>1, <3>2
  <2>7. CASE call[1] = "params" /\ name \notin DOMAIN call[2]
    <3>1. d.params = Extend(r.params, call[2]) /\ more = made
      BY <1>3, <2>2, <2>7 DEF RequestAfter
    <3>2. (name \in DOMAIN d.params <=> more # <<>>) /\ (more # <<>> => d.params[name] = Last(more)[2][name])
      BY <2>3, <2>5, <2>7, <3>1
    <3> QED BY <2>1, <3>2
  <2>8. CASE call[1] # "params"
    <3>1. d.params = r.params /\ more = made
      BY <1>3, <2>2, <2>8 DEF RequestAfter
    <3>2. (name \in DOMAIN d.params <=> more # <<>>) /\ (more # <<>> => d.params[name] = Last(more)[2][name])
      BY <2>3, <3>1
    <3> QED BY <2>1, <3>2
  <2> QED BY <2>6, <2>7, <2>8
<1> QED BY <1>2, <1>3, <1>6, <1>7, <1>8, <1>10, <1>11, <1>12, <1>13 DEF RequestOK, RequestAfter

------------------------------------------------------------------------------
(* The chains of hooks and plugins.                                        *)

(* What is selected is there, and what is there is selected.               *)
LEMMA SelectedElements ==
  ASSUME NEW T, NEW seq \in Seq(T), NEW at
  PROVE  /\ \A j \in DOMAIN Selected(seq, at) :
              \E i \in DOMAIN seq : i \in at /\ Selected(seq, at)[j] = seq[i]
         /\ \A i \in DOMAIN seq : i \in at =>
              \E j \in DOMAIN Selected(seq, at) : Selected(seq, at)[j] = seq[i]
<1>1. PICK n : n = Len(seq)
  OBVIOUS
<1>2. n \in Nat /\ DOMAIN seq = 1..n /\ \A i \in 1..n : seq[i] \in T
  BY <1>1
<1>3. PICK g \in [0..n -> Seq(T)] : PickedBy(seq, at, g) /\ Selected(seq, at) = g[n]
  BY <1>1, SelectedDef
<1> DEFINE From(s) == \A j \in DOMAIN s : \E i \in DOMAIN seq : i \in at /\ s[j] = seq[i]
           All(k, s) == \A i \in 1..k : i \in at => \E j \in DOMAIN s : s[j] = seq[i]
           S == {k \in 0..n : From(g[k]) /\ All(k, g[k])}
<1>4. 0 \in S
  BY <1>2, <1>3 DEF PickedBy
<1>5. ASSUME NEW k \in 0..(n - 1), k \in S PROVE k + 1 \in S
  <2>1. k + 1 \in 1..n /\ k + 1 \in 0..n /\ k + 1 - 1 = k /\ k \in 0..n
    BY <1>2
  <2>2. PICK s, t, e : s = g[k] /\ t = g[k + 1] /\ e = seq[k + 1]
    OBVIOUS
  <2>3. s \in Seq(T) /\ e \in T /\ t = IF k + 1 \in at THEN Append(s, e) ELSE s
    <3>1. s \in Seq(T) /\ e \in T
      BY <1>2, <2>1, <2>2
    <3>2. g[k + 1] = IF k + 1 \in at THEN Append(g[k + 1 - 1], seq[k + 1]) ELSE g[k + 1 - 1]
      BY <1>1, <1>3, <2>1 DEF PickedBy
    <3> QED BY <2>1, <2>2, <3>1, <3>2
  <2>4. From(s) /\ All(k, s)
    BY <1>5, <2>2
  <2>5. From(t) /\ All(k + 1, t)
    <3>1. CASE k + 1 \in at
      <4>1. t = Append(s, e) /\ t # <<>> /\ Len(s) \in Nat /\ DOMAIN t = 1..(Len(s) + 1)
            /\ DOMAIN s = 1..Len(s) /\ t[Len(s) + 1] = e /\ \A j \in DOMAIN s : t[j] = s[j]
        BY <2>3, <3>1
      <4>2. ASSUME NEW j \in DOMAIN t PROVE \E i \in DOMAIN seq : i \in at /\ t[j] = seq[i]
        <5>1. CASE j = Len(s) + 1
          BY <1>2, <2>1, <2>2, <3>1, <4>1, <5>1
        <5>2. CASE j # Len(s) + 1
          <6>1. j \in DOMAIN s /\ t[j] = s[j]
            BY <4>1, <5>2
          <6> QED BY <2>4, <6>1
        <5> QED BY <5>1, <5>2
      <4>3. ASSUME NEW i \in 1..(k + 1), i \in at PROVE \E j \in DOMAIN t : t[j] = seq[i]
        <5>1. CASE i = k + 1
          <6>1. Len(s) + 1 \in DOMAIN t /\ t[Len(s) + 1] = seq[i]
            BY <2>2, <4>1, <5>1
          <6> QED BY <6>1
        <5>2. CASE i # k + 1
          <6>1. PICK j \in DOMAIN s : s[j] = seq[i]
            BY <2>1, <2>4, <4>3, <5>2
          <6> QED BY <2>3, <4>1, <6>1
        <5> QED BY <5>1, <5>2
      <4> QED BY <4>2, <4>3
    <3>2. CASE k + 1 \notin at
      <4>1. t = s /\ \A i \in 1..(k + 1) : i \in at => i \in 1..k
        BY <2>3, <3>2
      <4> QED BY <2>4, <4>1
    <3> QED BY <3>1, <3>2
  <2> HIDE DEF From, All
  <2> QED BY <2>1, <2>2, <2>5
<1>6. n \in S
  <2> HIDE DEF S
  <2>1. 0..n \subseteq S
    BY <1>2, <1>4, <1>5, IndexInduction
  <2> QED BY <1>2, <2>1
<1> QED BY <1>2, <1>3, <1>6

(* Without calls of some setters, no call is of one of them.               *)
LEMMA NothingSelected ==
  ASSUME NEW T, NEW log \in Seq(T), NEW setters, CallsOf(log, setters) = <<>>
  PROVE  \A i \in DOMAIN log : log[i][1] \notin setters
<1>1. PICK made : made = CallsOf(log, setters)
  OBVIOUS
<1>2. \A i \in DOMAIN log : log[i][1] \in setters => \E j \in DOMAIN made : made[j] = log[i]
  BY <1>1, SelectedElements DEF CallsOf
<1>3. DOMAIN made = {}
  BY <1>1
<1> QED BY <1>2, <1>3

(* The plugins of all programs.                                            *)
PluginsOf == {call[2] : call \in {c \in ClientCalls : c[1] = "plugin"}}

(* Hooks and plugins have effects that their contexts permit.              *)
HooksOK == IsHooks(client.hooks) /\ client.plugins \in Seq(PluginsOf)

(* So have those of all programs.                                          *)
LEMMA PluginsTyped ==
  \A p \in PluginsOf : p.init[1] \in Mutations /\ IsHooks(p.hooks)
<1> SUFFICES ASSUME NEW call \in ClientCalls, call[1] = "plugin"
             PROVE  call[2].init[1] \in Mutations /\ IsHooks(call[2].hooks)
  BY DEF PluginsOf
<1>1. IsClientCall(call)
  BY ProgramAssumption DEF ClientCalls, WellTyped
<1> QED BY <1>1 DEF IsClientCall

(* A setter keeps them so.                                                 *)
LEMMA HooksStep ==
  ASSUME LogsOK, ClientOK, HooksOK, NEW call \in ClientCalls, Builder(call)
  PROVE  HooksOK'
<1>1. IsClientCall(call)
  BY ProgramAssumption DEF ClientCalls, WellTyped
<1>2. PICK c, d : c = client /\ d = client'
  OBVIOUS
<1>3. DOMAIN c = ClientFields /\ d = ConfigureClient(c, call) /\ call[1] \in ClientSetters
  BY <1>1, <1>2 DEF ClientOK, Builder, IsClientCall
<1>4. ClientAfter(c, call, d)
  BY <1>3, ClientConfigured
<1>5. IsHooks(d.hooks)
  BY <1>1, <1>2, <1>4 DEF ClientAfter, HooksOK, IsClientCall
<1>6. d.plugins \in Seq(PluginsOf)
  <2>1. call[1] = "plugin" => call[2] \in PluginsOf
    BY DEF PluginsOf
  <2>2. c.plugins \in Seq(PluginsOf)
    BY <1>2 DEF HooksOK
  <2>3. d.plugins = IF call[1] = "plugin" THEN Append(c.plugins, call[2]) ELSE c.plugins
    BY <1>4 DEF ClientAfter
  <2>4. PICK plugins, plugin : plugins = c.plugins /\ plugin = call[2]
    OBVIOUS
  <2>5. CASE call[1] = "plugin"
    <3>1. Append(plugins, plugin) \in Seq(PluginsOf)
      BY <2>1, <2>2, <2>4, <2>5
    <3> QED BY <2>3, <2>4, <2>5, <3>1
  <2> QED BY <2>2, <2>3, <2>5
<1> QED BY <1>2, <1>5, <1>6 DEF HooksOK

(* The chains of the client are made of permitted effects.                 *)
LEMMA PluginChainType ==
  ASSUME NEW T, NEW plugins \in Seq(T), \A p \in T : IsHooks(p.hooks),
         NEW chain \in DOMAIN NoHooks
  PROVE  PluginHooks(plugins)[chain] \in Seq(UNION {ToSet(p.hooks[chain]) : p \in T})
<1> DEFINE E == UNION {ToSet(p.hooks[chain]) : p \in T}
<1>1. PICK n : n = Len(plugins)
  OBVIOUS
<1>2. n \in Nat /\ DOMAIN plugins = 1..n /\ \A i \in 1..n : plugins[i] \in T
  BY <1>1
<1>3. PICK h : /\ h[0] = NoHooks
               /\ \A i \in 1..n : h[i] = Merge(h[i - 1], plugins[i].hooks)
               /\ PluginHooks(plugins) = h[n]
  BY <1>1, MergeFold
<1> DEFINE S == {i \in 0..n : DOMAIN h[i] = DOMAIN NoHooks /\ h[i][chain] \in Seq(E)}
<1>4. 0 \in S
  <2>1. h[0][chain] = <<>> /\ DOMAIN h[0] = DOMAIN NoHooks
    BY <1>3 DEF NoHooks, Hooks
  <2>2. \A A : <<>> \in Seq(A)
    OBVIOUS
  <2>3. h[0][chain] \in Seq(E)
    <3> HIDE DEF E
    <3> QED BY <2>1, <2>2
  <2>4. 0 \in 0..n
    BY <1>2
  <2> HIDE DEF E
  <2> QED BY <2>1, <2>3, <2>4, Zenon
<1>5. ASSUME NEW i \in 0..(n - 1), i \in S PROVE i + 1 \in S
  <2>1. i + 1 \in 1..n /\ i + 1 \in 0..n /\ i + 1 - 1 = i
    BY <1>2
  <2>2. PICK a, b, p : a = h[i] /\ b = h[i + 1] /\ p = plugins[i + 1]
    OBVIOUS
  <2>3. p \in T /\ b = Merge(a, p.hooks)
    BY <1>2, <1>3, <2>1, <2>2
  <2>4. DOMAIN a = DOMAIN NoHooks /\ a[chain] \in Seq(E)
    BY <1>5, <2>2
  <2>5. b = [x \in DOMAIN NoHooks |-> a[x] \o p.hooks[x]]
    BY <2>3, <2>4 DEF Merge
  <2>6. PICK more : more = p.hooks[chain]
    OBVIOUS
  <2>7. more \in Seq(ToSet(more)) /\ ToSet(more) \subseteq E
    BY <2>3, <2>6 DEF IsHooks
  <2> HIDE DEF E
  <2>8. more \in Seq(E)
    BY <2>7
  <2>9. DOMAIN b = DOMAIN NoHooks /\ b[chain] = a[chain] \o more
    BY <2>5, <2>6
  <2>10. b[chain] \in Seq(E)
    BY <2>4, <2>8, <2>9
  <2> QED BY <2>1, <2>2, <2>9, <2>10
<1>6. n \in S
  <2> HIDE DEF S
  <2>1. 0..n \subseteq S
    BY <1>2, <1>4, <1>5, IndexInduction
  <2> QED BY <1>2, <2>1
<1> QED BY <1>3, <1>6

(* The chain that runs is the client's own and those of the plugins behind *)
(* it.                                                                     *)
LEMMA ChainOfClient ==
  ASSUME ClientOK, HooksOK, NEW chain \in DOMAIN NoHooks
  PROVE  /\ MergedHooks(client)[chain] = ChainMade(chain)
         /\ \E E : ChainMade(chain) \in Seq(E) /\ \A e \in E : e[1] \in Permitted[chain]
<1>1. PICK hooks, plugins, merged :
        hooks = client.hooks /\ plugins = client.plugins /\ merged = PluginHooks(plugins)
  OBVIOUS
<1>2. IsHooks(hooks) /\ plugins \in Seq(PluginsOf)
  BY <1>1 DEF HooksOK
<1>3. DOMAIN hooks = DOMAIN NoHooks
      /\ hooks[chain] \in Seq(ToSet(hooks[chain]))
      /\ \A e \in ToSet(hooks[chain]) : e[1] \in Permitted[chain]
  BY <1>2 DEF IsHooks
<1>4. MergedHooks(client)[chain] = hooks[chain] \o merged[chain]
  BY <1>1, <1>3 DEF MergedHooks, Merge
<1>5. merged[chain] = FlattenSeq([i \in DOMAIN plugins |-> plugins[i].hooks[chain]])
  BY <1>1, <1>2, PluginsTyped, MergedPlugins
<1>6. hooks[chain] = LET own == LastCall(clientLog, "hooks")
                     IN  IF own = None THEN <<>> ELSE own[1][2][chain]
  <2>1. NoHooks[chain] = <<>>
    BY DEF NoHooks, Hooks
  <2> QED BY <1>1, <2>1 DEF ClientOK
<1>7. MergedHooks(client)[chain] = ChainMade(chain)
  <2>1. plugins = PluginsMade
    BY <1>1 DEF ClientOK
  <2> QED BY <1>4, <1>5, <1>6, <2>1, Zenon DEF ChainMade
<1> DEFINE own == ToSet(hooks[chain])
           theirs == UNION {ToSet(p.hooks[chain]) : p \in PluginsOf}
           E == own \cup theirs
<1>8. merged[chain] \in Seq(theirs)
  BY <1>1, <1>2, PluginsTyped, PluginChainType
<1>9. \A e \in theirs : e[1] \in Permitted[chain]
  BY PluginsTyped DEF IsHooks
<1>10. \A e \in E : e[1] \in Permitted[chain]
  BY <1>3, <1>9
<1>11. MergedHooks(client)[chain] \in Seq(E)
  <2>1. own \subseteq E /\ theirs \subseteq E /\ hooks[chain] \in Seq(own)
    BY <1>3
  <2> HIDE DEF own, theirs, E
  <2>2. hooks[chain] \in Seq(E) /\ merged[chain] \in Seq(E)
    BY <1>8, <2>1
  <2> QED BY <1>4, <2>2
<1> QED BY <1>7, <1>10, <1>11

------------------------------------------------------------------------------
(* The transport, and all that the builders keep.                          *)

(* The setters of a stack, and the stack that a call makes over a reqwest  *)
(* client.                                                                 *)
Stacks == {"backend", "http_service", "transport_stack"}
StackOf(call, under) ==
  IF call[1] = "transport_stack" THEN Both(<<call[2], under>>)
  ELSE IF call[1] = "http_service"
  THEN [buffered |-> <<call[2], "its own">>, streaming |-> <<"plain", under>>]
  ELSE Both(<<call[2], "its own">>)

(* A stack is the one configured last, at a position of the log.           *)
LastStack(log, custom, at) ==
  /\ at \in StackCalls(log) /\ \A j \in StackCalls(log) : j <= at
  /\ custom = Some(StackOf(log[at], ReqwestUnder(SubSeq(log, 1, at))))

(* The client has such a stack, if one was configured.                     *)
TransportOK ==
  IF StackCalls(clientLog) = {} THEN client.custom = None
  ELSE \E at : LastStack(clientLog, client.custom, at)

(* All that the builders keep.                                             *)
BuiltOK ==
  /\ LogsOK /\ ClientOK /\ HooksOK /\ TransportOK
  /\ DOMAIN request = RequestFields => RequestOK

(* A setter keeps the stack the last one.                                  *)
LEMMA TransportStep ==
  ASSUME LogsOK, ClientOK, TransportOK, NEW call \in ClientCalls, Builder(call)
  PROVE  TransportOK'
<1>1. IsClientCall(call)
  BY ProgramAssumption DEF ClientCalls, WellTyped
<1>2. PICK c, d, log, longer, n :
        c = client /\ d = client' /\ log = clientLog /\ longer = clientLog' /\ n = Len(clientLog)
  OBVIOUS
<1>3. /\ log \in Seq(ClientCalls) /\ longer = Append(log, call) /\ n \in Nat /\ n = Len(log)
      /\ d = ConfigureClient(c, call) /\ DOMAIN c = ClientFields /\ call[1] \in ClientSetters
  BY <1>1, <1>2 DEF LogsOK, ClientOK, Builder, IsClientCall
<1>4. ClientAfter(c, call, d)
  BY <1>3, ClientConfigured
<1>5. /\ DOMAIN longer = 1..(n + 1) /\ longer[n + 1] = call /\ DOMAIN log = 1..n
      /\ \A i \in 1..n : longer[i] = log[i]
  BY <1>3
<1>6. OwnReqwest(c) = ReqwestUnder(log)
  <2>1. PICK made : made = LastCall(log, "reqwest_client")
    OBVIOUS
  <2>2. c.reqwest = Argument(made, 2)
    BY <1>2, <2>1 DEF ClientOK
  <2>3. ReqwestUnder(log) = IF made = None THEN "default" ELSE made[1][2]
    BY <2>1, Zenon DEF ReqwestUnder
  <2>4. CASE made = None
    BY <2>2, <2>3, <2>4 DEF OwnReqwest, Argument
  <2>5. CASE made # None
    <3>1. c.reqwest = Some(made[1][2])
      BY <2>2, <2>5 DEF Argument
    <3> QED BY <2>3, <2>5, <3>1 DEF OwnReqwest, Some, None
  <2> QED BY <2>4, <2>5
<1>7. CASE call[1] \in Stacks
  <2>1. d.custom = Some(StackOf(call, ReqwestUnder(log)))
    BY <1>4, <1>6, <1>7 DEF ClientAfter, StackOf, HttpService, TransportStack, Plain, Stacks
  <2>2. n + 1 \in StackCalls(longer) /\ \A j \in StackCalls(longer) : j <= n + 1
    BY <1>3, <1>5, <1>7 DEF StackCalls, Stacks
  <2>3. SubSeq(longer, 1, n + 1) = longer
    BY <1>3
  <2>4. LastCall(longer, "reqwest_client") = LastCall(log, "reqwest_client")
    <3>1. call[1] # "reqwest_client"
      BY <1>7 DEF Stacks
    <3> QED BY <1>3, <3>1, LastCallAppend
  <2>5. ReqwestUnder(longer) = ReqwestUnder(log)
    BY <2>4, Zenon DEF ReqwestUnder
  <2>6. LastStack(longer, d.custom, n + 1)
    BY <1>5, <2>1, <2>2, <2>3, <2>5, Zenon DEF LastStack
  <2> QED BY <1>2, <2>2, <2>6 DEF TransportOK
<1>8. CASE call[1] \notin Stacks
  <2>1. d.custom = c.custom
    BY <1>4, <1>8 DEF ClientAfter, Stacks
  <2>2. StackCalls(longer) = StackCalls(log)
    BY <1>3, <1>5, <1>8 DEF StackCalls, Stacks
  <2>3. ASSUME NEW at, LastStack(log, c.custom, at) PROVE LastStack(longer, d.custom, at)
    <3>1. at \in 1..n /\ longer[at] = log[at]
      BY <1>5, <2>3 DEF LastStack, StackCalls
    <3>2. SubSeq(longer, 1, at) = SubSeq(log, 1, at)
      BY <1>3, <3>1
    <3> QED BY <2>1, <2>2, <2>3, <3>1, <3>2, Zenon DEF LastStack
  <2> QED BY <1>2, <2>1, <2>2, <2>3 DEF TransportOK
<1> QED BY <1>7, <1>8

(* It holds when nothing is configured yet,                                *)
LEMMA InitBuilt == Init => BuiltOK
<1> SUFFICES ASSUME Init PROVE BuiltOK
  OBVIOUS
<1>1. /\ clientLog = <<>> /\ requestLog = <<>> /\ client = NewClient /\ request = None
      /\ phase = "registry" /\ sent = None
  BY DEF Init
<1>2. LogsOK
  BY <1>1 DEF LogsOK, Unstarted
<1>3. PluginsMade = <<>>
  <2>1. PICK made : made = CallsOf(clientLog, {"plugin"})
    OBVIOUS
  <2>2. made = <<>>
    BY <1>1, <2>1, NothingCalled
  <2>3. PluginsMade = [i \in DOMAIN made |-> made[i][2]]
    BY <2>1, Zenon DEF PluginsMade
  <2> QED BY <2>2, <2>3
<1>4. ClientOK
  <2>1. PICK c : c = client
    OBVIOUS
  <2>2. /\ DOMAIN c = ClientFields /\ c.base = None /\ c.auth = None /\ c.headers = <<>>
        /\ c.hooks = NoHooks /\ c.plugins = <<>> /\ c.options = <<>> /\ c.reqwest = None
    BY <1>1, <2>1 DEF NewClient, ClientFields
  <2>3. Argument(None, 2) = None /\ \A s : ValueOf(<<>>, s) = None
    BY DEF Argument, ValueOf
  <2> QED BY <1>1, <1>3, <2>1, <2>2, <2>3, NothingCalled DEF ClientOK
<1>5. HooksOK
  <2>1. PICK c : c = client
    OBVIOUS
  <2>2. c.hooks = NoHooks /\ c.plugins = <<>>
    BY <1>1, <2>1 DEF NewClient
  <2>3. IsHooks(NoHooks)
    <3>1. \A chain \in DOMAIN NoHooks : NoHooks[chain] = <<>>
      BY DEF NoHooks, Hooks
    <3>2. \A A : <<>> \in Seq(A) /\ ToSet(<<>>) = {}
      BY DEF ToSet
    <3> QED BY <3>1, <3>2 DEF IsHooks
  <2> QED BY <2>1, <2>2, <2>3 DEF HooksOK
<1>6. TransportOK
  <2>1. client.custom = None /\ StackCalls(clientLog) = {}
    BY <1>1 DEF NewClient, StackCalls
  <2> QED BY <2>1 DEF TransportOK
<1>7. DOMAIN request # RequestFields
  <2>1. DOMAIN request = {}
    BY <1>1 DEF None
  <2> QED BY <2>1 DEF RequestFields
<1> QED BY <1>2, <1>4, <1>5, <1>6, <1>7 DEF BuiltOK

(* in every step that configures nothing,                                  *)
LEMMA BuiltKept ==
  ASSUME BuiltOK, UNCHANGED <<client, request, clientLog, requestLog>>,
         phase' \in Unstarted => phase \in Unstarted,
         phase' \notin Unstarted \cup {"done"} \/ sent' # None
           => phase \notin Unstarted \cup {"done"} \/ sent # None
  PROVE  BuiltOK'
<1>1. LogsOK'
  BY DEF BuiltOK, LogsOK
<1>2. ClientOK'
  BY DEF BuiltOK, ClientOK, PluginsMade
<1>3. HooksOK' /\ TransportOK'
  BY DEF BuiltOK, HooksOK, TransportOK
<1>4. RequestOK => RequestOK'
  BY DEF RequestOK, HeaderSet, BodyTypes, BodySet
<1> QED BY <1>1, <1>2, <1>3, <1>4 DEF BuiltOK

(* and in those that do.                                                   *)
LEMMA BuiltStep ==
  ASSUME TypeOK, BuiltOK, [Next]_vars
  PROVE  BuiltOK'
<1>1. program \in Programs
  BY DEF TypeOK
<1>2. CASE \/ Register \/ MakeStrict \/ Build \/ (\E how \in program.ways : Send(how))
           \/ PrepareUrl \/ ApplyAuth \/ RunInitAll \/ RunOnRequest \/ Validate
           \/ (\E reply \in program.replies : Exchanged(reply))
           \/ RunOnResponse \/ Settle \/ Read \/ UNCHANGED vars
  <2>1. /\ UNCHANGED <<client, request, clientLog, requestLog>>
        /\ phase' \in Unstarted => phase \in Unstarted
        /\ phase' \notin Unstarted \cup {"done"} \/ sent' # None
             => phase \notin Unstarted \cup {"done"} \/ sent # None
    <3>1. CASE Register \/ MakeStrict \/ Build
      BY <3>1 DEF Register, MakeStrict, Build, Pass, Finish, Proceed, Unstarted, calls, answer
    <3>2. ASSUME NEW how, Send(how) PROVE <2>1
      BY <3>2 DEF Send, Proceed, Unstarted, answer
    <3>3. CASE PrepareUrl \/ ApplyAuth \/ Validate
      BY <3>3 DEF PrepareUrl, ApplyAuth, Validate, Pass, Finish, Proceed, Unstarted, calls, answer
    <3>4. CASE RunInitAll \/ RunOnRequest
      BY <3>4 DEF RunInitAll, RunOnRequest, Chain, Finish, Proceed, Unstarted, calls, answer
    <3>5. ASSUME NEW reply, Exchanged(reply) PROVE <2>1
      BY <3>5 DEF Exchanged, Pass, Finish, Proceed, Unstarted, calls
    <3>6. CASE RunOnResponse \/ Settle \/ Read
      BY <3>6 DEF RunOnResponse, Settle, Read, Pass, Finish, Proceed, Unstarted, calls, answer
    <3>7. CASE UNCHANGED vars
      BY <3>7 DEF vars, calls, answer
    <3> QED BY <1>2, <3>1, <3>2, <3>3, <3>4, <3>5, <3>6, <3>7
  <2> QED BY <2>1, BuiltKept
<1>3. ASSUME NEW call \in program.clientCalls \cup ToSet(program.preset), Builder(call)
      PROVE  BuiltOK'
  <2>1. call \in ClientCalls
    BY <1>1 DEF ClientCalls
  <2>2. /\ phase = "client" /\ phase' = "client" /\ clientLog' = Append(clientLog, call)
        /\ UNCHANGED <<request, requestLog, sent>>
    BY <1>3 DEF Builder, answer
  <2>3. LogsOK'
    BY <2>1, <2>2 DEF BuiltOK, LogsOK, Unstarted
  <2>4. ClientOK' /\ HooksOK' /\ TransportOK'
    BY <1>3, <2>1, BuilderStep, HooksStep, TransportStep DEF BuiltOK
  <2>5. DOMAIN request' # RequestFields
    <3>1. request' = None
      BY <2>2 DEF BuiltOK, LogsOK, Unstarted
    <3>2. DOMAIN request' = {}
      BY <3>1 DEF None
    <3> QED BY <3>2 DEF RequestFields
  <2> QED BY <2>3, <2>4, <2>5 DEF BuiltOK
<1>4. ASSUME NEW method, NEW path, phase = "start", phase' = "request",
             request' = ClientRequest(client, method, path),
             UNCHANGED <<client, clientLog, requestLog, sent>>
      PROVE  BuiltOK'
  <2>1. requestLog = <<>> /\ ClientOK
    BY <1>4 DEF BuiltOK, LogsOK, Unstarted
  <2>2. RequestOK'
    BY <1>4, <2>1, StartedRequest
  <2>3. LogsOK'
    BY <1>4, <2>2 DEF BuiltOK, LogsOK, Unstarted, RequestOK
  <2>4. ClientOK' /\ HooksOK' /\ TransportOK'
    BY <1>4 DEF BuiltOK, ClientOK, PluginsMade, HooksOK, TransportOK
  <2> QED BY <2>2, <2>3, <2>4 DEF BuiltOK
<1>5. CASE \E start \in program.starts : Start(start[1], start[2])
  BY <1>4, <1>5 DEF Start, Proceed, answer
<1>6. CASE \E e \in program.endpoints : Call(e)
  BY <1>4, <1>6 DEF Call, Proceed, answer
<1>7. ASSUME NEW call \in program.requestCalls, Configure(call)
      PROVE  BuiltOK'
  <2>1. call \in RequestCalls
    BY <1>1 DEF RequestCalls
  <2>2. /\ phase = "request" /\ phase' \in {"request", "done"} /\ sent' = sent
        /\ requestLog' = Append(requestLog, call) /\ UNCHANGED <<client, clientLog>>
    BY <1>7 DEF Configure, Finish, Proceed, answer
  <2>3. RequestOK
    BY <2>2 DEF BuiltOK, LogsOK, Unstarted
  <2>4. RequestOK'
    BY <1>7, <2>1, <2>3, ConfigureKeepsRequest DEF BuiltOK
  <2>5. LogsOK'
    BY <2>1, <2>2, <2>4 DEF BuiltOK, LogsOK, Unstarted, RequestOK
  <2>6. ClientOK' /\ HooksOK' /\ TransportOK'
    BY <2>2 DEF BuiltOK, ClientOK, PluginsMade, HooksOK, TransportOK
  <2> QED BY <2>4, <2>5, <2>6 DEF BuiltOK
<1> QED BY <1>2, <1>3, <1>5, <1>6, <1>7 DEF Next

------------------------------------------------------------------------------
(* The effects of plugins and hooks on what is sent.                       *)

(* The elements of two sequences joined.                                   *)
LEMMA Concatenated ==
  ASSUME NEW T, NEW a \in Seq(T), NEW b \in Seq(T)
  PROVE  /\ a \o b \in Seq(T) /\ Len(a \o b) = Len(a) + Len(b)
         /\ \A i \in 1..Len(a) : (a \o b)[i] = a[i]
         /\ \A i \in 1..Len(b) : (a \o b)[Len(a) + i] = b[i]
OBVIOUS

(* The effects on a request: those of the plugins, then those of the chain. *)
EffectsAre(plugins, chain) ==
  /\ Len(plugins) \in Nat /\ Len(chain) \in Nat
  /\ DOMAIN plugins = 1..Len(plugins)
  /\ Len(EffectsMade) = Len(plugins) + Len(chain)
  /\ \A i \in 1..Len(plugins) : EffectsMade[i] = plugins[i].init
  /\ \A i \in 1..Len(chain) : EffectsMade[Len(plugins) + i] = chain[i]
  /\ \E E : EffectsMade \in Seq(E) /\ \A e \in E : e[1] \in Mutations

(* The effects are those of the plugins' init followed by those of the     *)
(* on_request chain.                                                       *)
LEMMA EffectsSplit ==
  ASSUME ClientOK, HooksOK,
         NEW plugins, plugins = client.plugins,
         NEW chain, chain = MergedHooks(client).on_request
  PROVE  EffectsAre(plugins, chain)
<1>1. "on_request" \in DOMAIN NoHooks /\ NoHooks.on_request = NoHooks["on_request"]
  BY DEF NoHooks, Hooks
<1>2. PICK made : made = ChainMade("on_request")
  OBVIOUS
<1>3. chain = made
  BY <1>1, <1>2, ChainOfClient
<1>4. PICK E : made \in Seq(E) /\ \A e \in E : e[1] \in Permitted["on_request"]
  BY <1>1, <1>2, ChainOfClient
<1>5. plugins \in Seq(PluginsOf) /\ plugins = PluginsMade
  BY DEF HooksOK, ClientOK
<1> DEFINE inits == [i \in DOMAIN plugins |-> plugins[i].init]
           F == {p.init : p \in PluginsOf} \cup E
<1>6. EffectsMade = inits \o made
  BY <1>2, <1>5, Zenon DEF EffectsMade
<1>7. inits \in Seq(F) /\ Len(inits) = Len(plugins) /\ made \in Seq(F)
      /\ \A i \in 1..Len(plugins) : inits[i] = plugins[i].init
  BY <1>4, <1>5
<1>8. \A e \in F : e[1] \in Mutations
  <2>1. Permitted["on_request"] = Mutations
    BY DEF Permitted
  <2> QED BY <1>4, <2>1, PluginsTyped
<1>9. Len(plugins) \in Nat /\ DOMAIN plugins = 1..Len(plugins)
  BY <1>5
<1> HIDE DEF inits, F
<1>10. /\ EffectsMade \in Seq(F) /\ Len(EffectsMade) = Len(plugins) + Len(made)
       /\ \A i \in 1..Len(plugins) : EffectsMade[i] = inits[i]
       /\ \A i \in 1..Len(made) : EffectsMade[Len(plugins) + i] = made[i]
  <2>1. PICK a, G : a = inits /\ G = F
    OBVIOUS
  <2>2. a \in Seq(G) /\ made \in Seq(G)
    BY <1>7, <2>1, Zenon
  <2>3. /\ a \o made \in Seq(G) /\ Len(a \o made) = Len(a) + Len(made)
        /\ \A i \in 1..Len(a) : (a \o made)[i] = a[i]
        /\ \A i \in 1..Len(made) : (a \o made)[Len(a) + i] = made[i]
    BY <2>2, Concatenated
  <2> QED BY <1>6, <1>7, <2>1, <2>3, Zenon
<1>11. \A i \in 1..Len(plugins) : EffectsMade[i] = plugins[i].init
  BY <1>7, <1>10, Zenon
<1>12. /\ Len(EffectsMade) = Len(plugins) + Len(chain)
       /\ \A i \in 1..Len(chain) : EffectsMade[Len(plugins) + i] = chain[i]
  BY <1>3, <1>10, Zenon
<1>13. \E G : EffectsMade \in Seq(G) /\ \A e \in G : e[1] \in Mutations
  BY <1>8, <1>10, Zenon
<1>14. Len(chain) \in Nat
  BY <1>3, <1>4
<1> QED BY <1>9, <1>11, <1>12, <1>13, <1>14, Zenon DEF EffectsAre

(* What the request is before anything of it goes over the wire, after the *)
(* credentials and after some of the effects.                              *)
WireIs(w, authorized, made) ==
  /\ DOMAIN w = {"url", "method", "headers", "body"}
  /\ CallsOf(made, {"url"}) = <<>> => w.url = Built.url
  /\ w.method = LET methods == CallsOf(made, {"method"})
                IN  IF methods = <<>> THEN MethodOf(request) ELSE Last(methods)[2]
  /\ w.body = LET bodies == CallsOf(made, {"body"})
              IN  IF bodies = <<>> THEN BodyForContext(request.body) ELSE Last(bodies)[2]
  /\ \A h : ValueOf(w.headers, h) =
              IF LastOf(Written(made, h)) # None THEN LastOf(Written(made, h))
              ELSE IF authorized /\ Authorized(h) # <<>> THEN LastOf(Authorized(h))
              ELSE HeaderSet(h)

(* One more effect is the last of its kind and changes no other.           *)
LEMMA LastCallsAppend ==
  ASSUME NEW T, NEW log \in Seq(T), NEW call \in T, NEW setters
  PROVE  LET made == CallsOf(log, setters)
             more == CallsOf(Append(log, call), setters)
         IN  /\ call[1] \in setters => more # <<>> /\ Last(more) = call
             /\ call[1] \notin setters => more = made
<1>1. PICK made, more : made = CallsOf(log, setters) /\ more = CallsOf(Append(log, call), setters)
  OBVIOUS
<1>2. made \in Seq(T) /\ more = IF call[1] \in setters THEN Append(made, call) ELSE made
  BY <1>1, CallsOfAppend
<1>3. Append(made, call) # <<>> /\ Last(Append(made, call)) = call
  BY <1>2 DEF Last
<1> QED BY <1>1, <1>2, <1>3, Zenon

(* One more effect on what is sent is one more write.                      *)
LEMMA Mutated ==
  ASSUME NEW E, NEW made \in Seq(E), NEW effect \in E, effect[1] \in Mutations \ {"fail"},
         NEW w, WireIs(w, TRUE, made)
  PROVE  WireIs(Mutate(w, effect), TRUE, Append(made, effect))
<1>1. PICK c, more : c = Mutate(w, effect) /\ more = Append(made, effect)
  OBVIOUS
<1>2. \A setter :
        /\ effect[1] = setter => CallsOf(more, {setter}) # <<>> /\ Last(CallsOf(more, {setter})) = effect
        /\ effect[1] # setter => CallsOf(more, {setter}) = CallsOf(made, {setter})
  <2> TAKE setter
  <2>1. PICK setters : setters = {setter}
    OBVIOUS
  <2>2. /\ effect[1] \in setters =>
             CallsOf(more, setters) # <<>> /\ Last(CallsOf(more, setters)) = effect
        /\ effect[1] \notin setters => CallsOf(more, setters) = CallsOf(made, setters)
    BY <1>1, LastCallsAppend
  <2> QED BY <2>1, <2>2
<1>3. \A h : LastOf(Written(more, h)) =
               IF WritesHeader(effect, h) THEN Some(HeaderValue(effect)) ELSE LastOf(Written(made, h))
  BY <1>1, LastWrittenAppend
<1>4. /\ DOMAIN c = {"url", "method", "headers", "body"}
      /\ c.url = IF effect[1] = "url" THEN effect[2] ELSE w.url
      /\ c.method = IF effect[1] = "method" THEN effect[2] ELSE w.method
      /\ c.body = IF effect[1] = "body" THEN effect[2] ELSE w.body
      /\ c.headers = IF effect[1] = "header" THEN Put(w.headers, effect[2], effect[3]) ELSE w.headers
  <2>1. DOMAIN w = {"url", "method", "headers", "body"}
    BY DEF WireIs
  <2>2. CASE effect[1] = "none"
    <3>1. c = w
      BY <1>1, <2>2 DEF Mutate
    <3> QED BY <2>1, <2>2, <3>1
  <2>3. CASE effect[1] = "header"
    <3>1. c = [w EXCEPT !.headers = Put(@, effect[2], effect[3])]
      BY <1>1, <2>3 DEF Mutate
    <3> QED BY <2>1, <2>3, <3>1
  <2>4. CASE effect[1] = "url"
    <3>1. c = [w EXCEPT !["url"] = effect[2]]
      BY <1>1, <2>4 DEF Mutate
    <3> QED BY <2>1, <2>4, <3>1
  <2>5. CASE effect[1] = "method"
    <3>1. c = [w EXCEPT !["method"] = effect[2]]
      BY <1>1, <2>5 DEF Mutate
    <3> QED BY <2>1, <2>5, <3>1
  <2>6. CASE effect[1] = "body"
    <3>1. c = [w EXCEPT !["body"] = effect[2]]
      BY <1>1, <2>6 DEF Mutate
    <3> QED BY <2>1, <2>6, <3>1
  <2> QED BY <2>2, <2>3, <2>4, <2>5, <2>6 DEF Mutations
<1>5. CallsOf(more, {"url"}) = <<>> => c.url = Built.url
  BY <1>2, <1>4 DEF WireIs
<1>6. c.method = IF CallsOf(more, {"method"}) = <<>> THEN MethodOf(request)
                 ELSE Last(CallsOf(more, {"method"}))[2]
  <2>1. w.method = IF CallsOf(made, {"method"}) = <<>> THEN MethodOf(request)
                   ELSE Last(CallsOf(made, {"method"}))[2]
    BY Zenon DEF WireIs
  <2> QED BY <1>2, <1>4, <2>1, Zenon
<1>7. c.body = IF CallsOf(more, {"body"}) = <<>> THEN BodyForContext(request.body)
                 ELSE Last(CallsOf(more, {"body"}))[2]
  <2>1. w.body = IF CallsOf(made, {"body"}) = <<>> THEN BodyForContext(request.body)
                   ELSE Last(CallsOf(made, {"body"}))[2]
    BY Zenon DEF WireIs
  <2> QED BY <1>2, <1>4, <2>1, Zenon
<1>8. ASSUME NEW h
      PROVE  ValueOf(c.headers, h) =
              IF LastOf(Written(more, h)) # None THEN LastOf(Written(more, h))
              ELSE IF Authorized(h) # <<>> THEN LastOf(Authorized(h))
              ELSE HeaderSet(h)
  <2>1. ValueOf(w.headers, h) =
              IF LastOf(Written(made, h)) # None THEN LastOf(Written(made, h))
              ELSE IF Authorized(h) # <<>> THEN LastOf(Authorized(h))
              ELSE HeaderSet(h)
    BY Zenon DEF WireIs
  <2>2. /\ WritesHeader(effect, h) <=> effect[1] = "header" /\ effect[2] = h
        /\ WritesHeader(effect, h) => HeaderValue(effect) = effect[3]
    BY DEF WritesHeader, HeaderValue, Mutations
  <2>3. ValueOf(Put(w.headers, effect[2], effect[3]), h) =
          IF h = effect[2] THEN Some(effect[3]) ELSE ValueOf(w.headers, h)
    BY Overridden
  <2>4. Some(effect[3]) # None
    BY DEF Some, None
  <2> QED BY <1>3, <1>4, <2>1, <2>2, <2>3, <2>4, Zenon
<1> QED BY <1>1, <1>4, <1>5, <1>6, <1>7, <1>8, Zenon DEF WireIs

(* How many effects the plugins and the hooks have.                        *)
InitEffects == Len(client.plugins)
HookEffects == Len(MergedHooks(client).on_request)

(* The phases after an answer.                                             *)
Answered == {"answered", "settle", "read"}

(* What is prepared is, at every link of the chains, what the effects so   *)
(* far have made of it.                                                    *)
WireOK ==
  /\ phase \in Answered => sent # None
  /\ phase \in Unsent \cup {"auth"} => next = 1
  /\ phase = "auth" => WireIs(wire, FALSE, <<>>)
  /\ phase = "plugins" => next - 1 <= InitEffects /\ WireIs(wire, TRUE, SubSeq(EffectsMade, 1, next - 1))
  /\ phase = "hooks" => next - 1 <= HookEffects
                        /\ WireIs(wire, TRUE, SubSeq(EffectsMade, 1, InitEffects + next - 1))
  /\ phase \in {"validate", "call"} \/ sent # None => WireIs(wire, TRUE, EffectsMade)
  /\ sent # None => sent[1] = BuildHttpRequest

(* A step that leaves the builders alone says nothing new of it,           *)
LEMMA WireIsKept ==
  ASSUME UNCHANGED <<client, request, clientLog, requestLog>>,
         NEW w, NEW authorized, NEW made, WireIs(w, authorized, made)
  PROVE  WireIs(w, authorized, made)'
BY DEF WireIs, Built, Base, MethodOf, BodyForContext, Authorized, AuthMade, HeaderSet, BodyTypes

(* nor of the effects.                                                     *)
LEMMA EffectsKept ==
  ASSUME UNCHANGED <<client, clientLog>>
  PROVE  EffectsMade' = EffectsMade /\ InitEffects' = InitEffects /\ HookEffects' = HookEffects
BY DEF EffectsMade, PluginsMade, ChainMade, InitEffects, HookEffects

(* One link of a chain is one more effect.                                 *)
LEMMA ChainStep ==
  ASSUME ClientOK, HooksOK, next \in Nat \ {0}, NEW effects, NEW to, NEW skip \in Nat, to # "done",
         Len(effects) \in Nat, next - 1 <= Len(effects), skip + Len(effects) <= Len(EffectsMade),
         \A i \in 1..Len(effects) : effects[i] = EffectsMade[skip + i],
         WireIs(wire, TRUE, SubSeq(EffectsMade, 1, skip + next - 1)), Chain(effects, to)
  PROVE  \/ phase' = "done"
         \/ /\ phase' = to /\ next' = 1
            /\ WireIs(wire, TRUE, SubSeq(EffectsMade, 1, skip + Len(effects)))'
         \/ /\ phase' = phase /\ next' \in Nat \ {0} /\ next' - 1 <= Len(effects)
            /\ WireIs(wire, TRUE, SubSeq(EffectsMade, 1, skip + next - 1))'
<1>1. PICK all, E : all = EffectsMade /\ all \in Seq(E) /\ \A e \in E : e[1] \in Mutations
  <2>1. PICK plugins, chain : plugins = client.plugins /\ chain = MergedHooks(client).on_request
    OBVIOUS
  <2>2. EffectsAre(plugins, chain)
    BY <2>1, EffectsSplit
  <2> QED BY <2>2 DEF EffectsAre
<1>2. UNCHANGED <<client, request, clientLog, requestLog>>
  BY DEF Chain, calls
<1>3. EffectsMade' = all
  BY <1>1, <1>2, EffectsKept
<1>4. PICK n, w, v : n = Len(effects) /\ w = wire /\ v = wire'
  OBVIOUS
<1>5. CASE next > n
  <2>1. phase' = to /\ next' = 1 /\ v = w /\ next - 1 = n
    BY <1>4, <1>5 DEF Chain, Proceed
  <2>2. WireIs(w, TRUE, SubSeq(all, 1, skip + n))
    <3>1. skip + next - 1 = skip + n
      BY <1>4, <2>1
    <3> QED BY <1>1, <1>4, <3>1
  <2>3. WireIs(v, TRUE, SubSeq(all, 1, skip + n))'
    BY <1>2, <2>1, <2>2, WireIsKept
  <2> QED BY <1>3, <1>4, <2>1, <2>3
<1>6. CASE ~(next > n) /\ effects[next][1] = "fail"
  BY <1>4, <1>6 DEF Chain, Finish
<1>7. CASE ~(next > n) /\ effects[next][1] # "fail"
  <2>1. next' = next + 1 /\ v = Mutate(w, effects[next]) /\ phase' = phase
    BY <1>4, <1>7 DEF Chain
  <2>2. next \in 1..n /\ skip + next \in 1..Len(all) /\ Len(all) \in Nat
    BY <1>1, <1>4, <1>7
  <2>3. PICK effect, made, at : effect = effects[next] /\ made = SubSeq(all, 1, at - 1) /\ at = skip + next
    OBVIOUS
  <2>4. /\ at \in 1..Len(all) /\ effect = all[at] /\ effect \in E /\ effect[1] \in Mutations \ {"fail"}
        /\ made \in Seq(E)
    BY <1>1, <1>4, <1>7, <2>2, <2>3
  <2>5. SubSeq(all, 1, at) = Append(made, effect)
    <3>1. Len(made) = at - 1 /\ \A i \in 1..(at - 1) : made[i] = all[i]
      BY <1>1, <2>3, <2>4
    <3> QED BY <1>1, <2>3, <2>4, <3>1
  <2>6. WireIs(w, TRUE, made)
    <3>1. skip + next - 1 = at - 1
      BY <2>3
    <3> QED BY <1>1, <1>4, <2>3, <3>1
  <2>7. WireIs(Mutate(w, effect), TRUE, Append(made, effect))
    BY <2>4, <2>6, Mutated
  <2>8. WireIs(v, TRUE, SubSeq(all, 1, at))
    BY <2>1, <2>3, <2>5, <2>7
  <2>9. WireIs(v, TRUE, SubSeq(all, 1, at))'
    BY <1>2, <2>8, WireIsKept
  <2>10. at = skip + next' - 1
    BY <2>1, <2>3
  <2>11. WireIs(wire, TRUE, SubSeq(EffectsMade, 1, skip + next - 1))'
    BY <1>3, <1>4, <2>9, <2>10
  <2>12. next' \in Nat \ {0} /\ next' - 1 <= Len(effects)
    BY <1>4, <2>1, <2>2
  <2> QED BY <2>1, <2>11, <2>12
<1> QED BY <1>5, <1>6, <1>7

(* The first of it: the URL and what the builders wrote.                   *)
LEMMA PreparedWire ==
  ASSUME IInv, BuiltOK, WireOK, PrepareUrl
  PROVE  WireOK'
<1>1. phase = "prepare" /\ sent = None /\ sent' = None /\ next' = next
      /\ UNCHANGED <<client, request, clientLog, requestLog>>
  BY DEF PrepareUrl, calls, answer, IInv, SentOK
<1>2. CASE UrlError # "none"
  <2>1. phase' = "done"
    BY <1>2 DEF PrepareUrl, Pass, Finish
  <2> QED BY <1>1, <2>1 DEF WireOK, Unsent, Answered
<1>3. CASE UrlError = "none"
  <2>1. PICK w : w = [url |-> Built.url, method |-> MethodOf(request),
                   headers |-> request.headers, body |-> BodyForContext(request.body)]
    OBVIOUS
  <2>2. phase' = "auth" /\ wire' = w
    BY <1>3, <2>1 DEF PrepareUrl, Pass, Proceed
  <2>3. RequestOK
    BY <1>1 DEF BuiltOK, LogsOK, Unstarted
  <2>4. WireIs(w, FALSE, <<>>)
    <3>1. /\ DOMAIN w = {"url", "method", "headers", "body"} /\ w.url = Built.url
          /\ w.method = MethodOf(request) /\ w.body = BodyForContext(request.body)
          /\ w.headers = request.headers
      BY <2>1
    <3>2. \A h : ValueOf(request.headers, h) = HeaderSet(h)
      BY <2>3 DEF RequestOK
    <3> QED BY <3>1, <3>2, NothingCalled, Zenon DEF WireIs
  <2>5. WireIs(w, FALSE, <<>>)'
    BY <1>1, <2>4, WireIsKept
  <2>6. next' = 1
    BY <1>1 DEF WireOK, Unsent, Answered
  <2> QED BY <1>1, <2>2, <2>5, <2>6 DEF WireOK, Answered
<1> QED BY <1>2, <1>3

(* The credentials take the place of a header.                             *)
LEMMA AuthorizedWire ==
  ASSUME IInv, BuiltOK, WireOK, ApplyAuth
  PROVE  WireOK'
<1>1. phase = "auth" /\ sent = None /\ sent' = None /\ next' = next /\ next = 1
      /\ UNCHANGED <<client, request, clientLog, requestLog>> /\ WireIs(wire, FALSE, <<>>)
  BY DEF ApplyAuth, calls, answer, IInv, SentOK, WireOK
<1>2. PICK auth : auth = Or(request.auth, client.auth)
  OBVIOUS
<1>3. auth = AuthMade
  <2>1. /\ request.auth = Or(Argument(LastCall(requestLog, "auth"), 2), client.auth)
        /\ client.auth = Argument(LastCall(clientLog, "auth"), 2)
    BY <1>1 DEF BuiltOK, LogsOK, Unstarted, RequestOK, ClientOK
  <2> QED BY <1>2, <2>1 DEF AuthMade, Or
<1> DEFINE applies == auth # None /\ Resolves(auth[1])
<1>4. CASE applies /\ Unsendable(auth[1])
  <2>1. phase' = "done"
    BY <1>2, <1>4 DEF ApplyAuth, Pass, Finish
  <2> QED BY <1>1, <2>1 DEF WireOK, Unsent, Answered
<1>5. CASE ~(applies /\ Unsendable(auth[1]))
  <2>1. phase' = "plugins"
    BY <1>2, <1>5 DEF ApplyAuth, Pass, Proceed
  <2>2. PICK w, v : w = wire /\ v = wire'
    OBVIOUS
  <2>3. DOMAIN w = {"url", "method", "headers", "body"}
    BY <1>1, <2>2 DEF WireIs
  <2>4. v = IF applies THEN [w EXCEPT !.headers = Put(@, "authorization", Credential(auth[1]))] ELSE w
    BY <1>2, <2>2 DEF ApplyAuth
  <2>5. /\ DOMAIN v = DOMAIN w /\ v.url = w.url /\ v.method = w.method /\ v.body = w.body
        /\ v.headers = IF applies THEN Put(w.headers, "authorization", Credential(auth[1]))
                       ELSE w.headers
    BY <2>3, <2>4
  <2>6. ASSUME NEW h
        PROVE  ValueOf(v.headers, h) =
                 IF Authorized(h) # <<>> THEN LastOf(Authorized(h)) ELSE HeaderSet(h)
    <3>1. ValueOf(w.headers, h) = HeaderSet(h)
      BY <1>1, <2>2, NothingCalled, Zenon DEF WireIs
    <3>2. ValueOf(Put(w.headers, "authorization", Credential(auth[1])), h) =
            IF h = "authorization" THEN Some(Credential(auth[1])) ELSE ValueOf(w.headers, h)
      BY Overridden
    <3>3. Authorized(h) = IF h = "authorization" /\ applies THEN <<Credential(auth[1])>> ELSE <<>>
      BY <1>3 DEF Authorized
    <3>4. \A c : LastOf(<<c>>) = Some(c) /\ <<c>> # <<>>
      BY DEF LastOf, Last, Some
    <3> HIDE DEF applies
    <3> QED BY <2>5, <3>1, <3>2, <3>3, <3>4
  <2>7. WireIs(v, TRUE, <<>>)
    <3>1. /\ w.url = Built.url /\ w.method = MethodOf(request) /\ w.body = BodyForContext(request.body)
      BY <1>1, <2>2, NothingCalled, Zenon DEF WireIs
    <3>2. \A h : LastOf(Written(<<>>, h)) = None
      BY NothingCalled
    <3> HIDE DEF applies
    <3> QED BY <2>3, <2>5, <2>6, <3>1, <3>2, NothingCalled, Zenon DEF WireIs
  <2>8. WireIs(v, TRUE, <<>>)'
    BY <1>1, <2>7, WireIsKept
  <2>9. SubSeq(EffectsMade', 1, next' - 1) = <<>> /\ next' = 1 /\ InitEffects' \in Nat
    <3>1. PICK all : all = EffectsMade'
      OBVIOUS
    <3>2. SubSeq(all, 1, 0) = <<>>
      OBVIOUS
    <3>3. next' = 1 /\ next' - 1 = 0
      BY <1>1
    <3>4. InitEffects \in Nat
      BY DEF BuiltOK, HooksOK, InitEffects
    <3> QED BY <1>1, <3>1, <3>2, <3>3, <3>4, EffectsKept
  <2>10. next' - 1 <= InitEffects'
    BY <2>9
  <2> HIDE DEF applies
  <2> QED BY <1>1, <2>1, <2>2, <2>8, <2>9, <2>10 DEF WireOK, Unsent, Answered
<1> QED BY <1>4, <1>5

(* The plugins' init, one after the other.                                 *)
LEMMA InitEffectsWire ==
  ASSUME IInv, BuiltOK, WireOK, RunInitAll
  PROVE  WireOK'
<1>1. PICK plugins, chain, effects :
        /\ plugins = client.plugins /\ chain = MergedHooks(client).on_request
        /\ effects = [i \in DOMAIN plugins |-> plugins[i].init]
  OBVIOUS
<1>2. /\ phase = "plugins" /\ sent = None /\ sent' = None /\ Chain(effects, "hooks")
      /\ next \in Nat \ {0} /\ next - 1 <= Len(plugins)
      /\ WireIs(wire, TRUE, SubSeq(EffectsMade, 1, next - 1))
      /\ UNCHANGED <<client, request, clientLog, requestLog>>
  BY <1>1 DEF RunInitAll, Chain, calls, answer, IInv, SentOK, TypeOK, WireOK, InitEffects
<1>3. ClientOK /\ HooksOK
  BY DEF BuiltOK
<1>4. /\ Len(plugins) \in Nat /\ Len(chain) \in Nat /\ DOMAIN plugins = 1..Len(plugins)
      /\ Len(EffectsMade) = Len(plugins) + Len(chain)
      /\ \A i \in 1..Len(plugins) : EffectsMade[i] = plugins[i].init
  <2>1. EffectsAre(plugins, chain)
    BY <1>1, <1>3, EffectsSplit
  <2> QED BY <2>1 DEF EffectsAre
<1>5. Len(effects) = Len(plugins) /\ \A i \in 1..Len(effects) : effects[i] = EffectsMade[i]
  <2>1. PICK n : n = Len(plugins)
    OBVIOUS
  <2>2. effects = [i \in 1..n |-> plugins[i].init] /\ n \in Nat
    BY <1>1, <1>4, <2>1
  <2>3. Len(effects) = n /\ \A i \in 1..n : effects[i] = plugins[i].init
    BY <2>2
  <2> QED BY <1>4, <2>1, <2>3
<1>6. \/ phase' = "done"
      \/ /\ phase' = "hooks" /\ next' = 1
         /\ WireIs(wire, TRUE, SubSeq(EffectsMade, 1, Len(effects)))'
      \/ /\ phase' = phase /\ next' \in Nat \ {0} /\ next' - 1 <= Len(effects)
         /\ WireIs(wire, TRUE, SubSeq(EffectsMade, 1, next - 1))'
  <2>1. PICK skip : skip = 0
    OBVIOUS
  <2>2. /\ skip \in Nat /\ skip + Len(effects) <= Len(EffectsMade) /\ Len(effects) \in Nat
        /\ \A i \in 1..Len(effects) : effects[i] = EffectsMade[skip + i]
        /\ skip + next - 1 = next - 1
    BY <1>2, <1>4, <1>5, <2>1
  <2>3. WireIs(wire, TRUE, SubSeq(EffectsMade, 1, skip + next - 1)) /\ next - 1 <= Len(effects)
    BY <1>2, <1>5, <2>2
  <2>4. \/ phase' = "done"
        \/ /\ phase' = "hooks" /\ next' = 1
           /\ WireIs(wire, TRUE, SubSeq(EffectsMade, 1, skip + Len(effects)))'
        \/ /\ phase' = phase /\ next' \in Nat \ {0} /\ next' - 1 <= Len(effects)
           /\ WireIs(wire, TRUE, SubSeq(EffectsMade, 1, skip + next - 1))'
    BY <1>2, <1>3, <2>2, <2>3, ChainStep
  <2>5. skip + Len(effects) = Len(effects) /\ (next' \in Nat => skip + next' - 1 = next' - 1)
    BY <2>1, <2>2
  <2> QED BY <2>4, <2>5
<1>7. InitEffects' = Len(effects) /\ HookEffects' \in Nat
  <2>1. InitEffects = Len(effects) /\ HookEffects = Len(chain)
    BY <1>1, <1>5 DEF InitEffects, HookEffects
  <2> QED BY <1>2, <1>4, <2>1, EffectsKept
<1>8. CASE phase' = "done"
  BY <1>2, <1>8 DEF WireOK, Unsent, Answered
<1>9. CASE /\ phase' = "hooks" /\ next' = 1
           /\ WireIs(wire, TRUE, SubSeq(EffectsMade, 1, Len(effects)))'
  <2>1. InitEffects' + next' - 1 = Len(effects) /\ next' - 1 <= HookEffects'
    BY <1>4, <1>5, <1>7, <1>9
  <2>2. WireIs(wire, TRUE, SubSeq(EffectsMade, 1, InitEffects + next - 1))'
    BY <1>9, <2>1
  <2> QED BY <1>2, <1>9, <2>1, <2>2 DEF WireOK, Unsent, Answered
<1>10. CASE /\ phase' = phase /\ next' \in Nat \ {0} /\ next' - 1 <= Len(effects)
            /\ WireIs(wire, TRUE, SubSeq(EffectsMade, 1, next - 1))'
  BY <1>2, <1>7, <1>10 DEF WireOK, Unsent, Answered
<1> QED BY <1>6, <1>8, <1>9, <1>10

(* The on_request hooks, one after the other.                              *)
LEMMA HookEffectsWire ==
  ASSUME IInv, BuiltOK, WireOK, RunOnRequest
  PROVE  WireOK'
<1>1. PICK plugins, effects :
        plugins = client.plugins /\ effects = MergedHooks(client).on_request
  OBVIOUS
<1>2. /\ phase = "hooks" /\ sent = None /\ sent' = None /\ Chain(effects, "validate")
      /\ next \in Nat \ {0} /\ next - 1 <= Len(effects)
      /\ WireIs(wire, TRUE, SubSeq(EffectsMade, 1, Len(plugins) + next - 1))
      /\ UNCHANGED <<client, request, clientLog, requestLog>>
  BY <1>1 DEF RunOnRequest, Chain, calls, answer, IInv, SentOK, TypeOK, WireOK, InitEffects, HookEffects
<1>3. ClientOK /\ HooksOK
  BY DEF BuiltOK
<1>4. /\ Len(plugins) \in Nat /\ Len(effects) \in Nat
      /\ Len(EffectsMade) = Len(plugins) + Len(effects)
      /\ \A i \in 1..Len(effects) : EffectsMade[Len(plugins) + i] = effects[i]
      /\ \E E : EffectsMade \in Seq(E)
  <2>1. EffectsAre(plugins, effects)
    BY <1>1, <1>3, EffectsSplit
  <2> QED BY <2>1, Zenon DEF EffectsAre
<1>5. PICK skip : skip = Len(plugins)
  OBVIOUS
<1>6. \/ phase' = "done"
      \/ /\ phase' = "validate" /\ next' = 1
         /\ WireIs(wire, TRUE, SubSeq(EffectsMade, 1, skip + Len(effects)))'
      \/ /\ phase' = phase /\ next' \in Nat \ {0} /\ next' - 1 <= Len(effects)
         /\ WireIs(wire, TRUE, SubSeq(EffectsMade, 1, skip + next - 1))'
  <2>1. /\ skip \in Nat /\ skip + Len(effects) <= Len(EffectsMade)
        /\ \A i \in 1..Len(effects) : effects[i] = EffectsMade[skip + i]
    BY <1>4, <1>5
  <2>2. WireIs(wire, TRUE, SubSeq(EffectsMade, 1, skip + next - 1))
    BY <1>2, <1>5
  <2> QED BY <1>2, <1>3, <1>4, <2>1, <2>2, ChainStep
<1>7. InitEffects' = skip /\ HookEffects' = Len(effects) /\ EffectsMade' = EffectsMade
  <2>1. InitEffects = skip /\ HookEffects = Len(effects)
    BY <1>1, <1>5 DEF InitEffects, HookEffects
  <2> QED BY <1>2, <2>1, EffectsKept
<1>8. CASE phase' = "done"
  BY <1>2, <1>8 DEF WireOK, Unsent, Answered
<1>9. CASE /\ phase' = "validate" /\ next' = 1
           /\ WireIs(wire, TRUE, SubSeq(EffectsMade, 1, skip + Len(effects)))'
  <2>1. PICK all : all = EffectsMade
    OBVIOUS
  <2>2. SubSeq(all, 1, skip + Len(effects)) = all
    <3>1. skip + Len(effects) = Len(all) /\ \E E : all \in Seq(E)
      BY <1>4, <1>5, <2>1
    <3> QED BY <3>1
  <2>3. WireIs(wire, TRUE, EffectsMade)'
    BY <1>7, <1>9, <2>1, <2>2
  <2> QED BY <1>2, <1>9, <2>3 DEF WireOK, Unsent, Answered
<1>10. CASE /\ phase' = phase /\ next' \in Nat \ {0} /\ next' - 1 <= Len(effects)
            /\ WireIs(wire, TRUE, SubSeq(EffectsMade, 1, skip + next - 1))'
  BY <1>2, <1>7, <1>10 DEF WireOK, Unsent, Answered
<1> QED BY <1>6, <1>8, <1>9, <1>10

(* A step that leaves the wire and what was configured alone.              *)
LEMMA WireKept ==
  ASSUME WireOK, UNCHANGED <<client, request, clientLog, requestLog, way, wire>>,
         phase \in {"validate", "call"} \/ sent # None,
         phase' \notin Unsent \cup {"auth", "plugins", "hooks"},
         sent' = sent \/ sent' = Some(BuildHttpRequest),
         phase' \in Answered => sent' # None
  PROVE  WireOK'
<1>1. PICK w, all : w = wire /\ all = EffectsMade
  OBVIOUS
<1>2. WireIs(w, TRUE, all)
  BY <1>1 DEF WireOK
<1>3. WireIs(w, TRUE, all)'
  BY <1>2, WireIsKept
<1>4. WireIs(wire, TRUE, EffectsMade)'
  BY <1>1, <1>3, EffectsKept
<1>5. BuildHttpRequest' = BuildHttpRequest
  BY DEF BuildHttpRequest, RequestBody, Streaming
<1>6. sent' # None => sent'[1] = BuildHttpRequest'
  <2>1. Some(BuildHttpRequest)[1] = BuildHttpRequest
    BY DEF Some
  <2>2. CASE sent' = sent
    BY <1>5, <2>2 DEF WireOK
  <2>3. CASE sent' = Some(BuildHttpRequest)
    BY <1>5, <2>1, <2>3
  <2> QED BY <2>2, <2>3
<1> QED BY <1>4, <1>6 DEF WireOK, Unsent, Answered

(* Every step keeps it.                                                    *)
LEMMA WireStep ==
  ASSUME IInv, BuiltOK, WireOK, [Next]_vars
  PROVE  WireOK'
<1>1. CASE \/ Register \/ MakeStrict \/ (\E call \in program.clientCalls \cup ToSet(program.preset) : Builder(call))
           \/ Build \/ (\E start \in program.starts : Start(start[1], start[2]))
           \/ (\E e \in program.endpoints : Call(e))
           \/ (\E call \in program.requestCalls : Configure(call))
           \/ (\E how \in program.ways : Send(how))
  <2>1. phase \in Unsent /\ phase' \in Unsent \cup {"done"} /\ sent' = sent /\ next' = next
    <3>1. CASE Register \/ MakeStrict \/ Build
      BY <3>1 DEF Register, MakeStrict, Build, Pass, Finish, Proceed, Unsent, answer
    <3>2. ASSUME NEW call, Builder(call) PROVE <2>1
      BY <3>2 DEF Builder, Unsent, answer
    <3>3. ASSUME NEW method, NEW path, Start(method, path) PROVE <2>1
      BY <3>3 DEF Start, Proceed, Unsent, answer
    <3>4. ASSUME NEW e, Call(e) PROVE <2>1
      BY <3>4 DEF Call, Proceed, Unsent, answer
    <3>5. ASSUME NEW call, Configure(call) PROVE <2>1
      BY <3>5 DEF Configure, Finish, Proceed, Unsent, answer
    <3>6. ASSUME NEW how, Send(how) PROVE <2>1
      BY <3>6 DEF Send, Proceed, Unsent, answer
    <3> QED BY <1>1, <3>1, <3>2, <3>3, <3>4, <3>5, <3>6
  <2>2. sent = None
    BY <2>1 DEF IInv, SentOK, Unsent
  <2> QED BY <2>1, <2>2 DEF WireOK, Unsent, Answered
<1>2. CASE PrepareUrl \/ ApplyAuth \/ RunInitAll \/ RunOnRequest
  BY <1>2, PreparedWire, AuthorizedWire, InitEffectsWire, HookEffectsWire
<1>3. CASE \/ Validate \/ (\E reply \in program.replies : Exchanged(reply))
           \/ RunOnResponse \/ Settle \/ Read
  <2>1. /\ UNCHANGED <<client, request, clientLog, requestLog, way, wire>>
        /\ phase \in {"validate", "call"} \cup Answered
        /\ phase' \notin Unsent \cup {"auth", "plugins", "hooks"}
        /\ phase' \in Answered => phase \in Answered \/ sent' # None
        /\ sent' = sent \/ sent' = Some(BuildHttpRequest)
    <3>1. CASE Validate
      BY <3>1 DEF Validate, Pass, Finish, Proceed, Unsent, Answered, calls, answer
    <3>2. ASSUME NEW reply, Exchanged(reply) PROVE <2>1
      <4>1. /\ phase = "call" /\ sent' = Some(BuildHttpRequest) /\ phase' \in {"answered", "done"}
            /\ UNCHANGED <<calls, wire>>
        BY <3>2 DEF Exchanged, Pass, Finish, Proceed
      <4>2. sent' # None
        BY <4>1 DEF Some, None
      <4> QED BY <4>1, <4>2 DEF Unsent, Answered, calls
    <3>3. CASE RunOnResponse \/ Settle \/ Read
      BY <3>3 DEF RunOnResponse, Settle, Read, Pass, Finish, Proceed, Unsent, Answered, calls, answer
    <3> QED BY <1>3, <3>1, <3>2, <3>3
  <2>2. phase \in {"validate", "call"} \/ sent # None
    BY <2>1 DEF WireOK
  <2>3. phase' \in Answered => sent' # None
    <3>1. Some(BuildHttpRequest) # None
      BY DEF Some, None
    <3> QED BY <2>1, <3>1 DEF WireOK
  <2> QED BY <2>1, <2>2, <2>3, WireKept
<1>4. CASE UNCHANGED vars
  <2>1. UNCHANGED <<client, request, clientLog, requestLog, way, wire, phase, next, sent>>
    BY <1>4 DEF vars, calls, answer
  <2>2. PICK w, first, second, all :
          /\ w = wire /\ first = SubSeq(EffectsMade, 1, next - 1) /\ all = EffectsMade
          /\ second = SubSeq(EffectsMade, 1, InitEffects + next - 1)
    OBVIOUS
  <2>3. /\ wire' = w /\ SubSeq(EffectsMade', 1, next' - 1) = first /\ EffectsMade' = all
        /\ SubSeq(EffectsMade', 1, InitEffects' + next' - 1) = second
        /\ InitEffects' = InitEffects /\ HookEffects' = HookEffects
    BY <2>1, <2>2, EffectsKept
  <2>4. \A a, made : WireIs(w, a, made) => WireIs(w, a, made)'
    BY <2>1, WireIsKept
  <2>5. BuildHttpRequest' = BuildHttpRequest
    BY <2>1 DEF BuildHttpRequest, RequestBody, Streaming
  <2> QED BY <2>1, <2>2, <2>3, <2>4, <2>5, Zenon DEF WireOK
<1> QED BY <1>1, <1>2, <1>3, <1>4 DEF Next

(* It holds at the start.                                                  *)
LEMMA InitWire == Init => WireOK
BY DEF Init, WireOK, Answered

------------------------------------------------------------------------------
(* What is sent is what was written last.                                  *)

(* What is selected from a sequence has its type.                          *)
LEMMA SelectedType ==
  ASSUME NEW T, NEW seq \in Seq(T), NEW at
  PROVE  Selected(seq, at) \in Seq(T)
<1>1. PICK n : n = Len(seq)
  OBVIOUS
<1>2. n \in Nat
  BY <1>1
<1>3. PICK g \in [0..n -> Seq(T)] : Selected(seq, at) = g[n]
  BY <1>1, SelectedDef
<1> QED BY <1>2, <1>3

(* So have the writes of a header.                                         *)
LEMMA WrittenType ==
  ASSUME NEW T, NEW log \in Seq(T), NEW h
  PROVE  Written(log, h) \in Seq({HeaderValue(c) : c \in T})
<1>1. PICK made : made = Selected(log, {i \in DOMAIN log : WritesHeader(log[i], h)})
  OBVIOUS
<1>2. made \in Seq(T)
  BY <1>1, SelectedType
<1>3. Written(log, h) = [i \in DOMAIN made |-> HeaderValue(made[i])]
  BY <1>1, Zenon DEF Written
<1> QED BY <1>2, <1>3

(* The last of two sequences is that of the second, if there is one.       *)
LastJoined(s, t, both) ==
  /\ LastOf(s) # None <=> s # <<>>
  /\ LastOf(t) # None <=> t # <<>>
  /\ LastOf(both) = IF t # <<>> THEN LastOf(t) ELSE LastOf(s)

(* The last of two sequences joined is the last of the second unless that  *)
(* is empty.                                                               *)
LEMMA LastOfBoth ==
  ASSUME NEW S, NEW T, NEW s \in Seq(S), NEW t \in Seq(T), NEW both, both = s \o t
  PROVE  both \in Seq(S \cup T) /\ LastJoined(s, t, both)
<1>1. s \in Seq(S \cup T) /\ t \in Seq(S \cup T)
  OBVIOUS
<1>2. PICK U, st : U = S \cup T /\ st = both
  OBVIOUS
<1>3. st \in Seq(U) /\ Len(st) = Len(s) + Len(t) /\ Len(s) \in Nat /\ Len(t) \in Nat
      /\ \A i \in 1..Len(t) : st[Len(s) + i] = t[i]
  BY <1>1, <1>2
<1>4. \A x : (x = <<>> => LastOf(x) = None) /\ (x # <<>> => LastOf(x) = Some(x[Len(x)]) /\ LastOf(x) # None)
  BY DEF LastOf, Last, Some, None
<1>5. CASE t = <<>>
  <2>1. st = s
    BY <1>2, <1>5
  <2> QED BY <1>2, <1>3, <1>4, <1>5, <2>1 DEF LastJoined
<1>6. CASE t # <<>>
  <2>1. Len(t) \in 1..Len(t)
    BY <1>3, <1>6
  <2>2. st # <<>> /\ st[Len(st)] = t[Len(t)]
    BY <1>3, <2>1
  <2> QED BY <1>2, <1>3, <1>4, <1>6, <2>2 DEF LastJoined
<1> QED BY <1>5, <1>6

(* The headers: of all writes, the last.                                   *)
LEMMA SentHeaders ==
  ASSUME BuiltOK, RequestOK, NEW w, WireIs(w, TRUE, EffectsMade), NEW h
  PROVE  ValueOf(w.headers, h) = HeaderMade(h)
<1>1. PICK all, E : all = EffectsMade /\ all \in Seq(E)
  <2>1. PICK plugins, chain : plugins = client.plugins /\ chain = MergedHooks(client).on_request
    OBVIOUS
  <2>2. EffectsAre(plugins, chain)
    BY <2>1, EffectsSplit DEF BuiltOK
  <2> QED BY <2>2 DEF EffectsAre
<1>2. PICK A, a : a = Written(clientLog, h) /\ a \in Seq(A)
  BY WrittenType DEF BuiltOK, LogsOK
<1>3. PICK B, b : b = Written(requestLog, h) /\ b \in Seq(B)
  BY WrittenType DEF BuiltOK, LogsOK
<1>4. PICK C, c : c = Authorized(h) /\ c \in Seq(C)
  <2>1. PICK c, x, C : c = Authorized(h) /\ x = Credential(AuthMade[1]) /\ C = {x}
    OBVIOUS
  <2>2. c = <<>> \/ c = <<x>>
    BY <2>1 DEF Authorized
  <2>3. <<x>> \in Seq(C) /\ <<>> \in Seq(C)
    <3>1. \A i \in 1..1 : <<x>>[i] \in C
      BY <2>1
    <3> QED BY <3>1
  <2>4. c \in Seq(C)
    BY <2>2, <2>3
  <2> QED BY <2>1, <2>4
<1>5. PICK D, d : d = Written(all, h) /\ d \in Seq(D)
  BY <1>1, WrittenType
<1>6. PICK ab, AB : ab = a \o b /\ AB = A \cup B
  OBVIOUS
<1>7. ab \in Seq(AB) /\ LastJoined(a, b, ab)
  BY <1>2, <1>3, <1>6, LastOfBoth
<1>8. PICK abc, ABC : abc = ab \o c /\ ABC = AB \cup C
  OBVIOUS
<1>9. abc \in Seq(ABC) /\ LastJoined(ab, c, abc)
  BY <1>4, <1>7, <1>8, LastOfBoth
<1>10. PICK writes : writes = abc \o d
  OBVIOUS
<1>11. LastJoined(abc, d, writes)
  BY <1>5, <1>9, <1>10, LastOfBoth
<1>12. HeaderWrites(h) = writes
  BY <1>1, <1>2, <1>3, <1>4, <1>5, <1>6, <1>8, <1>10, Zenon DEF HeaderWrites
<1>13. c # <<>> => LastOf(c) # None
  BY DEF LastOf, Some, None
<1>14. HeaderMade(h) = IF LastOf(writes) # None THEN LastOf(writes)
                       ELSE IF h = "content-type" /\ BodyTypes # <<>> THEN Some(Implied[BodyTypes[1][1]])
                       ELSE None
  <2>1. \A x : Some(x) # None
    BY DEF Some, None
  <2>2. LastOf(writes) = IF writes = <<>> THEN None ELSE Some(Last(writes))
    BY DEF LastOf
  <2> QED BY <1>12, <2>1, <2>2 DEF HeaderMade
<1>15. HeaderSet(h) = IF LastOf(b) # None THEN LastOf(b) ELSE IF LastOf(a) # None THEN LastOf(a)
                      ELSE IF h = "content-type" /\ BodyTypes # <<>> THEN Some(Implied[BodyTypes[1][1]])
                      ELSE None
  BY <1>2, <1>3, Zenon DEF HeaderSet
<1>16. ValueOf(w.headers, h) =
         IF LastOf(d) # None THEN LastOf(d) ELSE IF c # <<>> THEN LastOf(c) ELSE HeaderSet(h)
  BY <1>1, <1>4, <1>5, Zenon DEF WireIs
<1> QED BY <1>7, <1>9, <1>11, <1>13, <1>14, <1>15, <1>16 DEF LastJoined

(* The body: the form, else that of the hooks, else that of the builders,  *)
(* unless a hook was ignored.                                              *)
LEMMA SentBody ==
  ASSUME BuiltOK, RequestOK, WireIs(wire, TRUE, EffectsMade), ~HookIgnored,
         NEW body, body = IF request.multipart THEN Multipart ELSE RequestBody
  PROVE  (IF body = Bytes("") THEN Empty ELSE body) = BodyMade
<1>1. PICK hooked, built : hooked = CallsOf(EffectsMade, {"body"}) /\ built = BodySet
  OBVIOUS
<1>2. BodyMade = IF CallsOf(requestLog, {"multipart"}) # <<>> THEN Multipart
                 ELSE IF hooked # <<>> THEN NonEmpty(Last(hooked)[2][1])
                 ELSE IF built = <<>> THEN Empty
                 ELSE IF Last(built)[1] = "body_stream" THEN Stream ELSE NonEmpty(Last(built)[2])
  BY <1>1, Zenon DEF BodyMade, BodySet, BodyEffects
<1>3. PICK w, r, fallback : w = wire.body /\ r = request /\ fallback = request.body
  OBVIOUS
<1>4. w = IF hooked = <<>> THEN BodyForContext(fallback) ELSE Last(hooked)[2]
  BY <1>1, <1>3, Zenon DEF WireIs
<1>5. RequestBody = IF w = None THEN fallback ELSE NonEmpty(w[1])
  BY <1>3 DEF RequestBody, HttpBodyFromContext
<1>6. request.multipart = (CallsOf(requestLog, {"multipart"}) # <<>>)
  BY DEF RequestOK
<1> DEFINE Normal(b) == IF b = Bytes("") THEN Empty ELSE b
<1>7. Normal(Multipart) = Multipart /\ Normal(Stream) = Stream /\ Normal(Empty) = Empty
      /\ \A x : Normal(Bytes(x)) = NonEmpty(x) /\ Normal(NonEmpty(x)) = NonEmpty(x)
  BY DEF Multipart, Stream, Empty, Bytes, NonEmpty
<1>8. CASE request.multipart
  <2>1. body = Multipart /\ BodyMade = Multipart
    BY <1>2, <1>6, <1>8
  <2> QED BY <1>7, <2>1
<1>9. CASE ~request.multipart
  <2>1. fallback = IF built = <<>> THEN Empty ELSE BodyOf(Last(built))
    BY <1>1, <1>3, <1>9 DEF RequestOK
  <2>2. built # <<>> => Last(built)[1] \in DOMAIN Implied \cup {"body"}
    <3>1. PICK log, at : log = requestLog /\ at = {i \in DOMAIN log : log[i][1] \in DOMAIN Implied \cup {"body"}}
      OBVIOUS
    <3>2. PICK T : log \in Seq(T)
      BY <3>1 DEF BuiltOK, LogsOK
    <3>3. built = Selected(log, at)
      BY <1>1, <3>1, Zenon DEF BodySet, CallsOf
    <3>4. built \in Seq(T) /\ \A j \in DOMAIN built : \E i \in DOMAIN log : i \in at /\ built[j] = log[i]
      BY <3>2, <3>3, SelectedType, SelectedElements
    <3>5. built # <<>> => Len(built) \in DOMAIN built /\ Last(built) = built[Len(built)]
      BY <3>4 DEF Last
    <3> QED BY <3>1, <3>4, <3>5
  <2>3. built # <<>> => BodyOf(Last(built)) =
          IF Last(built)[1] = "body_stream" THEN Stream ELSE Bytes(Last(built)[2])
    BY <2>2 DEF BodyOf, Implied
  <2>4. Normal(fallback) = IF built = <<>> THEN Empty
                           ELSE IF Last(built)[1] = "body_stream" THEN Stream ELSE NonEmpty(Last(built)[2])
    <3> HIDE DEF Normal
    <3> QED BY <1>7, <2>1, <2>3
  <2>5. body = RequestBody /\ CallsOf(requestLog, {"multipart"}) = <<>>
    BY <1>6, <1>9
  <2>6. CASE hooked # <<>>
    <3> HIDE DEF Normal
    <3>1. Last(hooked)[2] # None
      BY <1>1, <2>6 DEF HookIgnored, BodyEffects
    <3>2. Normal(body) = BodyMade
      BY <1>2, <1>4, <1>5, <1>7, <2>5, <2>6, <3>1
    <3> QED BY <3>2 DEF Normal
  <2>7. CASE hooked = <<>>
    <3>1. BodyMade = Normal(fallback)
      <4> HIDE DEF Normal
      <4> QED BY <1>2, <2>4, <2>5, <2>7
    <3>2. CASE fallback.kind = "Bytes" /\ fallback = Bytes(fallback.text)
      <4>1. w = Some(fallback.text)
        BY <1>4, <2>7, <3>2 DEF BodyForContext
      <4>2. body = NonEmpty(fallback.text)
        BY <1>5, <2>5, <4>1 DEF Some, None
      <4>3. Normal(fallback) = NonEmpty(fallback.text) /\ Normal(body) = NonEmpty(fallback.text)
        <5> HIDE DEF Normal
        <5> QED BY <1>7, <3>2, <4>2
      <4> QED BY <3>1, <4>3
    <3>3. CASE fallback \in {Empty, Stream}
      <4>1. w = None
        <5>1. fallback.kind # "Bytes"
          <6>1. Empty.kind = "Empty" /\ Stream.kind = "Stream"
            BY DEF Empty, Stream
          <6>2. fallback = Empty \/ fallback = Stream
            BY <3>3
          <6>3. fallback.kind = "Empty" \/ fallback.kind = "Stream"
            BY <6>1, <6>2, Zenon
          <6> QED BY <6>3
        <5>2. w = BodyForContext(fallback)
          BY <1>4, <2>7
        <5> QED BY <5>1, <5>2 DEF BodyForContext
      <4>2. body = fallback
        BY <1>5, <2>5, <4>1
      <4> QED BY <3>1, <4>2
    <3>4. fallback \in {Empty, Stream} \/ (fallback.kind = "Bytes" /\ fallback = Bytes(fallback.text))
      <4>1. \A x : Bytes(x).kind = "Bytes" /\ Bytes(x) = Bytes(Bytes(x).text)
        BY DEF Bytes
      <4> QED BY <2>1, <2>3, <4>1
    <3> QED BY <3>2, <3>3, <3>4
  <2> QED BY <2>6, <2>7
<1> QED BY <1>8, <1>9

(* The settings: the request's, else the client's.                         *)
LEMMA SentSetting ==
  ASSUME BuiltOK, RequestOK, NEW s
  PROVE  Effective(client, request, s) = SettingMade(s)
<1>1. PICK a, b, A, B : /\ a = OptionCalls(clientLog, s) /\ b = OptionCalls(requestLog, s)
                        /\ a \in Seq(A) /\ b \in Seq(B)
  <2>1. \A T, log : log \in Seq(T) => OptionCalls(log, s) \in Seq(T)
    BY SelectedType, Zenon DEF OptionCalls
  <2>2. PICK a, b : a = OptionCalls(clientLog, s) /\ b = OptionCalls(requestLog, s)
    OBVIOUS
  <2>3. a \in Seq(ClientCalls) /\ b \in Seq(RequestCalls)
    BY <2>1, <2>2 DEF BuiltOK, LogsOK
  <2> QED BY <2>2, <2>3
<1>2. PICK both : both = a \o b
  OBVIOUS
<1>3. LastJoined(a, b, both)
  BY <1>1, <1>2, LastOfBoth
<1> DEFINE Third(x) == IF x = <<>> THEN None ELSE Some(Last(x)[3])
<1>4. SettingMade(s) = Third(both) /\ LastOption(clientLog, s) = Third(a) /\ LastOption(requestLog, s) = Third(b)
  BY <1>1, <1>2, Zenon DEF SettingMade, LastOption
<1>5. Third(both) = IF b # <<>> THEN Third(b) ELSE Third(a)
  <2>1. \A x : x # <<>> => LastOf(x) # None /\ LastOf(x)[1] = Last(x)
    BY DEF LastOf, Some, None
  <2>2. \A x : x = <<>> => LastOf(x) = None
    BY DEF LastOf
  <2> QED BY <1>3, <2>1, <2>2 DEF LastJoined
<1>6. /\ ValueOf(client.options, s) = LastOption(clientLog, s)
      /\ ValueOf(request.options, s) =
              Or(LastOption(requestLog, s), IF s \in Copied THEN LastOption(clientLog, s) ELSE None)
  BY DEF BuiltOK, ClientOK, RequestOK
<1>7. Third(b) # None <=> b # <<>>
  BY DEF Some, None
<1> HIDE DEF Third
<1> QED BY <1>4, <1>5, <1>6, <1>7 DEF Effective, Or

(* The transport: the one configured last.                                 *)
LEMMA SentTransport ==
  ASSUME BuiltOK
  PROVE  TransportMade = IF Streaming THEN Transport(client).streaming ELSE Transport(client).buffered
<1>1. PICK log, custom : log = clientLog /\ custom = StackCalls(clientLog)
  OBVIOUS
<1>2. custom = {i \in DOMAIN log : log[i][1] \in {"backend", "http_service", "transport_stack"}}
  BY <1>1 DEF StackCalls
<1>3. log \in Seq(ClientCalls)
  BY <1>1 DEF BuiltOK, LogsOK
<1>5. CASE custom = {}
  <2>1. client.custom = None /\ client.reqwest = Argument(LastCall(log, "reqwest_client"), 2)
    BY <1>1, <1>5 DEF BuiltOK, TransportOK, ClientOK
  <2>2. OwnReqwest(client) = ReqwestUnder(log)
    <3>1. PICK made, mine : made = LastCall(log, "reqwest_client") /\ mine = client.reqwest
      OBVIOUS
    <3>2. mine = Argument(made, 2) /\ ReqwestUnder(log) = IF made = None THEN "default" ELSE made[1][2]
      BY <2>1, <3>1, Zenon DEF ReqwestUnder
    <3>3. OwnReqwest(client) = IF mine = None THEN "default" ELSE mine[1]
      BY <3>1 DEF OwnReqwest
    <3> QED BY <3>2, <3>3 DEF Argument, Some, None
  <2>3. Transport(client) = Both(<<"plain", ReqwestUnder(log)>>)
    BY <2>1, <2>2 DEF Transport, Plain
  <2>4. TransportMade = <<"plain", ReqwestUnder(log)>>
    BY <1>1, <1>5 DEF TransportMade
  <2> QED BY <2>3, <2>4 DEF Both
<1>6. CASE custom # {}
  <2>1. PICK at : LastStack(log, client.custom, at)
    BY <1>1, <1>6 DEF BuiltOK, TransportOK
  <2>2. at \in custom /\ \A j \in custom : j <= at
    BY <1>1, <2>1 DEF LastStack
  <2>3. (CHOOSE i \in custom : \A j \in custom : j <= i) = at
    <3>1. custom \subseteq Nat
      BY <1>2, <1>3
    <3>2. PICK top : top = CHOOSE i \in custom : \A j \in custom : j <= i
      OBVIOUS
    <3>3. top \in custom /\ \A j \in custom : j <= top
      BY <2>2, <3>2, Zenon
    <3>4. top = at
      BY <2>2, <3>1, <3>3
    <3> QED BY <3>2, <3>4
  <2>4. PICK call, under : call = log[at] /\ under = ReqwestUnder(SubSeq(log, 1, at))
    OBVIOUS
  <2>5. Transport(client) = StackOf(call, under)
    <3>1. client.custom = Some(StackOf(call, under))
      BY <2>1, <2>4 DEF LastStack
    <3> QED BY <3>1 DEF Transport, Some, None
  <2>6. call[1] \in {"backend", "http_service", "transport_stack"}
    BY <1>2, <2>2, <2>4
  <2>7. TransportMade = IF call[1] = "transport_stack" THEN <<call[2], under>>
                        ELSE IF call[1] = "http_service" /\ Streaming THEN <<"plain", under>>
                        ELSE <<call[2], "its own">>
    <3>1. TransportMade = TransportAt(at)
      BY <1>1, <1>6, <2>3, Zenon DEF TransportMade
    <3> QED BY <1>1, <2>4, <3>1 DEF TransportAt
  <2>8. CASE call[1] = "transport_stack"
    BY <2>5, <2>7, <2>8 DEF StackOf, Both
  <2>9. CASE call[1] = "http_service"
    <3>1. Transport(client) = [buffered |-> <<call[2], "its own">>, streaming |-> <<"plain", under>>]
      BY <2>5, <2>9 DEF StackOf
    <3>2. "http_service" # "transport_stack"
      OBVIOUS
    <3>3. TransportMade = IF Streaming THEN <<"plain", under>> ELSE <<call[2], "its own">>
      BY <2>7, <2>9, <3>2, Zenon
    <3>4. \A a, b : LET t == [buffered |-> a, streaming |-> b] IN t.buffered = a /\ t.streaming = b
      OBVIOUS
    <3> QED BY <3>1, <3>3, <3>4, Zenon
  <2>10. CASE call[1] = "backend"
    <3>1. Transport(client) = [buffered |-> <<call[2], "its own">>, streaming |-> <<call[2], "its own">>]
      BY <2>5, <2>10 DEF StackOf, Both
    <3>2. "backend" # "transport_stack" /\ "backend" # "http_service"
      OBVIOUS
    <3>3. TransportMade = <<call[2], "its own">>
      BY <2>7, <2>10, <3>2, Zenon
    <3>4. \A a, b : LET t == [buffered |-> a, streaming |-> b] IN t.buffered = a /\ t.streaming = b
      OBVIOUS
    <3> QED BY <3>1, <3>3, <3>4, Zenon
  <2> QED BY <2>6, <2>8, <2>9, <2>10
<1> QED BY <1>5, <1>6

(* Together, the property.                                                 *)
LEMMA WritesAreSent == BuiltOK /\ WireOK => LastWriteSent
<1> SUFFICES ASSUME BuiltOK, WireOK, sent # None PROVE LastWriteSent
  BY DEF LastWriteSent
<1>1. PICK made : made = sent[1]
  OBVIOUS
<1>2. RequestOK
  BY DEF BuiltOK, LogsOK
<1>3. PICK w : w = wire /\ WireIs(w, TRUE, EffectsMade)
  BY DEF WireOK
<1>4. /\ made.method = w.method /\ made.headers = w.headers
      /\ made.body = IF request.multipart THEN Multipart ELSE RequestBody
      /\ made.settings = [s \in Settings |-> Effective(client, request, s)]
      /\ made.transport = IF Streaming THEN Transport(client).streaming ELSE Transport(client).buffered
  BY <1>1, <1>3 DEF WireOK, BuildHttpRequest
<1>5. PICK methods : methods = CallsOf(EffectsMade, {"method"})
  OBVIOUS
<1>6. made.method = IF methods = <<>> THEN MethodOf(request) ELSE Last(methods)[2]
  BY <1>3, <1>4, <1>5, Zenon DEF WireIs
<1>7. \A h : ValueOf(made.headers, h) = HeaderMade(h)
  BY <1>2, <1>3, <1>4, SentHeaders
<1>8. /\ \A h \in DOMAIN made.headers : HeaderMade(h) = Some(made.headers[h])
      /\ \A h \in {"content-type", "authorization", "x"} \ DOMAIN made.headers : HeaderMade(h) = None
  BY <1>7 DEF ValueOf
<1>9. ~HookIgnored => (IF made.body = Bytes("") THEN Empty ELSE made.body) = BodyMade
  BY <1>2, <1>3, <1>4, SentBody
<1>10. \A s \in Settings : made.settings[s] = SettingMade(s)
  BY <1>2, <1>4, SentSetting
<1>11. made.transport = TransportMade
  BY <1>4, SentTransport
<1>12. \A h \in DOMAIN made.headers :
         ~(h = "content-type" /\ Retyped) => HeaderMade(h) = Some(made.headers[h])
  BY <1>8, Zenon
<1> QED BY <1>1, <1>5, <1>6, <1>8, <1>9, <1>10, <1>11, <1>12, Zenon DEF LastWriteSent

------------------------------------------------------------------------------
(* What is read.                                                           *)

(* Unless a hook replaced it, the response carries the parser set last.    *)
ParserOK ==
  Streaming \/ ~Replaced =>
    /\ DOMAIN response = {"success", "type", "text", "parser"}
    /\ response.parser = SettingMade("json_parser")

(* The phases in which the way to read is chosen.                          *)
Asked == {"prepare", "auth", "plugins", "hooks", "validate", "call"} \cup Answered

(* The way to read is one there is, the answer carries its parser, and a   *)
(* value was read from that answer in that way.                            *)
ReadOK ==
  /\ phase \in Asked => way[2] \in Reads
  /\ phase \in Answered => ParserOK
  /\ phase = "done" /\ outcome.error \in {"none", "api"} =>
       sent # None /\ way[2] \in Reads /\ outcome = ReadAs(way) /\ ParserOK

(* An error names itself.                                                  *)
LEMMA ErrFields == \A e : Err(e).error = e
BY DEF Err

(* The errors of a URL.                                                    *)
LEMMA UrlErrors == UrlError \in {"none", MissingPathParam, InvalidBaseUrl, "SchemaRoute"}
<1>1. Built.error \in {"none", MissingPathParam, InvalidBaseUrl}
  BY DEF Built, BuildUrl
<1> QED BY <1>1 DEF UrlError

(* A guard that fails yields no value.                                     *)
LEMMA PassFails ==
  ASSUME NEW error, error # "api", NEW to, to # "done", Pass(error, to), phase' = "done"
  PROVE  outcome'.error \notin {"none", "api"}
<1>1. error # "none" /\ outcome' = Err(error)
  BY DEF Pass, Finish, Proceed
<1> QED BY <1>1, ErrFields

(* A hook or plugin that fails yields no value.                            *)
LEMMA ChainFails ==
  ASSUME NEW effects, NEW to, to # "done", Chain(effects, to), phase # "done", phase' = "done"
  PROVE  outcome'.error \notin {"none", "api"}
<1>1. outcome' = Err("Hook")
  BY DEF Chain, Finish, Proceed
<1> QED BY <1>1, ErrFields

(* Only Read ends a request with a value.                                  *)
LEMMA OnlyReadYields ==
  ASSUME TypeOK, Next, phase' = "done", ~Read
  PROVE  phase # "done" /\ outcome'.error \notin {"none", "api"}
<1>1. program \in Programs
  BY DEF TypeOK
<1>2. CASE Register \/ MakeStrict
  BY <1>2 DEF Register, MakeStrict
<1>3. ASSUME NEW call, Builder(call) PROVE FALSE
  BY <1>3 DEF Builder
<1>4. CASE Build
  <2>1. PICK error : phase = "client" /\ error \in {"none", "MissingBaseUrl"} /\ Pass(error, "start")
    BY <1>4 DEF Build
  <2>2. error # "api"
    BY <2>1
  <2> QED BY <2>1, <2>2, PassFails
<1>5. ASSUME NEW method, NEW path, Start(method, path) PROVE FALSE
  BY <1>5 DEF Start, Proceed
<1>6. ASSUME NEW e, Call(e) PROVE FALSE
  BY <1>6 DEF Call, Proceed
<1>7. ASSUME NEW call, Configure(call) PROVE phase # "done" /\ outcome' = Err("Argument")
  BY <1>7 DEF Configure, Finish, Proceed
<1>8. ASSUME NEW how, Send(how) PROVE FALSE
  BY <1>8 DEF Send, Proceed
<1>9. CASE PrepareUrl
  <2>1. phase = "prepare" /\ Pass(UrlError, "auth")
    BY <1>9 DEF PrepareUrl
  <2>2. UrlError # "api"
    BY UrlErrors DEF MissingPathParam, InvalidBaseUrl
  <2> QED BY <2>1, <2>2, PassFails
<1>10. CASE ApplyAuth
  <2>1. PICK error : phase = "auth" /\ error \in {"none", "InvalidAuthHeader"} /\ Pass(error, "plugins")
    <3> DEFINE auth    == Or(request.auth, client.auth)
               applies == auth # None /\ Resolves(auth[1])
               error == IF applies /\ Unsendable(auth[1]) THEN "InvalidAuthHeader" ELSE "none"
    <3>1. phase = "auth" /\ Pass(error, "plugins")
      BY <1>10 DEF ApplyAuth
    <3>2. error \in {"none", "InvalidAuthHeader"}
      OBVIOUS
    <3> HIDE DEF error
    <3> QED BY <3>1, <3>2
  <2>2. error # "api"
    BY <2>1
  <2> QED BY <2>1, <2>2, PassFails
<1>11. CASE RunInitAll
  <2>1. PICK effects : phase = "plugins" /\ Chain(effects, "hooks")
    BY <1>11, Zenon DEF RunInitAll
  <2> QED BY <2>1, ChainFails
<1>12. CASE RunOnRequest
  <2>1. PICK effects : phase = "hooks" /\ Chain(effects, "validate")
    BY <1>12, Zenon DEF RunOnRequest
  <2> QED BY <2>1, ChainFails
<1>13. CASE Validate
  <2>1. phase = "validate" /\ Pass(ValidationError, "call")
    BY <1>13 DEF Validate
  <2>2. ValidationError # "api"
    BY DEF ValidationError
  <2> QED BY <2>1, <2>2, PassFails
<1>14. ASSUME NEW reply \in program.replies, Exchanged(reply)
       PROVE  phase # "done" /\ outcome'.error \notin {"none", "api"}
  <2>1. phase = "call" /\ Pass(reply.error, "answered")
    BY <1>14 DEF Exchanged
  <2>2. reply.error \in {"none", "Transport"}
    BY <1>1, ProgramAssumption DEF WellTyped
  <2>3. reply.error # "api"
    BY <2>2
  <2> QED BY <2>1, <2>3, PassFails
<1>15. CASE RunOnResponse
  <2>1. phase = "answered" /\ outcome' = Err("Hook")
    BY <1>15 DEF RunOnResponse, Finish, Proceed
  <2> QED BY <2>1, ErrFields
<1>16. CASE Settle
  <2>1. PICK error : phase = "settle" /\ error \in {"none", "SchemaValidation response", "Http"} /\ Pass(error, "read")
    <3> DEFINE error == IF response.success
                        THEN IF MaybeValidateResponse THEN "none" ELSE "SchemaValidation response"
                        ELSE IF Streaming \/ ValueOf(request.options, "throw_on_error") = Some("on")
                        THEN "Http" ELSE "none"
    <3>1. phase = "settle" /\ Pass(error, "read")
      BY <1>16 DEF Settle
    <3>2. error \in {"none", "SchemaValidation response", "Http"}
      OBVIOUS
    <3> HIDE DEF error
    <3> QED BY <3>1, <3>2
  <2>2. error # "api"
    BY <2>1
  <2> QED BY <2>1, <2>2, PassFails
<1>17. \A e : e \in {"Argument"} => Err(e).error \notin {"none", "api"}
  BY ErrFields
<1> QED BY <1>2, <1>3, <1>4, <1>5, <1>6, <1>7, <1>8, <1>9, <1>10, <1>11, <1>12, <1>13, <1>14, <1>15, <1>16, <1>17 DEF Next

(* The parser stays while the answer does.                                 *)
LEMMA ParserKept ==
  ASSUME ParserOK, UNCHANGED <<response, way, clientLog, requestLog>>
  PROVE  ParserOK'
BY DEF ParserOK, Streaming, Replaced, ChainMade, PluginsMade, SettingMade

(* A hook that does not replace the response leaves its parser alone.      *)
LEMMA HookKeepsParser ==
  ASSUME BuiltOK, ParserOK, TypeOK, RunOnResponse
  PROVE  ParserOK'
<1>1. UNCHANGED <<client, way, clientLog, requestLog>>
  BY DEF RunOnResponse, calls
<1>2. /\ Streaming' = Streaming /\ Replaced' = Replaced
      /\ SettingMade("json_parser")' = SettingMade("json_parser")
  BY <1>1 DEF Streaming, Replaced, ChainMade, PluginsMade, SettingMade
<1>3. CASE response' = response
  BY <1>2, <1>3 DEF ParserOK
<1>4. CASE response' # response
  <2> SUFFICES ASSUME Streaming \/ ~Replaced
               PROVE  /\ DOMAIN response' = {"success", "type", "text", "parser"}
                      /\ response'.parser = SettingMade("json_parser")
    BY <1>2 DEF ParserOK
  <2>1. DOMAIN response = {"success", "type", "text", "parser"}
        /\ response.parser = SettingMade("json_parser")
    BY DEF ParserOK
  <2>2. PICK chain, effect, all :
          /\ chain = IF Streaming THEN "on_response_stream" ELSE "on_response"
          /\ all = ResponseChain /\ effect = all[next]
    OBVIOUS
  <2>3. chain \in DOMAIN NoHooks /\ all = MergedHooks(client)[chain]
    <3>1. chain \in DOMAIN NoHooks
      BY <2>2 DEF NoHooks, Hooks
    <3>2. PICK m : m = MergedHooks(client)
      OBVIOUS
    <3>3. all = IF Streaming THEN m.on_response_stream ELSE m.on_response
      BY <2>2, <3>2 DEF ResponseChain
    <3> QED BY <2>2, <3>1, <3>2, <3>3
  <2>4. all = ChainMade(chain)
    BY <2>3, ChainOfClient DEF BuiltOK
  <2>5. PICK E : all \in Seq(E) /\ \A e \in E : e[1] \in Permitted[chain]
    BY <2>3, <2>4, ChainOfClient DEF BuiltOK
  <2>6. next \in DOMAIN all /\ response' = Answer(effect) /\ effect[1] # "fail"
    <3>1. ~(next > Len(all)) /\ effect[1] # "fail" /\ response' = Answer(effect)
      BY <1>4, <2>2 DEF RunOnResponse
    <3>2. next \in Nat \ {0}
      BY DEF TypeOK
    <3> QED BY <2>5, <3>1, <3>2
  <2>7. effect[1] \in {"none", "success", "type"}
    <3>1. effect[1] \in Permitted[chain]
      BY <2>2, <2>5, <2>6
    <3>2. CASE Streaming
      BY <2>2, <2>6, <3>1, <3>2 DEF Permitted
    <3>3. CASE ~Streaming
      <4>1. CallsOf(all, {"response"}) = <<>>
        BY <2>2, <2>4, <3>3 DEF Replaced
      <4>2. effect[1] \notin {"response"}
        BY <2>2, <2>5, <2>6, <4>1, NothingSelected
      <4> QED BY <2>2, <2>6, <3>1, <3>3, <4>2 DEF Permitted
    <3> QED BY <3>2, <3>3
  <2>8. CASE effect[1] = "none"
    <3>1. response' = response
      BY <2>6, <2>8 DEF Answer
    <3> QED BY <1>4, <3>1
  <2>9. CASE effect[1] \in {"success", "type"}
    <3>1. PICK r, d : r = response /\ d = response'
      OBVIOUS
    <3>2. Answer(effect) = [response EXCEPT ![effect[1]] = effect[2]]
      BY <2>9 DEF Answer
    <3>3. d = [r EXCEPT ![effect[1]] = effect[2]]
      BY <2>6, <3>1, <3>2
    <3>4. DOMAIN d = DOMAIN r /\ d.parser = r.parser
      BY <2>1, <2>9, <3>1, <3>3
    <3> QED BY <2>1, <3>1, <3>4
  <2> QED BY <2>7, <2>8, <2>9
<1> QED BY <1>3, <1>4

(* It holds at the start.                                                  *)
LEMMA InitRead == Init => ReadOK
<1> SUFFICES ASSUME Init PROVE ReadOK
  OBVIOUS
<1>1. phase = "registry"
  BY DEF Init
<1> QED BY <1>1 DEF ReadOK, Asked, Answered

(* Every step keeps it.                                                    *)
LEMMA ReadStep ==
  ASSUME TypeOK, BuiltOK, WireOK, ReadOK, [Next]_vars
  PROVE  ReadOK'
<1>1. program \in Programs
  BY DEF TypeOK
<1>2. CASE UNCHANGED vars
  <2>1. UNCHANGED <<phase, outcome, sent, way, request, response, clientLog, requestLog>>
    BY <1>2 DEF vars, calls, answer
  <2>2. ReadAs(way)' = ReadAs(way)
    BY <2>1 DEF ReadAs, SendJsonValidated
  <2>3. ParserOK => ParserOK'
    BY <2>1, ParserKept
  <2> QED BY <2>1, <2>2, <2>3 DEF ReadOK
<1>3. CASE Read
  <2>1. /\ phase = "read" /\ phase' = "done" /\ outcome' = ReadAs(way)
        /\ UNCHANGED <<sent, way, request, response, clientLog, requestLog>>
    BY <1>3 DEF Read, Finish, calls, answer
  <2>2. ReadAs(way)' = ReadAs(way)
    BY <2>1 DEF ReadAs, SendJsonValidated
  <2>3. way[2] \in Reads /\ ParserOK /\ sent # None
    BY <2>1 DEF ReadOK, WireOK, Asked, Answered
  <2>4. ParserOK'
    BY <2>1, <2>3, ParserKept
  <2> QED BY <2>1, <2>2, <2>3, <2>4 DEF ReadOK, Asked, Answered
<1>4. CASE Next /\ ~Read
  <2>1. phase' \in Asked => way'[2] \in Reads
    <3>1. ASSUME NEW how \in program.ways, Send(how) PROVE <2>1
      <4>1. way' = how
        BY <3>1 DEF Send
      <4> QED BY <1>1, <4>1, ProgramAssumption DEF WellTyped
    <3>2. CASE Register \/ MakeStrict \/ Build
      BY <3>2 DEF Register, MakeStrict, Build, Pass, Finish, Proceed, Asked, Answered
    <3>3. ASSUME NEW call, Builder(call) PROVE <2>1
      BY <3>3 DEF Builder, Asked, Answered
    <3>4. ASSUME NEW method, NEW path, Start(method, path) PROVE <2>1
      BY <3>4 DEF Start, Proceed, Asked, Answered
    <3>5. ASSUME NEW e, Call(e) PROVE <2>1
      BY <3>5 DEF Call, Proceed, Asked, Answered
    <3>6. ASSUME NEW call, Configure(call) PROVE <2>1
      BY <3>6 DEF Configure, Finish, Proceed, Asked, Answered
    <3>7. CASE \/ PrepareUrl \/ ApplyAuth \/ RunInitAll \/ RunOnRequest \/ Validate
               \/ (\E reply \in program.replies : Exchanged(reply))
               \/ RunOnResponse \/ Settle
      <4>1. phase \in Asked /\ way' = way
        BY <3>7 DEF PrepareUrl, ApplyAuth, RunInitAll, RunOnRequest, Chain, Validate, Exchanged,
                    RunOnResponse, Settle, calls, Asked, Answered
      <4> QED BY <4>1 DEF ReadOK
    <3> QED BY <1>4, <3>1, <3>2, <3>3, <3>4, <3>5, <3>6, <3>7 DEF Next
  <2>2. phase' \in Answered => ParserOK'
    <3>1. CASE \/ Register \/ MakeStrict \/ Build \/ PrepareUrl \/ ApplyAuth \/ RunInitAll
               \/ RunOnRequest \/ Validate
      BY <3>1 DEF Register, MakeStrict, Build, PrepareUrl, ApplyAuth, RunInitAll, RunOnRequest,
                  Validate, Chain, Pass, Finish, Proceed, Answered
    <3>2. ASSUME NEW call, Builder(call) PROVE <2>2
      BY <3>2 DEF Builder, Answered
    <3>3. ASSUME NEW method, NEW path, Start(method, path) PROVE <2>2
      BY <3>3 DEF Start, Proceed, Answered
    <3>4. ASSUME NEW e, Call(e) PROVE <2>2
      BY <3>4 DEF Call, Proceed, Answered
    <3>5. ASSUME NEW call, Configure(call) PROVE <2>2
      BY <3>5 DEF Configure, Finish, Proceed, Answered
    <3>6. ASSUME NEW how, Send(how) PROVE <2>2
      BY <3>6 DEF Send, Proceed, Answered
    <3>7. ASSUME NEW reply, Exchanged(reply) PROVE <2>2
      <4>1. /\ phase = "call" /\ UNCHANGED <<client, request, clientLog, requestLog>>
            /\ response' = [success |-> reply.success, type |-> reply.type, text |-> reply.text,
                            parser |-> Effective(client, request, "json_parser")]
        BY <3>7 DEF Exchanged, calls
      <4>2. Effective(client, request, "json_parser") = SettingMade("json_parser")
        BY <4>1, SentSetting DEF BuiltOK, LogsOK, Unstarted
      <4>3. SettingMade("json_parser")' = SettingMade("json_parser")
        BY <4>1 DEF SettingMade
      <4>4. PICK d : d = response'
        OBVIOUS
      <4>5. DOMAIN d = {"success", "type", "text", "parser"} /\ d.parser = SettingMade("json_parser")
        BY <4>1, <4>2, <4>4
      <4> QED BY <4>3, <4>4, <4>5 DEF ParserOK
    <3>8. CASE RunOnResponse
      <4>1. ParserOK
        BY <3>8 DEF RunOnResponse, ReadOK, Answered
      <4> QED BY <3>8, <4>1, HookKeepsParser
    <3>9. CASE Settle
      <4>1. phase = "settle" /\ UNCHANGED <<response, way, clientLog, requestLog>>
        BY <3>9 DEF Settle, calls, answer
      <4> QED BY <4>1, ParserKept DEF ReadOK, Answered
    <3> QED BY <1>4, <3>1, <3>2, <3>3, <3>4, <3>5, <3>6, <3>7, <3>8, <3>9 DEF Next
  <2>3. phase' = "done" => outcome'.error \notin {"none", "api"}
    BY <1>4, OnlyReadYields
  <2> QED BY <2>1, <2>2, <2>3 DEF ReadOK
<1> QED BY <1>2, <1>3, <1>4

(* The readers of a response.                                              *)
LEMMA Deserialized ==
  ASSUME NEW text, NEW parser, Deserialize(text, parser).error = "none"
  PROVE  /\ Deserialize(text, parser).value = ParsedBy(parser, text)
         /\ Deserialize(text, parser).value \in Shaped
         /\ Deserialize(text, parser) = Ok(ParsedBy(parser, text))
<1>1. ParsedBy(parser, text) \in Shaped
  BY DEF Deserialize, Err
<1> QED BY <1>1 DEF Deserialize, Ok

(* The errors of the readers.                                              *)
LEMMA ReadErrors ==
  /\ \A r : /\ IntoText(r).error \in {"none", "Http"}
             /\ IntoBytesChecked(r).error \in {"none", "Http"}
  /\ \A text, parser :
        /\ Deserialize(text, parser).error \in {"none", "Deserialize"}
        /\ DeserializeValidated(text, parser).error \in {"none", "Deserialize", "Validation"}
<1>1. ASSUME NEW text, NEW parser PROVE Deserialize(text, parser).error \in {"none", "Deserialize"}
  BY DEF Deserialize, Ok, Err
<1>2. ASSUME NEW text, NEW parser
      PROVE  DeserializeValidated(text, parser).error \in {"none", "Deserialize", "Validation"}
  <2>1. PICK result : result = Deserialize(text, parser)
    OBVIOUS
  <2>2. result.error \in {"none", "Deserialize"}
    BY <1>1, <2>1
  <2> QED BY <2>1, <2>2 DEF DeserializeValidated, AndThen, Ok, Err
<1>3. ASSUME NEW r
      PROVE  IntoText(r).error \in {"none", "Http"} /\ IntoBytesChecked(r).error \in {"none", "Http"}
  BY DEF IntoText, IntoBytesChecked, ErrorForStatus, Ok, Err
<1> QED BY <1>1, <1>2, <1>3

(* What was validated is valid, and is what was parsed.                    *)
LEMMA Validated ==
  ASSUME NEW text, NEW parser, DeserializeValidated(text, parser).error = "none"
  PROVE  /\ DeserializeValidated(text, parser).value \in Valid
         /\ DeserializeValidated(text, parser) = Deserialize(text, parser)
<1>1. PICK result : result = Deserialize(text, parser)
  OBVIOUS
<1>2. result.error = "none"
  BY <1>1 DEF DeserializeValidated, AndThen
<1>3. result = Ok(result.value)
  <2>1. result = Ok(ParsedBy(parser, text)) /\ result.value = ParsedBy(parser, text)
    BY <1>1, <1>2, Deserialized
  <2> QED BY <2>1
<1>4. result.value \in Valid
  BY <1>1, <1>2 DEF DeserializeValidated, AndThen, Err
<1> QED BY <1>1, <1>2, <1>3, <1>4 DEF DeserializeValidated, AndThen

(* Together, the property.                                                 *)
LEMMA ReadsAreChecked == BuiltOK /\ ReadOK => ReadsChecked
<1> SUFFICES ASSUME BuiltOK, ReadOK, phase = "done", outcome.error \in {"none", "api"}
             PROVE  ReadsChecked
  BY DEF ReadsChecked
<1>1. sent # None /\ way[2] \in Reads /\ outcome = ReadAs(way) /\ ParserOK
  BY DEF ReadOK
<1>2. PICK r, text, parser, result :
        r = response /\ text = response.text /\ parser = response.parser /\ result = outcome
  OBVIOUS
<1>3. \A e : Err(e).error = e
  BY ErrFields
<1>4. \A x : ErrorForStatus(r, x) = IF r.success THEN x ELSE Err("Http")
  BY DEF ErrorForStatus
<1>5. ASSUME result.error = "api" PROVE ~response.success
  <2>1. way[2] = "api" /\ ~r.success
    BY <1>1, <1>2, <1>3, <1>4, <1>5, ReadErrors
       DEF ReadAs, Reads, IntoText, IntoBytesChecked, IntoJson, IntoJsonWith, IntoJsonUnchecked,
           SendJsonValidated, IntoJsonValidated, IntoJsonValidatedUnchecked, IntoApiResult, Ok
  <2> QED BY <1>2, <2>1
<1>6. ASSUME result.error = "none", way[2] \in {"text", "bytes"}
      PROVE  response.success
  BY <1>1, <1>2, <1>3, <1>4, <1>6 DEF ReadAs, IntoText, IntoBytesChecked
<1>7. ASSUME result.error = "none", way[2] = "json_with"
      PROVE  response.success /\ result.value \in Shaped
  <2>1. result = ErrorForStatus(r, Deserialize(text, <<way[3]>>))
    BY <1>1, <1>2, <1>7 DEF ReadAs, IntoJsonWith
  <2>2. r.success /\ result = Deserialize(text, <<way[3]>>)
    BY <1>3, <1>4, <1>7, <2>1
  <2> QED BY <1>2, <1>7, <2>2, Deserialized
<1>8. ASSUME result.error = "none", way[2] \in {"json", "send_json_validated"}
      PROVE  /\ response.success /\ result.value \in Shaped
             /\ result.value = ParsedBy(parser, text)
             /\ way[2] = "send_json_validated" /\ SettingMade("validate_response") # Some("off")
                  => result.value \in Valid
  <2>1. \/ result = IntoJson(r)
        \/ result = IntoJsonValidated(r)
    BY <1>1, <1>2, <1>8 DEF ReadAs, SendJsonValidated
  <2>2. r.success /\ (result = Deserialize(text, parser) \/ result = DeserializeValidated(text, parser))
    BY <1>2, <1>3, <1>4, <1>8, <2>1
       DEF IntoJson, IntoJsonUnchecked, IntoJsonValidated, IntoJsonValidatedUnchecked
  <2>3. result = Deserialize(text, parser)
    BY <1>8, <2>2, Validated
  <2>4. result.value \in Shaped /\ result.value = ParsedBy(parser, text)
    BY <1>8, <2>3, Deserialized
  <2>5. ASSUME way[2] = "send_json_validated", SettingMade("validate_response") # Some("off")
        PROVE  result.value \in Valid
    <3>1. Effective(client, request, "validate_response") = SettingMade("validate_response")
      BY <1>1, SentSetting DEF BuiltOK, LogsOK
    <3>2. ValueOf(request.options, "validate_response") # Some("off")
      <4>1. PICK v : v = ValueOf(request.options, "validate_response")
        OBVIOUS
      <4>2. Some("off") # None
        BY DEF Some, None
      <4>3. v # None => Effective(client, request, "validate_response") = v
        BY <4>1, Zenon DEF Effective, Or
      <4> QED BY <2>5, <3>1, <4>1, <4>2, <4>3, Zenon
    <3>3. result = IntoJsonValidated(r)
      BY <1>1, <1>2, <2>5, <3>2 DEF ReadAs, SendJsonValidated
    <3>4. result = DeserializeValidated(text, parser)
      BY <1>2, <1>4, <2>2, <3>3 DEF IntoJsonValidated, IntoJsonValidatedUnchecked
    <3> QED BY <1>8, <3>4, Validated
  <2> QED BY <1>2, <2>2, <2>4, <2>5
<1>9. Streaming \/ ~Replaced => parser = SettingMade("json_parser")
  BY <1>1, <1>2 DEF ParserOK
<1> QED BY <1>2, <1>5, <1>6, <1>7, <1>8, <1>9 DEF ReadsChecked, Checked2xx

------------------------------------------------------------------------------
(* Typed endpoints.                                                        *)

(* The endpoints of all programs.                                          *)
EndpointsOf == UNION {p.endpoints : p \in Programs}

(* DropLeading keeps elements of the sequence only.                        *)
LEMMA DroppedElements ==
  ASSUME NEW T, NEW seq \in Seq(T), NEW blank
  PROVE  /\ DropLeading(seq, blank) \in Seq(T)
         /\ \A j \in DOMAIN DropLeading(seq, blank) :
              \E i \in DOMAIN seq : DropLeading(seq, blank)[j] = seq[i]
<1>1. PICK others, n : others = {i \in DOMAIN seq : seq[i] # blank} /\ n = Len(seq)
  OBVIOUS
<1>2. n \in Nat /\ DOMAIN seq = 1..n /\ others \subseteq Nat
  BY <1>1
<1>3. CASE others = {}
  BY <1>1, <1>3 DEF DropLeading
<1>4. CASE others # {}
  <2>1. PICK i \in others : /\ i = CHOOSE k \in others : \A j \in others : k <= j
                            /\ DropLeading(seq, blank) = SubSeq(seq, i, n)
    <3>1. \E k \in others : \A j \in others : k <= j
      BY <1>2, <1>4, SmallestElement
    <3>2. PICK i : i = CHOOSE k \in others : \A j \in others : k <= j
      OBVIOUS
    <3>3. i \in others
      BY <3>1, <3>2
    <3>4. DropLeading(seq, blank) = SubSeq(seq, i, n)
      BY <1>1, <1>4, <3>2, Zenon DEF DropLeading
    <3> QED BY <3>2, <3>3, <3>4
  <2>2. i \in 1..n
    BY <1>1, <1>2, <2>1
  <2>3. PICK s : s = SubSeq(seq, i, n)
    OBVIOUS
  <2>4. s \in Seq(T) /\ Len(s) = n - i + 1 /\ \A j \in 1..Len(s) : s[j] = seq[i + j - 1]
    BY <1>1, <1>2, <2>2, <2>3
  <2>5. \A j \in DOMAIN s : i + j - 1 \in DOMAIN seq /\ s[j] = seq[i + j - 1]
    BY <1>2, <2>2, <2>4
  <2> QED BY <2>1, <2>3, <2>4, <2>5
<1> QED BY <1>3, <1>4

(* A template without its modifier has no segment of its own.              *)
LEMMA ParsedElements ==
  ASSUME NEW T, NEW path, path.segs \in Seq(T)
  PROVE  LET parsed == ParseMethodModifier(path)
         IN  /\ parsed.segs \in Seq(T)
             /\ \A j \in DOMAIN parsed.segs : \E i \in DOMAIN path.segs : parsed.segs[j] = path.segs[i]
<1>1. PICK segs, out : segs = path.segs /\ out = ParseMethodModifier(path).segs
  OBVIOUS
<1>2. CASE ~HasModifier(path)
  <2>1. out = segs
    BY <1>1, <1>2 DEF ParseMethodModifier
  <2> QED BY <1>1, <2>1
<1>3. CASE HasModifier(path)
  <2>1. PICK rest : rest = Tail(segs)
    OBVIOUS
  <2>2. out = DropLeading(rest, Blank) /\ Len(segs) >= 2
    BY <1>1, <1>3, <2>1 DEF ParseMethodModifier, HasModifier
  <2>3. rest \in Seq(T) /\ Len(rest) = Len(segs) - 1 /\ \A i \in 1..Len(rest) : rest[i] = segs[i + 1]
    BY <1>1, <2>1, <2>2
  <2>4. \A i \in DOMAIN rest : i + 1 \in DOMAIN segs /\ rest[i] = segs[i + 1]
    BY <1>1, <2>2, <2>3
  <2>5. out \in Seq(T) /\ \A j \in DOMAIN out : \E i \in DOMAIN rest : out[j] = rest[i]
    BY <2>2, <2>3, DroppedElements
  <2> QED BY <1>1, <2>4, <2>5
<1> QED BY <1>2, <1>3

(* Fields that a macro accepted name every placeholder.                    *)
LEMMA DerivedNames ==
  ASSUME NEW e \in EndpointsOf, e.typed = "derived", e.checked = e.path, Compiles(e)
  PROVE  \A i \in DOMAIN e.path.segs :
           e.path.segs[i].kind = "param" => e.path.segs[i].name \in ToSet(e.keys)
<1>1. IsEndpoint(e)
  BY ProgramAssumption DEF EndpointsOf, WellTyped
<1>2. PICK segs, T, names, params, keys, at :
        /\ segs = e.path.segs /\ T = ToSet(segs) /\ names = PathParamNames(e.path)
        /\ at = {i \in DOMAIN e.path.segs : e.path.segs[i].kind = "param"}
        /\ params = Selected(segs, at) /\ keys = ToSet(e.keys)
  OBVIOUS
<1>3. segs \in Seq(T) /\ segs # <<>> /\ \A i \in DOMAIN segs : segs[i].kind = "param" => segs[i].name \o "?" \notin keys
  BY <1>1, <1>2 DEF IsEndpoint, IsPath
<1>4. params \in Seq(T) /\ names = [j \in DOMAIN params |-> params[j].name]
  <2>1. params \in Seq(T)
    BY <1>2, <1>3, SelectedType
  <2> QED BY <1>2, <2>1, Zenon DEF PathParamNames
<1>5. /\ \A j \in DOMAIN params : \E i \in DOMAIN segs : i \in at /\ params[j] = segs[i]
      /\ \A i \in DOMAIN segs : i \in at => \E j \in DOMAIN params : params[j] = segs[i]
  <2>1. PICK picked : picked = Selected(segs, at)
    OBVIOUS
  <2>2. /\ \A j \in DOMAIN picked : \E i \in DOMAIN segs : i \in at /\ picked[j] = segs[i]
        /\ \A i \in DOMAIN segs : i \in at => \E j \in DOMAIN picked : picked[j] = segs[i]
    BY <1>3, <2>1, SelectedElements
  <2>3. picked = params
    BY <1>2, <2>1
  <2> QED BY <2>2, <2>3
<1>6. PICK macro : macro = MacroNamesOf(e.path) /\ ToSet(macro) \subseteq keys
  BY <1>2 DEF Compiles, Derives
<1>7. macro = names
  <2> SUFFICES ASSUME e.path.query # <<>>, Last(e.path.segs).kind = "param" PROVE FALSE
    BY <1>2, <1>6, Zenon DEF MacroNamesOf
  <2>1. macro = Front(names) \o <<Last(names) \o "?">>
    BY <1>2, <1>6, Zenon DEF MacroNamesOf
  <2>2. DOMAIN names = DOMAIN params /\ Len(params) \in Nat /\ DOMAIN params = 1..Len(params)
    BY <1>4
  <2>3. params # <<>>
    <3>1. Len(segs) \in DOMAIN segs /\ segs[Len(segs)].kind = "param"
      BY <1>2, <1>3 DEF Last
    <3>2. Len(segs) \in at
      BY <1>2, <3>1
    <3> QED BY <1>5, <3>1, <3>2
  <2>4. PICK n : n = Len(names)
    OBVIOUS
  <2>5. n \in DOMAIN params /\ n \in Nat \ {0} /\ Last(names) = params[n].name
    BY <1>4, <2>2, <2>3, <2>4 DEF Last
  <2>6. PICK i \in DOMAIN segs : i \in at /\ params[n] = segs[i]
    BY <1>5, <2>5
  <2>7. Last(names) \o "?" \notin keys
    BY <1>2, <1>3, <2>5, <2>6
  <2>8. PICK asked, front : asked = Last(names) \o "?" /\ front = Front(names)
    OBVIOUS
  <2>9. asked \in ToSet(macro)
    <3>1. macro = front \o <<asked>>
      BY <2>1, <2>8
    <3>2. PICK U : names \in Seq(U)
      <4>1. PICK U : U = {t.name : t \in T}
        OBVIOUS
      <4>2. \A j \in DOMAIN params : params[j].name \in U
        BY <1>4, <4>1
      <4>3. names \in Seq(U)
        BY <1>4, <2>2, <4>2
      <4> QED BY <4>3
    <3>3. front \in Seq(U) /\ Len(front) = n - 1
      BY <2>4, <2>5, <2>8, <3>2 DEF Front
    <3>4. n \in DOMAIN macro /\ macro[n] = asked
      <4>1. <<asked>> \in Seq({asked}) /\ front \in Seq(U \cup {asked})
        BY <3>3
      <4>2. Len(macro) = n /\ macro[n] = asked
        BY <2>5, <3>1, <3>3, <4>1
      <4> QED BY <2>5, <3>1, <4>1, <4>2
    <3> QED BY <3>4 DEF ToSet
  <2> QED BY <1>6, <2>7, <2>8, <2>9
<1>8. \A j \in DOMAIN names : names[j] \in keys
  BY <1>6, <1>7 DEF ToSet
<1>9. ASSUME NEW i \in DOMAIN segs, segs[i].kind = "param" PROVE segs[i].name \in keys
  <2>1. PICK j \in DOMAIN params : params[j] = segs[i]
    BY <1>2, <1>5, <1>9
  <2>2. j \in DOMAIN names /\ names[j] = segs[i].name
    BY <1>4, <2>1
  <2> QED BY <1>8, <2>2
<1> QED BY <1>2, <1>9

(* A typed request has the parameters and the body that its state stands   *)
(* for.                                                                    *)
Completed(e) ==
  /\ e \in EndpointsOf /\ Compiles(e)
  /\ request.path = e.path
  /\ state \in {"NeedsParams", "NeedsBody", "Ready"}
  /\ e.typed = "derived" /\ state # "NeedsParams" => ToSet(e.keys) \subseteq DOMAIN request.params
  /\ state = "Ready" /\ BodyRequired(e) => CallsOf(requestLog, BodyCalls) # <<>>
  /\ (phase \in Unstarted \cup {"request", "done"} /\ sent = None) \/ state = "Ready"
  /\ e.typed = "derived" /\ e.checked = e.path => outcome # Err(MissingPathParam)

CompleteOK == endpoint # None => phase \notin Unstarted /\ Completed(endpoint[1])

(* It has when the endpoint is called,                                     *)
LEMMA CalledCompletes ==
  ASSUME TypeOK, LogsOK, NEW e \in program.endpoints, Call(e)
  PROVE  CompleteOK'
<1>1. /\ Compiles(e) /\ endpoint' = Some(e) /\ state' = CallInitial(e)
      /\ request' = ClientRequest(client, e.method, e.path)
      /\ phase = "start" /\ phase' = "request" /\ outcome' = outcome /\ sent' = sent
      /\ requestLog' = requestLog
  BY DEF Call, Proceed, answer
<1>2. e \in EndpointsOf /\ IsEndpoint(e) /\ endpoint'[1] = e
  BY <1>1, ProgramAssumption DEF TypeOK, EndpointsOf, WellTyped, Some
<1>3. request'.path = e.path
  <2>1. PICK r : r = request'
    OBVIOUS
  <2>2. r.path = e.path
    BY <1>1, <2>1 DEF ClientRequest
  <2> QED BY <2>1, <2>2
<1>4. state' \in {"NeedsParams", "NeedsBody", "Ready"}
  BY <1>1 DEF CallInitial, ParamsNext
<1>5. e.typed = "derived" => state' = "NeedsParams"
  BY <1>1, <1>2 DEF CallInitial, IsEndpoint
<1>6. ~(state' = "Ready" /\ BodyRequired(e))
  BY <1>1 DEF CallInitial, ParamsNext
<1>7. outcome' # Err(MissingPathParam)
  <2>1. outcome' = Err("pending")
    BY <1>1 DEF TypeOK, Pending
  <2>2. "pending" # MissingPathParam
    BY DEF MissingPathParam
  <2> QED BY <2>1, <2>2, ErrFields
<1>8. sent = None
  <2>1. request = None
    BY <1>1 DEF LogsOK, Unstarted
  <2>2. DOMAIN request # RequestFields
    BY <2>1 DEF RequestFields, None
  <2> QED BY <2>2 DEF LogsOK
<1> QED BY <1>1, <1>2, <1>3, <1>4, <1>5, <1>6, <1>7, <1>8 DEF CompleteOK, Completed, Unstarted

(* and in every call of its setters.                                       *)
LEMMA ConfiguredCompletes ==
  ASSUME IInv, BuiltOK, CompleteOK, NEW call \in program.requestCalls, Configure(call), endpoint # None
  PROVE  CompleteOK'
<1>1. /\ phase = "request" /\ endpoint' = endpoint /\ sent' = sent
      /\ requestLog' = Append(requestLog, call) /\ Admits(state, endpoint[1], call)
      /\ phase' \in {"request", "done"}
      /\ outcome' \in {outcome, Err("Argument")}
  BY DEF Configure, Finish, Proceed, answer
<1>2. PICK e : e = endpoint[1]
  OBVIOUS
<1>3. Completed(e)
  BY <1>2 DEF CompleteOK
<1>4. call \in RequestCalls /\ requestLog \in Seq(RequestCalls)
  BY DEF IInv, TypeOK, RequestCalls, BuiltOK, LogsOK
<1>5. RequestAfter(request, call, request')
  <2>1. RequestOK
    BY <1>1 DEF BuiltOK, LogsOK, Unstarted
  <2> QED BY <1>4, <2>1, ConfigureAfter
<1>6. PICK r, d : r = request /\ d = request'
  OBVIOUS
<1>7. /\ d.path = r.path
      /\ d.params = IF call[1] = "params" THEN Extend(r.params, call[2]) ELSE r.params
  BY <1>5, <1>6, Zenon DEF RequestAfter
<1>8. \A x : x \in DOMAIN d.params <=> x \in DOMAIN r.params \/ (call[1] = "params" /\ x \in DOMAIN call[2])
  BY <1>7, ValueOfExtend
<1>9. /\ CallsOf(requestLog, BodyCalls) # <<>> => CallsOf(requestLog', BodyCalls) # <<>>
      /\ (call[1] \in BodyCalls => CallsOf(requestLog', BodyCalls) # <<>>)
  <2>1. PICK made, more, setters : /\ made = CallsOf(requestLog, BodyCalls) /\ setters = BodyCalls
                          /\ more = CallsOf(Append(requestLog, call), BodyCalls)
    OBVIOUS
  <2>2. /\ made \in Seq(RequestCalls)
        /\ more = IF call[1] \in setters THEN Append(made, call) ELSE made
    BY <1>4, <2>1, CallsOfAppend
  <2>3. Append(made, call) # <<>>
    BY <1>4, <2>2
  <2> QED BY <1>1, <2>1, <2>2, <2>3
<1>10. outcome # Err(MissingPathParam) => outcome' # Err(MissingPathParam)
  <2>1. "Argument" # MissingPathParam
    BY DEF MissingPathParam
  <2> QED BY <1>1, <2>1, ErrFields
<1>11. sent = None
  BY <1>1 DEF IInv, SentOK
<1>12. state' \in {state, StateAfter(state, e)}
       /\ (call[1] # "malformed" => state' = StateAfter(state, e))
       /\ (call[1] = "malformed" => state' = state)
  BY <1>2 DEF Configure
<1>13. /\ state' \in {"NeedsParams", "NeedsBody", "Ready"}
       /\ state' # "NeedsParams" /\ state = "NeedsParams" => call[1] = "params"
             /\ (e.typed # "map" => DOMAIN call[2] = ToSet(e.keys))
       /\ state' = "Ready" /\ BodyRequired(e) => state = "Ready" \/ call[1] \in BodyCalls
  <2>1. state \in {"NeedsParams", "NeedsBody", "Ready"}
    BY <1>3 DEF Completed
  <2>2. CASE state = "NeedsParams"
    BY <1>1, <1>2, <1>12, <2>2 DEF Admits, StateAfter, ParamsNext
  <2>3. CASE state = "NeedsBody"
    BY <1>1, <1>2, <1>12, <2>3 DEF Admits, StateAfter
  <2>4. CASE state = "Ready"
    BY <1>12, <2>4 DEF StateAfter
  <2> QED BY <2>1, <2>2, <2>3, <2>4
<1>14. e.typed = "derived" /\ state' # "NeedsParams" => ToSet(e.keys) \subseteq DOMAIN d.params
  <2> SUFFICES ASSUME e.typed = "derived", state' # "NeedsParams", NEW x \in ToSet(e.keys)
               PROVE  x \in DOMAIN d.params
    OBVIOUS
  <2>1. CASE state = "NeedsParams"
    BY <1>8, <1>13, <2>1
  <2>2. CASE state # "NeedsParams"
    BY <1>3, <1>6, <1>8, <2>2 DEF Completed
  <2> QED BY <2>1, <2>2
<1>15. endpoint'[1] = e /\ phase' \notin Unstarted
  BY <1>1, <1>2 DEF Unstarted
<1>16. state' = "Ready" /\ BodyRequired(e) => CallsOf(requestLog', BodyCalls) # <<>>
  <2>1. state = "Ready" /\ BodyRequired(e) => CallsOf(requestLog, BodyCalls) # <<>>
    BY <1>3, Zenon DEF Completed
  <2>2. state' = "Ready" /\ BodyRequired(e) => state = "Ready" \/ call[1] \in BodyCalls
    BY <1>13
  <2> QED BY <1>9, <2>1, <2>2, Zenon
<1> QED BY <1>1, <1>3, <1>6, <1>7, <1>10, <1>11, <1>13, <1>14, <1>15, <1>16 DEF CompleteOK, Completed

(* A derived endpoint's URL is built without a missing parameter.          *)
LEMMA DerivedIsBuilt ==
  ASSUME CompleteOK, endpoint # None, phase = "prepare"
  PROVE  LET e == endpoint[1]
         IN  e.typed = "derived" /\ e.checked = e.path => UrlError # MissingPathParam
<1>1. PICK e : e = endpoint[1]
  OBVIOUS
<1>2. Completed(e) /\ state = "Ready"
  BY <1>1 DEF CompleteOK, Completed, Unstarted
<1> SUFFICES ASSUME e.typed = "derived", e.checked = e.path PROVE UrlError # MissingPathParam
  BY <1>1
<1>3. IsEndpoint(e)
  BY <1>2, ProgramAssumption DEF Completed, EndpointsOf, WellTyped
<1>4. PICK parsed, T : parsed = ParseMethodModifier(request.path).segs /\ T = ToSet(e.path.segs)
  OBVIOUS
<1>5. \A j \in DOMAIN parsed : \E i \in DOMAIN e.path.segs : parsed[j] = e.path.segs[i]
  BY <1>2, <1>3, <1>4, ParsedElements DEF Completed, IsEndpoint, IsPath
<1>6. Missing(parsed, request.params) = {}
  <2>1. \A i \in DOMAIN e.path.segs :
           e.path.segs[i].kind = "param" => e.path.segs[i].name \in ToSet(e.keys)
    BY <1>2, DerivedNames DEF Completed
  <2>2. ToSet(e.keys) \subseteq DOMAIN request.params
    BY <1>2 DEF Completed
  <2> QED BY <1>5, <2>1, <2>2 DEF Missing
<1>7. Built.error \in {"none", InvalidBaseUrl}
  BY <1>4, <1>6 DEF Built, BuildUrl
<1> QED BY <1>7 DEF UrlError, MissingPathParam, InvalidBaseUrl

(* No other guard fails for a missing parameter,                           *)
LEMMA PassMisses ==
  ASSUME NEW error, NEW to, error # MissingPathParam, Pass(error, to), outcome # Err(MissingPathParam)
  PROVE  outcome' # Err(MissingPathParam)
<1>1. outcome' = outcome \/ outcome' = Err(error)
  BY DEF Pass, Finish, Proceed
<1> QED BY <1>1, ErrFields

(* no plugin and no hook.                                                  *)
LEMMA ChainMisses ==
  ASSUME NEW effects, NEW to, Chain(effects, to), outcome # Err(MissingPathParam)
  PROVE  outcome' # Err(MissingPathParam)
<1>1. outcome' = outcome \/ outcome' = Err("Hook")
  BY DEF Chain, Finish, Proceed
<1>2. "Hook" # MissingPathParam
  BY DEF MissingPathParam
<1> QED BY <1>1, <1>2, ErrFields

(* No reader answers with a missing parameter.                             *)
LEMMA ReadMisses ==
  ASSUME way[2] \in Reads
  PROVE  ReadAs(way) # Err(MissingPathParam)
<1>1. PICK r, result : r = response /\ result = ReadAs(way)
  OBVIOUS
<1>2. \A x : ErrorForStatus(r, x) \in {x, Err("Http")}
  BY DEF ErrorForStatus
<1>3. result.error \in {"none", "api", "Http", "Deserialize", "Validation"}
  <2>1. CASE way[2] \in {"text", "bytes", "content"}
    BY <1>1, <2>1, ReadErrors DEF ReadAs, Ok
  <2>2. CASE way[2] \in {"json", "json_with", "json_unchecked", "send_json_validated", "validated_unchecked"}
    <3>1. \E text, parser : result \in {Deserialize(text, parser), DeserializeValidated(text, parser), Err("Http")}
      BY <1>1, <1>2, <2>2
         DEF ReadAs, SendJsonValidated, IntoJson, IntoJsonWith, IntoJsonUnchecked,
             IntoJsonValidated, IntoJsonValidatedUnchecked
    <3> QED BY <3>1, ReadErrors, ErrFields
  <2>3. CASE way[2] = "api"
    <3>1. \E text, parser : result \in {Deserialize(text, parser), Err("Http"), [error |-> "api", value |-> text]}
      BY <1>1, <1>2, <2>3 DEF ReadAs, IntoApiResult, IntoJson, IntoJsonUnchecked
    <3>2. \A text : [error |-> "api", value |-> text].error = "api"
      OBVIOUS
    <3> QED BY <3>1, <3>2, ReadErrors, ErrFields
  <2> QED BY <2>1, <2>2, <2>3 DEF Reads
<1> QED BY <1>1, <1>3, ErrFields DEF MissingPathParam

(* So no step of a derived endpoint's request does.                        *)
LEMMA OtherCompletes ==
  ASSUME IInv, BuiltOK, WireOK, ReadOK, CompleteOK, Next, endpoint # None, phase # "request"
  PROVE  outcome' # Err(MissingPathParam)
         \/ ~(endpoint[1].typed = "derived" /\ endpoint[1].checked = endpoint[1].path)
<1> SUFFICES ASSUME endpoint[1].typed = "derived", endpoint[1].checked = endpoint[1].path
             PROVE  outcome' # Err(MissingPathParam)
  OBVIOUS
<1>1. outcome # Err(MissingPathParam) /\ phase \notin Unstarted /\ program \in Programs
  BY DEF CompleteOK, Completed, IInv, TypeOK
<1>2. CASE Register \/ MakeStrict \/ Build
  BY <1>1, <1>2 DEF Register, MakeStrict, Build, Unstarted
<1>3. ASSUME NEW call, Builder(call) PROVE FALSE
  BY <1>1, <1>3 DEF Builder, Unstarted
<1>4. ASSUME NEW method, NEW path, Start(method, path) PROVE FALSE
  BY <1>1, <1>4 DEF Start, Unstarted
<1>5. ASSUME NEW e, Call(e) PROVE FALSE
  BY <1>1, <1>5 DEF Call, Unstarted
<1>6. ASSUME NEW call, Configure(call) PROVE FALSE
  BY <1>6 DEF Configure
<1>7. ASSUME NEW how, Send(how) PROVE FALSE
  BY <1>7 DEF Send
<1>8. CASE PrepareUrl
  <2>1. phase = "prepare" /\ Pass(UrlError, "auth")
    BY <1>8 DEF PrepareUrl
  <2>2. UrlError # MissingPathParam
    BY <2>1, DerivedIsBuilt
  <2> QED BY <1>1, <2>1, <2>2, PassMisses
<1>9. CASE ApplyAuth
  <2>1. PICK error : error \in {"none", "InvalidAuthHeader"} /\ Pass(error, "plugins")
    <3> DEFINE auth    == Or(request.auth, client.auth)
               applies == auth # None /\ Resolves(auth[1])
               error == IF applies /\ Unsendable(auth[1]) THEN "InvalidAuthHeader" ELSE "none"
    <3>1. Pass(error, "plugins")
      BY <1>9 DEF ApplyAuth
    <3>2. error \in {"none", "InvalidAuthHeader"}
      OBVIOUS
    <3> HIDE DEF error
    <3> QED BY <3>1, <3>2
  <2>2. error # MissingPathParam
    BY <2>1 DEF MissingPathParam
  <2> QED BY <1>1, <2>1, <2>2, PassMisses
<1>10. CASE RunInitAll
  <2>1. PICK effects : Chain(effects, "hooks")
    BY <1>10, Zenon DEF RunInitAll
  <2> QED BY <1>1, <2>1, ChainMisses
<1>11. CASE RunOnRequest
  <2>1. PICK effects : Chain(effects, "validate")
    BY <1>11, Zenon DEF RunOnRequest
  <2> QED BY <1>1, <2>1, ChainMisses
<1>12. CASE Validate
  <2>1. Pass(ValidationError, "call")
    BY <1>12 DEF Validate
  <2>2. ValidationError # MissingPathParam
    BY DEF ValidationError, MissingPathParam
  <2> QED BY <1>1, <2>1, <2>2, PassMisses
<1>13. ASSUME NEW reply \in program.replies, Exchanged(reply) PROVE outcome' # Err(MissingPathParam)
  <2>1. Pass(reply.error, "answered")
    BY <1>13 DEF Exchanged
  <2>2. reply.error \in {"none", "Transport"}
    BY <1>1, ProgramAssumption DEF WellTyped
  <2>3. reply.error # MissingPathParam
    BY <2>2 DEF MissingPathParam
  <2> QED BY <1>1, <2>1, <2>3, PassMisses
<1>14. CASE RunOnResponse
  <2>1. outcome' = outcome \/ outcome' = Err("Hook")
    BY <1>14 DEF RunOnResponse, Finish, Proceed
  <2>2. "Hook" # MissingPathParam
    BY DEF MissingPathParam
  <2> QED BY <1>1, <2>1, <2>2, ErrFields
<1>15. CASE Settle
  <2>1. PICK error : error \in {"none", "SchemaValidation response", "Http"} /\ Pass(error, "read")
    <3> DEFINE error == IF response.success
                        THEN IF MaybeValidateResponse THEN "none" ELSE "SchemaValidation response"
                        ELSE IF Streaming \/ ValueOf(request.options, "throw_on_error") = Some("on")
                        THEN "Http" ELSE "none"
    <3>1. Pass(error, "read")
      BY <1>15 DEF Settle
    <3>2. error \in {"none", "SchemaValidation response", "Http"}
      OBVIOUS
    <3> HIDE DEF error
    <3> QED BY <3>1, <3>2
  <2>2. error # MissingPathParam
    BY <2>1 DEF MissingPathParam
  <2> QED BY <1>1, <2>1, <2>2, PassMisses
<1>16. CASE Read
  <2>1. phase = "read" /\ outcome' = ReadAs(way)
    BY <1>16 DEF Read, Finish
  <2> QED BY <2>1, ReadMisses DEF ReadOK, Asked, Answered
<1> QED BY <1>2, <1>3, <1>4, <1>5, <1>6, <1>7, <1>8, <1>9, <1>10, <1>11, <1>12, <1>13, <1>14, <1>15, <1>16 DEF Next

(* A step that neither calls an endpoint nor configures one.               *)
LEMMA LaterCompletes ==
  ASSUME IInv, CompleteOK, endpoint # None, UNCHANGED <<request, endpoint, state, requestLog>>,
         sent' = None \/ sent' = sent \/ phase = "call",
         phase' \notin Unstarted,
         phase' \in {"request", "done"} \/ phase \notin Unstarted \cup {"request", "done"} \/ state = "Ready",
         outcome' # Err(MissingPathParam)
         \/ ~(endpoint[1].typed = "derived" /\ endpoint[1].checked = endpoint[1].path)
  PROVE  CompleteOK'
<1>1. PICK e : e = endpoint[1]
  OBVIOUS
<1>2. Completed(e)
  BY <1>1 DEF CompleteOK
<1>3. endpoint'[1] = e
  BY <1>1
<1>4. (phase' \in Unstarted \cup {"request", "done"} /\ sent' = None) \/ state' = "Ready"
  BY <1>2 DEF Completed, Unstarted
<1> QED BY <1>1, <1>2, <1>3, <1>4 DEF CompleteOK, Completed

(* It holds at the start.                                                  *)
LEMMA InitComplete == Init => CompleteOK
BY DEF Init, CompleteOK

(* Every step keeps it.                                                    *)
LEMMA CompleteStep ==
  ASSUME IInv, BuiltOK, WireOK, ReadOK, CompleteOK, [Next]_vars
  PROVE  CompleteOK'
<1>1. CASE UNCHANGED vars
  BY <1>1 DEF vars, calls, answer, CompleteOK, Completed
<1>2. ASSUME NEW e \in program.endpoints, Call(e) PROVE CompleteOK'
  BY <1>2, CalledCompletes DEF IInv, BuiltOK
<1>3. ASSUME NEW call \in program.requestCalls, Configure(call) PROVE CompleteOK'
  <2>1. CASE endpoint # None
    BY <1>3, <2>1, ConfiguredCompletes
  <2>2. CASE endpoint = None
    BY <1>3, <2>2 DEF Configure, CompleteOK
  <2> QED BY <2>1, <2>2
<1>4. ASSUME NEW how \in program.ways, Send(how) PROVE CompleteOK'
  <2>1. /\ phase = "request" /\ phase' = "prepare" /\ outcome' = outcome /\ sent' = sent
        /\ state \in {"Untyped", "Ready"} /\ UNCHANGED <<request, endpoint, state, requestLog>>
    BY <1>4 DEF Send, Proceed, answer
  <2>2. CASE endpoint # None
    <3>1. state = "Ready" /\ (outcome' # Err(MissingPathParam)
            \/ ~(endpoint[1].typed = "derived" /\ endpoint[1].checked = endpoint[1].path))
      BY <2>1, <2>2 DEF CompleteOK, Completed
    <3> QED BY <2>1, <2>2, <3>1, LaterCompletes DEF Unstarted
  <2>3. CASE endpoint = None
    BY <2>1, <2>3 DEF CompleteOK
  <2> QED BY <2>2, <2>3
<1>5. ASSUME Next, ~\E e \in program.endpoints : Call(e),
             ~\E call \in program.requestCalls : Configure(call), ~\E how \in program.ways : Send(how)
      PROVE  CompleteOK'
  <2>1. /\ UNCHANGED <<endpoint, state, requestLog>>
        /\ endpoint # None => request' = request
        /\ endpoint # None => phase \notin {"request", "done"}
        /\ sent' = sent \/ phase = "call"
        /\ endpoint # None => phase' \notin Unstarted
    <3>1. CASE Register \/ MakeStrict \/ Build
      BY <3>1 DEF Register, MakeStrict, Build, CompleteOK, Unstarted, calls, answer
    <3>2. ASSUME NEW call, Builder(call) PROVE <2>1
      BY <3>2 DEF Builder, CompleteOK, Unstarted, answer
    <3>3. ASSUME NEW method, NEW path, Start(method, path) PROVE <2>1
      BY <3>3 DEF Start, CompleteOK, Unstarted, answer
    <3>4. CASE \/ PrepareUrl \/ ApplyAuth \/ RunInitAll \/ RunOnRequest \/ Validate
               \/ RunOnResponse \/ Settle \/ Read
      BY <3>4 DEF PrepareUrl, ApplyAuth, RunInitAll, RunOnRequest, Chain, Validate, RunOnResponse,
                  Settle, Read, Pass, Finish, Proceed, CompleteOK, Unstarted, calls, answer
    <3>5. ASSUME NEW reply, Exchanged(reply) PROVE <2>1
      BY <3>5 DEF Exchanged, Pass, Finish, Proceed, CompleteOK, Unstarted, calls
    <3> QED BY <1>5, <3>1, <3>2, <3>3, <3>4, <3>5 DEF Next
  <2>2. CASE endpoint # None
    <3>1. phase \notin Unstarted
      BY <2>2 DEF CompleteOK
    <3> QED BY <1>5, <2>1, <2>2, <3>1, OtherCompletes, LaterCompletes
  <2>3. CASE endpoint = None
    BY <2>1, <2>3 DEF CompleteOK
  <2> QED BY <2>2, <2>3
<1> QED BY <1>1, <1>2, <1>3, <1>4, <1>5

(* Together, the property.                                                 *)
LEMMA EndpointsAreComplete == CompleteOK => EndpointComplete
<1> SUFFICES ASSUME CompleteOK, endpoint # None
             PROVE  LET e == endpoint[1]
                    IN  /\ e.typed = "derived" /\ e.checked = e.path => outcome # Err(MissingPathParam)
                        /\ sent # None /\ e.method = "POST" /\ "body" \notin e.units =>
                             CallsOf(requestLog, BodyCalls) # <<>>
  BY DEF EndpointComplete
<1>1. PICK e : e = endpoint[1]
  OBVIOUS
<1>2. Completed(e)
  BY <1>1 DEF CompleteOK
<1>3. sent # None => state = "Ready"
  BY <1>2 DEF Completed
<1>4. e.method = "POST" /\ "body" \notin e.units => BodyRequired(e)
  BY DEF BodyRequired, IsUnit
<1> QED BY <1>1, <1>2, <1>3, <1>4 DEF Completed

------------------------------------------------------------------------------
(* What is kept of a sequence, and sequences joined.                       *)

(* Induction on a sequence, element by element.                            *)
LEMMA AppendInduction ==
  ASSUME NEW T, NEW P, <<>> \in P,
         \A s \in Seq(T), e \in T : s \in P => Append(s, e) \in P
  PROVE  Seq(T) \subseteq P
<1>1. ASSUME NEW s \in Seq(T), \A t \in Seq(T) : Len(t) < Len(s) => t \in P
      PROVE  s \in P
  <2>1. CASE s = <<>>
    BY <2>1
  <2>2. CASE s # <<>>
    <3>1. PICK n, t : n = Len(s) /\ t = SubSeq(s, 1, n - 1)
      OBVIOUS
    <3>2. n \in Nat \ {0} /\ t \in Seq(T) /\ Len(t) = n - 1 /\ s[n] \in T
      BY <2>2, <3>1
    <3>3. s = Append(t, s[n])
      BY <2>2, <3>1, <3>2
    <3>4. t \in P
      <4>1. Len(t) < Len(s)
        BY <3>1, <3>2
      <4> QED BY <1>1, <3>2, <4>1
    <3> QED BY <3>2, <3>3, <3>4
  <2> QED BY <2>1, <2>2
<1> QED BY <1>1, LengthInduction

(* The elements of a sequence that are in K.                               *)
Kept(seq, K) == Selected(seq, {i \in DOMAIN seq : seq[i] \in K})

(* One more element is kept or not.                                        *)
LEMMA KeptAppend ==
  ASSUME NEW T, NEW seq \in Seq(T), NEW e \in T, NEW K
  PROVE  /\ Kept(seq, K) \in Seq(T) /\ Kept(<<>>, K) = <<>>
         /\ Kept(Append(seq, e), K) = IF e \in K THEN Append(Kept(seq, K), e) ELSE Kept(seq, K)
<1>1. PICK longer, n, at, bt :
        /\ longer = Append(seq, e) /\ n = Len(seq)
        /\ at = {i \in DOMAIN longer : longer[i] \in K}
        /\ bt = {i \in DOMAIN seq : seq[i] \in K}
  OBVIOUS
<1>2. (\A i \in 1..Len(seq) : i \in at <=> i \in bt) /\ (Len(seq) + 1 \in at <=> e \in K)
  BY <1>1
<1>3. /\ Selected(seq, bt) \in Seq(T)
      /\ Selected(Append(seq, e), at) =
              IF Len(seq) + 1 \in at THEN Append(Selected(seq, bt), e) ELSE Selected(seq, bt)
  BY <1>2, SelectedAppend
<1>4. Kept(<<>>, K) = <<>>
  BY SelectedEmpty DEF Kept
<1>5. Kept(seq, K) = Selected(seq, bt) /\ Kept(Append(seq, e), K) = Selected(Append(seq, e), at)
  BY <1>1, Zenon DEF Kept
<1> QED BY <1>2, <1>3, <1>4, <1>5, Zenon

(* What is kept of two sequences joined.                                   *)
LEMMA KeptJoined ==
  ASSUME NEW T, NEW a \in Seq(T), NEW b \in Seq(T), NEW K
  PROVE  Kept(a \o b, K) = Kept(a, K) \o Kept(b, K)
<1> DEFINE P == {s \in Seq(T) : Kept(a \o s, K) = Kept(a, K) \o Kept(s, K)}
<1>0. Seq(T) # {} /\ <<>> \in Seq(T)
  OBVIOUS
<1>1. <<>> \in P
  <2>1. PICK k : k = Kept(a, K)
    OBVIOUS
  <2>2. k \in Seq(T) \/ T = {}
    BY <2>1, KeptAppend
  <2>3. T = {} => a = <<>>
    OBVIOUS
  <2>4. Kept(<<>>, K) = <<>>
    BY SelectedEmpty DEF Kept
  <2>5. k \o <<>> = k
    <3>1. k \in Seq(T)
      BY <2>1, <2>2, <2>3, <2>4
    <3> QED BY <3>1
  <2>6. a \o <<>> = a
    OBVIOUS
  <2> QED BY <1>0, <2>1, <2>4, <2>5, <2>6
<1>2. ASSUME NEW s \in Seq(T), NEW e \in T, s \in P PROVE Append(s, e) \in P
  <2>1. PICK k, m, j : k = Kept(a, K) /\ m = Kept(s, K) /\ j = a \o s
    OBVIOUS
  <2>2. j \in Seq(T) /\ a \o Append(s, e) = Append(j, e)
    BY <2>1
  <2>3. k \in Seq(T) /\ m \in Seq(T)
    BY <2>1, KeptAppend, Zenon
  <2>4. Kept(Append(s, e), K) = IF e \in K THEN Append(m, e) ELSE m
    <3>1. Kept(Append(s, e), K) = IF e \in K THEN Append(Kept(s, K), e) ELSE Kept(s, K)
      BY KeptAppend
    <3> QED BY <2>1, <3>1
  <2>5. Kept(Append(j, e), K) = IF e \in K THEN Append(Kept(j, K), e) ELSE Kept(j, K)
    <3>1. j \in Seq(T)
      BY <2>2
    <3>2. \A t \in Seq(T) : Kept(Append(t, e), K) = IF e \in K THEN Append(Kept(t, K), e) ELSE Kept(t, K)
      <4> SUFFICES ASSUME NEW t \in Seq(T)
                   PROVE  Kept(Append(t, e), K) = IF e \in K THEN Append(Kept(t, K), e) ELSE Kept(t, K)
        OBVIOUS
      <4> QED BY KeptAppend
    <3> QED BY <3>1, <3>2, Zenon
  <2>6. Kept(j, K) = k \o m
    BY <1>2, <2>1
  <2>7. k \o Append(m, e) = Append(k \o m, e)
    BY <2>3
  <2>8. Append(s, e) \in Seq(T)
    OBVIOUS
  <2>9. Kept(a \o Append(s, e), K) = k \o Kept(Append(s, e), K)
    <3>1. CASE e \in K
      BY <2>2, <2>4, <2>5, <2>6, <2>7, <3>1, Zenon
    <3>2. CASE e \notin K
      BY <2>2, <2>4, <2>5, <2>6, <3>2, Zenon
    <3> QED BY <3>1, <3>2
  <2> QED BY <2>1, <2>8, <2>9
<1>3. Seq(T) \subseteq P
  <2> HIDE DEF P
  <2> QED BY <1>1, <1>2, AppendInduction
<1> QED BY <1>3

(* Nothing is kept when no element is to be.                               *)
LEMMA NothingKept ==
  ASSUME NEW T, NEW seq \in Seq(T), NEW K, \A i \in DOMAIN seq : seq[i] \notin K
  PROVE  Kept(seq, K) = <<>>
<1>1. PICK at, kept : at = {i \in DOMAIN seq : seq[i] \in K} /\ kept = Selected(seq, at)
  OBVIOUS
<1>2. kept \in Seq(T)
  BY <1>1, SelectedType
<1>3. at = {}
  BY <1>1
<1>4. \A j \in DOMAIN kept : \E i \in DOMAIN seq : i \in at
  BY <1>1, SelectedElements
<1> QED BY <1>1, <1>2, <1>3, <1>4 DEF Kept

(* The calls of some setters are those that are kept of a log.             *)
LEMMA CallsAreKept ==
  ASSUME NEW T, NEW log \in Seq(T), NEW setters
  PROVE  CallsOf(log, setters) = Kept(log, {e \in T : e[1] \in setters})
<1>1. {i \in DOMAIN log : log[i][1] \in setters} =
        {i \in DOMAIN log : log[i] \in {e \in T : e[1] \in setters}}
  OBVIOUS
<1> QED BY <1>1, Zenon DEF CallsOf, Kept

------------------------------------------------------------------------------
(* g is the sequence of the first of seqs joined.                          *)
JoinsBy(seqs, T, g) ==
  /\ g \in [0..Len(seqs) -> Seq(T)]
  /\ g[0] = <<>>
  /\ \A i \in 1..Len(seqs) : g[i] = g[i - 1] \o seqs[i]

(* FlattenSeq is the last of such sequences.                               *)
LEMMA FlattenDef ==
  ASSUME NEW T, NEW seqs \in Seq(Seq(T))
  PROVE  \E g : JoinsBy(seqs, T, g) /\ FlattenSeq(seqs) = g[Len(seqs)]
<1>1. PICK n, V : n = Len(seqs) /\ V = Seq(T)
  OBVIOUS
<1>2. n \in Nat /\ DOMAIN seqs = 1..n /\ \A i \in 1..n : seqs[i] \in V
  BY <1>1
<1> DEFINE turn == [p \in (1..n) \X V |-> p[2] \o seqs[p[1]]]
<1>3. \A i \in 1..n, v \in V : turn[<<i, v>>] = v \o seqs[i] /\ turn[<<i, v>>] \in V
  <2>1. \A v, w \in V : v \o w \in V
    BY <1>1
  <2>2. \A i \in 1..n, v \in V : turn[<<i, v>>] = v \o seqs[i]
    OBVIOUS
  <2> HIDE DEF turn
  <2> QED BY <1>2, <2>1, <2>2
<1>4. PICK g : Iterates(n, V, <<>>, turn, g)
  <2>0. <<>> \in Seq(T)
    OBVIOUS
  <2>1. PICK start : start = <<>> /\ start \in V
    BY <1>1, <2>0, Zenon
  <2> HIDE DEF turn
  <2>2. \E g : Iterates(n, V, start, turn, g)
    BY <1>2, <1>3, <2>1, IndexRecursion
  <2> QED BY <2>1, <2>2
<1> HIDE DEF turn
<1>5. JoinsBy(seqs, T, g)
  <2>1. g \in [0..n -> V] /\ g[0] = <<>>
    BY <1>4 DEF Iterates
  <2>2. ASSUME NEW i \in 1..n PROVE g[i] = g[i - 1] \o seqs[i]
    <3>1. i - 1 \in 0..n /\ g[i - 1] \in V /\ g[i] = turn[<<i, g[i - 1]>>]
      BY <1>2, <1>4, <2>1 DEF Iterates
    <3> QED BY <1>3, <3>1
  <2> QED BY <1>1, <2>1, <2>2 DEF JoinsBy
<1>6. FlattenSeq(seqs) = g[n]
  <2>1. CASE n = 0
    <3>1. FlattenSeq(seqs) = seqs
      BY <1>1, <2>1, Zenon DEF FlattenSeq
    <3>2. seqs = <<>>
      <4>1. Len(seqs) = 0
        BY <1>1, <2>1
      <4> QED BY <4>1
    <3>3. g[0] = <<>>
      BY <1>5 DEF JoinsBy
    <3> QED BY <2>1, <3>1, <3>2, <3>3, Zenon
  <2>2. CASE n # 0
    <3> DEFINE Eq(f) == f = [i \in 1..Len(seqs) |-> IF i = 1 THEN seqs[i] ELSE f[i - 1] \o seqs[i]]
               h == [i \in 1..n |-> g[i]]
               flatten == CHOOSE f : Eq(f)
    <3>1. g[1] = seqs[1]
      <4>1. 1 \in 1..n /\ 1 - 1 = 0 /\ seqs[1] \in Seq(T)
        BY <1>1, <1>2, <2>2
      <4>2. g[1] = <<>> \o seqs[1]
        BY <1>1, <1>5, <4>1 DEF JoinsBy
      <4> QED BY <4>1, <4>2
    <3>2. \A i \in 1..n : h[i] = IF i = 1 THEN seqs[i] ELSE h[i - 1] \o seqs[i]
      <4>1. \A i \in 1..n : i # 1 => i - 1 \in 1..n
        BY <1>2
      <4> QED BY <1>1, <1>5, <3>1, <4>1 DEF JoinsBy
    <3>3. Eq(h)
      BY <1>1, <3>2
    <3>4. Eq(flatten)
      <4> HIDE DEF Eq
      <4> QED BY <3>3
    <3>5. FlattenSeq(seqs) = flatten[n]
      BY <1>1, <2>2, Zenon DEF FlattenSeq, flatten, Eq
    <3> HIDE DEF flatten
    <3>6. \A i \in 1..n : flatten[i] = IF i = 1 THEN seqs[i] ELSE flatten[i - 1] \o seqs[i]
      BY <1>1, <3>4
    <3> DEFINE Q == {i \in 0..n : i # 0 => flatten[i] = g[i]}
    <3>7. 0 \in Q
      BY <1>2
    <3>8. ASSUME NEW i \in 0..(n - 1), i \in Q PROVE i + 1 \in Q
      <4>1. PICK k : k = i + 1
        OBVIOUS
      <4>2. k \in 1..n /\ k - 1 = i /\ (k = 1 <=> i = 0)
        BY <1>2, <4>1
      <4>3. \A j \in 1..n : g[j] = g[j - 1] \o seqs[j]
        BY <1>1, <1>5, Zenon DEF JoinsBy
      <4>4. g[k] = g[k - 1] \o seqs[k]
        BY <4>2, <4>3
      <4>5. flatten[k] = IF k = 1 THEN seqs[k] ELSE flatten[k - 1] \o seqs[k]
        BY <3>6, <4>2
      <4>6. CASE i = 0
        <5>1. k = 1
          BY <4>2, <4>6
        <5> QED BY <1>2, <3>1, <4>1, <4>2, <4>5, <5>1
      <4>7. CASE i # 0
        <5>1. flatten[i] = g[i]
          BY <3>8, <4>7
        <5>2. flatten[k] = flatten[i] \o seqs[k] /\ g[k] = g[i] \o seqs[k]
          BY <4>2, <4>4, <4>5, <4>7
        <5>3. flatten[k] = g[k]
          BY <5>1, <5>2, Zenon
        <5> QED BY <4>1, <4>2, <5>3
      <4> QED BY <4>6, <4>7
    <3>9. flatten[n] = g[n]
      <4> HIDE DEF Q
      <4>1. 0..n \subseteq Q
        BY <1>2, <3>7, <3>8, IndexInduction
      <4> QED BY <1>2, <2>2, <4>1 DEF Q
    <3> QED BY <3>5, <3>9
  <2> QED BY <2>1, <2>2
<1> QED BY <1>1, <1>5, <1>6

(* One more sequence is joined behind the others.                          *)
LEMMA FlattenAppend ==
  ASSUME NEW T, NEW seqs \in Seq(Seq(T)), NEW s \in Seq(T)
  PROVE  /\ FlattenSeq(seqs) \in Seq(T) /\ FlattenSeq(<<>>) = <<>>
         /\ FlattenSeq(Append(seqs, s)) = FlattenSeq(seqs) \o s
<1>1. PICK longer, n : longer = Append(seqs, s) /\ n = Len(seqs)
  OBVIOUS
<1>2. n \in Nat /\ longer \in Seq(Seq(T)) /\ Len(longer) = n + 1
      /\ longer[n + 1] = s /\ \A i \in 1..n : longer[i] = seqs[i]
  BY <1>1
<1>3. PICK g : JoinsBy(seqs, T, g) /\ FlattenSeq(seqs) = g[n]
  BY <1>1, FlattenDef
<1>4. PICK h : JoinsBy(longer, T, h) /\ FlattenSeq(longer) = h[n + 1]
  BY <1>2, FlattenDef
<1>10. \A i \in 1..n : g[i] = g[i - 1] \o seqs[i]
  BY <1>1, <1>3, Zenon DEF JoinsBy
<1>11. \A i \in 1..(n + 1) : h[i] = h[i - 1] \o longer[i]
  BY <1>2, <1>4, Zenon DEF JoinsBy
<1> DEFINE S == {i \in 0..n : h[i] = g[i]}
<1>5. 0 \in S
  BY <1>2, <1>3, <1>4 DEF JoinsBy
<1>6. ASSUME NEW i \in 0..(n - 1), i \in S PROVE i + 1 \in S
  <2>1. PICK k : k = i + 1
    OBVIOUS
  <2>2. k \in 1..n /\ k \in 1..(n + 1) /\ k - 1 = i /\ h[i] = g[i]
    <3>1. n \in Nat
      BY <1>2
    <3>2. k \in 1..n /\ k \in 1..(n + 1) /\ k - 1 = i
      BY <2>1, <3>1
    <3>3. h[i] = g[i]
      BY <1>6, Zenon
    <3> QED BY <3>2, <3>3
  <2>3. h[k] = h[k - 1] \o longer[k] /\ g[k] = g[k - 1] \o seqs[k]
    BY <1>10, <1>11, <2>2
  <2>4. h[k] = g[k]
    <3>1. longer[k] = seqs[k]
      BY <1>2, <2>2
    <3> QED BY <2>2, <2>3, <3>1, Zenon
  <2> QED BY <2>1, <2>2, <2>4
<1>7. h[n] = g[n]
  <2> HIDE DEF S
  <2>1. 0..n \subseteq S
    BY <1>2, <1>5, <1>6, IndexInduction
  <2> QED BY <1>2, <2>1 DEF S
<1>8. h[n + 1] = h[n] \o s
  <2>1. n + 1 \in 1..(n + 1) /\ n + 1 - 1 = n
    BY <1>2
  <2>2. PICK k : k = n + 1
    OBVIOUS
  <2>3. k \in 1..(n + 1) /\ k - 1 = n
    BY <1>2, <2>1, <2>2
  <2>4. h[k] = h[k - 1] \o longer[k]
    BY <1>11, <2>3
  <2>5. longer[k] = s
    BY <1>2, <2>2
  <2>6. h[k] = h[n] \o s
    BY <2>3, <2>4, <2>5, Zenon
  <2> QED BY <2>2, <2>6
<1>9. FlattenSeq(seqs) \in Seq(T) /\ FlattenSeq(<<>>) = <<>>
  <2>1. g[n] \in Seq(T)
    BY <1>1, <1>2, <1>3 DEF JoinsBy
  <2> QED BY <1>3, <2>1 DEF FlattenSeq
<1> QED BY <1>1, <1>3, <1>4, <1>7, <1>8, <1>9

------------------------------------------------------------------------------
(* Queries: insertion, parsing and merging.                                *)

(* Inserting keeps the type of a query.                                    *)
LEMMA InsertType ==
  ASSUME NEW T, NEW query \in Seq(T), NEW entry \in T
  PROVE  Insert(query, entry) \in Seq(T)
<1>1. CASE entry.key \in KeysOf(query)
  <2>1. Insert(query, entry) = [i \in DOMAIN query |-> IF query[i].key = entry.key THEN entry ELSE query[i]]
    BY <1>1, Zenon DEF Insert
  <2>2. \A i \in DOMAIN query : (IF query[i].key = entry.key THEN entry ELSE query[i]) \in T
    OBVIOUS
  <2>3. PICK n : n = Len(query) /\ n \in Nat /\ DOMAIN query = 1..n
    OBVIOUS
  <2>4. Insert(query, entry) \in [1..n -> T]
    BY <2>1, <2>2, <2>3
  <2> QED BY <2>3, <2>4
<1>2. CASE entry.key \notin KeysOf(query)
  BY <1>2 DEF Insert
<1> QED BY <1>1, <1>2

(* h is the query after each of the entries of seq.                        *)
MergesBy(V, start, seq, h) ==
  /\ h \in [0..Len(seq) -> V]
  /\ h[0] = start
  /\ \A i \in 1..Len(seq) : h[i] = Insert(h[i - 1], seq[i])

(* The queries after each entry that is merged. *)
LEMMA MergeQueriesFold ==
  ASSUME NEW T, NEW embedded \in Seq(T), NEW query \in Seq(T)
  PROVE  \E h : MergesBy(Seq(T), embedded, query, h) /\ MergeQueries(embedded, query) = h[Len(query)]
<1> DEFINE Eq(f) == f = [s \in SUBSET DOMAIN query |->
                           IF s = {} THEN embedded ELSE Insert(f[s \ {Max(s)}], query[Max(s)])]
           turn == [p \in (1..Len(query)) \X Seq(T) |-> Insert(p[2], query[p[1]])]
<1>1. PICK n, W, start : n = Len(query) /\ W = Seq(T) /\ start = embedded /\ start \in W
  OBVIOUS
<1>2. n \in Nat /\ DOMAIN query = 1..n
  BY <1>1
<1>3. \A i \in 1..n, v \in W : turn[<<i, v>>] = Insert(v, query[i])
  BY <1>1
<1>4. \A i \in 1..n, v \in W : Insert(v, query[i]) \in W
  <2>1. \A i \in 1..n : query[i] \in T
    BY <1>1
  <2> QED BY <1>1, <2>1, InsertType
<1>5. \A i \in 1..n, v \in W : turn[<<i, v>>] \in W
  <2> HIDE DEF turn
  <2> QED BY <1>3, <1>4
<1>6. PICK g : FoldsFrom(n, W, start, turn, g)
  <2> HIDE DEF turn
  <2> QED BY <1>1, <1>2, <1>5, FoldRecursion
<1>7. \A s \in SUBSET (1..n) : g[s] = IF s = {} THEN embedded ELSE Insert(g[s \ {Max(s)}], query[Max(s)])
  <2> SUFFICES ASSUME NEW s \in SUBSET (1..n)
               PROVE  g[s] = IF s = {} THEN embedded ELSE Insert(g[s \ {Max(s)}], query[Max(s)])
    OBVIOUS
  <2>1. CASE s = {}
    BY <1>1, <1>6, <2>1, Zenon DEF FoldsFrom
  <2>2. CASE s # {}
    <3>1. Max(s) \in 1..n /\ s \ {Max(s)} \in SUBSET (1..n)
      BY <1>2, <2>2, MaxOfPositions
    <3>2. g[s \ {Max(s)}] \in W
      BY <1>6, <3>1 DEF FoldsFrom
    <3>3. g[s] = turn[<<Max(s), g[s \ {Max(s)}]>>]
      BY <1>6, <2>2 DEF FoldsFrom
    <3> HIDE DEF turn
    <3>4. g[s] = Insert(g[s \ {Max(s)}], query[Max(s)])
      BY <1>3, <3>1, <3>2, <3>3
    <3> QED BY <2>2, <3>4, Zenon
  <2> QED BY <2>1, <2>2
<1>8. Eq(g)
  <2>1. g = [s \in SUBSET (1..n) |-> g[s]]
    BY <1>6 DEF FoldsFrom
  <2> QED BY <1>2, <1>7, <2>1, Zenon
<1> DEFINE iter == CHOOSE f : Eq(f)
<1>9. Eq(iter)
  <2> HIDE DEF Eq
  <2> QED BY <1>8
<1>10. MergeQueries(embedded, query) = iter[DOMAIN query]
  BY Zenon DEF MergeQueries, FoldLeft, MapThenFoldSet, iter, Eq
<1> HIDE DEF iter
<1>11. \A s \in SUBSET (1..n) :
         iter[s] = IF s = {} THEN embedded ELSE Insert(iter[s \ {Max(s)}], query[Max(s)])
  BY <1>2, <1>9, Zenon
<1> HIDE DEF Eq, turn
<1> DEFINE h == [i \in 0..n |-> iter[1..i]]
<1>12. h[0] = embedded /\ h[n] = MergeQueries(embedded, query)
  <2>1. 1..0 = {} /\ {} \in SUBSET (1..n) /\ 0 \in 0..n /\ n \in 0..n
    BY <1>2
  <2>2. iter[{}] = embedded
    BY <1>11, <2>1, Zenon
  <2> QED BY <1>2, <1>10, <2>1, <2>2, Zenon
<1>13. ASSUME NEW i \in 1..n PROVE h[i] = Insert(h[i - 1], query[i])
  <2>1. /\ 1..i \in SUBSET (1..n) /\ 1..i # {} /\ Max(1..i) = i /\ (1..i) \ {i} = 1..(i - 1)
        /\ i \in 0..n /\ i - 1 \in 0..n
    BY <1>2, FirstPositions
  <2>2. iter[1..i] = Insert(iter[(1..i) \ {i}], query[i])
    BY <1>11, <2>1, Zenon
  <2> QED BY <2>1, <2>2, Zenon
<1>14. h \in [0..n -> W]
  <2> DEFINE S == {i \in 0..n : h[i] \in W}
  <2> HIDE DEF h
  <2>1. 0 \in S
    <3>1. h[0] \in W
      BY <1>1, <1>12, Zenon
    <3>2. 0 \in 0..n
      BY <1>2
    <3> QED BY <3>1, <3>2
  <2>2. ASSUME NEW i \in 0..(n - 1), i \in S PROVE i + 1 \in S
    <3>1. PICK k : k = i + 1
      OBVIOUS
    <3>2. k \in 1..n /\ k \in 0..n /\ k - 1 = i
      BY <1>2, <3>1
    <3>3. h[k] = Insert(h[k - 1], query[k]) /\ h[k - 1] \in W
      BY <1>13, <2>2, <3>2
    <3>4. h[k] \in W
      BY <1>4, <3>2, <3>3
    <3> QED BY <3>1, <3>2, <3>4
  <2>3. 0..n \subseteq S
    <3> HIDE DEF S
    <3> QED BY <1>2, <2>1, <2>2, IndexInduction
  <2>4. \A i \in 0..n : h[i] \in W
    BY <2>3
  <2> QED BY <2>4 DEF h
<1> HIDE DEF h
<1>15. h[Len(query)] = MergeQueries(embedded, query)
  BY <1>1, <1>12
<1>16. MergesBy(Seq(T), embedded, query, h)
  BY <1>1, <1>12, <1>13, <1>14, Zenon DEF MergesBy
<1> QED BY <1>15, <1>16

(* One more. *)
LEMMA MergeQueriesAppend ==
  ASSUME NEW T, NEW embedded \in Seq(T), NEW query \in Seq(T), NEW entry \in T
  PROVE  /\ MergeQueries(embedded, <<>>) = embedded
         /\ MergeQueries(embedded, query) \in Seq(T)
         /\ MergeQueries(embedded, Append(query, entry)) = Insert(MergeQueries(embedded, query), entry)
<1>1. PICK longer, n, W : longer = Append(query, entry) /\ n = Len(query) /\ W = Seq(T)
  OBVIOUS
<1>2. /\ n \in Nat /\ longer \in Seq(T) /\ Len(longer) = n + 1
      /\ longer[n + 1] = entry /\ \A i \in 1..n : longer[i] = query[i]
  BY <1>1
<1>3. PICK g : MergesBy(Seq(T), embedded, query, g) /\ MergeQueries(embedded, query) = g[n]
  BY <1>1, MergeQueriesFold
<1>4. PICK h : MergesBy(Seq(T), embedded, longer, h) /\ MergeQueries(embedded, longer) = h[n + 1]
  BY <1>2, MergeQueriesFold
<1>11. \A i \in 1..n : g[i] = Insert(g[i - 1], query[i])
  BY <1>1, <1>3, Zenon DEF MergesBy
<1>12. \A i \in 1..(n + 1) : h[i] = Insert(h[i - 1], longer[i])
  BY <1>2, <1>4, Zenon DEF MergesBy
<1>13. g[0] = embedded /\ h[0] = embedded /\ g \in [0..n -> W]
  BY <1>1, <1>3, <1>4 DEF MergesBy
<1> DEFINE S == {i \in 0..n : h[i] = g[i]}
<1>5. 0 \in S
  BY <1>2, <1>13
<1>6. ASSUME NEW i \in 0..(n - 1), i \in S PROVE i + 1 \in S
  <2>1. PICK k : k = i + 1
    OBVIOUS
  <2>2. k \in 1..n /\ k \in 1..(n + 1) /\ k - 1 = i /\ h[i] = g[i]
    <3>1. n \in Nat
      BY <1>2
    <3>2. k \in 1..n /\ k \in 1..(n + 1) /\ k - 1 = i
      BY <2>1, <3>1
    <3>3. h[i] = g[i]
      BY <1>6, Zenon
    <3> QED BY <3>2, <3>3
  <2>3. h[k] = Insert(h[k - 1], longer[k]) /\ g[k] = Insert(g[k - 1], query[k])
    BY <1>11, <1>12, <2>2
  <2>4. h[k] = g[k]
    <3>1. longer[k] = query[k]
      BY <1>2, <2>2
    <3> QED BY <2>2, <2>3, <3>1, Zenon
  <2> QED BY <2>1, <2>2, <2>4
<1>7. h[n] = g[n]
  <2> HIDE DEF S
  <2>1. 0..n \subseteq S
    BY <1>2, <1>5, <1>6, IndexInduction
  <2> QED BY <1>2, <2>1 DEF S
<1>8. h[n + 1] = Insert(h[n], entry)
  <2>1. PICK k : k = n + 1
    OBVIOUS
  <2>2. k \in 1..(n + 1) /\ k - 1 = n /\ longer[k] = entry
    BY <1>2, <2>1
  <2>3. h[k] = Insert(h[k - 1], longer[k])
    BY <1>12, <2>2
  <2>4. h[k] = Insert(h[n], entry)
    BY <2>2, <2>3, Zenon
  <2> QED BY <2>1, <2>4
<1>9. MergeQueries(embedded, <<>>) = embedded
  <2>1. <<>> \in Seq(T) /\ Len(<<>>) = 0
    OBVIOUS
  <2>2. PICK f : MergesBy(Seq(T), embedded, <<>>, f) /\ MergeQueries(embedded, <<>>) = f[Len(<<>>)]
    BY <2>1, MergeQueriesFold
  <2> QED BY <2>1, <2>2, Zenon DEF MergesBy
<1>10. MergeQueries(embedded, query) \in W
  BY <1>2, <1>3, <1>13
<1> QED BY <1>1, <1>3, <1>4, <1>7, <1>8, <1>9, <1>10, Zenon

(* The entries that pairs of a set can make.                               *)
EntriesFrom(P) == [key : {p[1] : p \in P}, array : BOOLEAN, values : Seq({p[2] : p \in P})]

(* A pair keeps the type of a parsed query.                                *)
LEMMA InsertPairType ==
  ASSUME NEW P, NEW map \in Seq(EntriesFrom(P)), NEW p \in P
  PROVE  InsertPair(map, p) \in Seq(EntriesFrom(P))
<1>1. PICK E, k, v, V : E = EntriesFrom(P) /\ k = p[1] /\ v = p[2] /\ V = {q[2] : q \in P}
  OBVIOUS
<1>2. v \in V /\ k \in {q[1] : q \in P}
  BY <1>1
<1>3. CASE k \in KeysOf(map)
  <2>1. PICK old : old = CHOOSE e \in ToSet(map) : e.key = p[1]
    OBVIOUS
  <2>2. \E e \in ToSet(map) : e.key = p[1]
    BY <1>1, <1>3 DEF KeysOf, ToSet
  <2>3. old \in ToSet(map)
    BY <2>1, <2>2
  <2>4. old \in E
    BY <1>1, <2>3 DEF ToSet
  <2>5. old.values \in Seq(V)
    BY <1>1, <2>4 DEF EntriesFrom
  <2>6. Append(old.values, v) \in Seq(V)
    BY <1>2, <2>5
  <2>7. Array(k, Append(old.values, v)) \in E
    BY <1>1, <1>2, <2>6 DEF Array, EntriesFrom
  <2>8. InsertPair(map, p) = Insert(map, Array(k, Append(old.values, v)))
    BY <1>1, <1>3, <2>1, Zenon DEF InsertPair
  <2> QED BY <1>1, <2>7, <2>8, InsertType
<1>4. CASE k \notin KeysOf(map)
  <2>1. <<v>> \in Seq(V)
    BY <1>2
  <2>2. Scalar(k, v) \in E
    BY <1>1, <1>2, <2>1 DEF Scalar, EntriesFrom
  <2>3. InsertPair(map, p) = Insert(map, Scalar(k, v))
    BY <1>1, <1>4, Zenon DEF InsertPair
  <2> QED BY <1>1, <2>2, <2>3, InsertType
<1> QED BY <1>3, <1>4

(* h is the parsed query after each of the pairs.                          *)
GroupsBy(V, start, seq, h) ==
  /\ h \in [0..Len(seq) -> V]
  /\ h[0] = start
  /\ \A i \in 1..Len(seq) : h[i] = InsertPair(h[i - 1], seq[i])

(* The entries after each pair that is parsed. *)
LEMMA ParseFold ==
  ASSUME NEW T, NEW pairs \in Seq(T)
  PROVE  \E h : GroupsBy(Seq(EntriesFrom(T)), <<>>, pairs, h) /\ ParseQueryString(pairs) = h[Len(pairs)]
<1> DEFINE Eq(f) == f = [s \in SUBSET DOMAIN pairs |->
                           IF s = {} THEN <<>> ELSE InsertPair(f[s \ {Max(s)}], pairs[Max(s)])]
           turn == [p \in (1..Len(pairs)) \X Seq(EntriesFrom(T)) |-> InsertPair(p[2], pairs[p[1]])]
<1>1. PICK n, W, start : n = Len(pairs) /\ W = Seq(EntriesFrom(T)) /\ start = <<>> /\ start \in W
  <2>1. <<>> \in Seq(EntriesFrom(T))
    OBVIOUS
  <2> QED BY <2>1, Zenon
<1>2. n \in Nat /\ DOMAIN pairs = 1..n
  BY <1>1
<1>3. \A i \in 1..n, v \in W : turn[<<i, v>>] = InsertPair(v, pairs[i])
  BY <1>1
<1>4. \A i \in 1..n, v \in W : InsertPair(v, pairs[i]) \in W
  <2>1. \A i \in 1..n : pairs[i] \in T
    BY <1>1
  <2> QED BY <1>1, <2>1, InsertPairType
<1>5. \A i \in 1..n, v \in W : turn[<<i, v>>] \in W
  <2> HIDE DEF turn
  <2> QED BY <1>3, <1>4
<1>6. PICK g : FoldsFrom(n, W, start, turn, g)
  <2> HIDE DEF turn
  <2> QED BY <1>1, <1>2, <1>5, FoldRecursion
<1>7. \A s \in SUBSET (1..n) : g[s] = IF s = {} THEN <<>> ELSE InsertPair(g[s \ {Max(s)}], pairs[Max(s)])
  <2> SUFFICES ASSUME NEW s \in SUBSET (1..n)
               PROVE  g[s] = IF s = {} THEN <<>> ELSE InsertPair(g[s \ {Max(s)}], pairs[Max(s)])
    OBVIOUS
  <2>1. CASE s = {}
    BY <1>1, <1>6, <2>1, Zenon DEF FoldsFrom
  <2>2. CASE s # {}
    <3>1. Max(s) \in 1..n /\ s \ {Max(s)} \in SUBSET (1..n)
      BY <1>2, <2>2, MaxOfPositions
    <3>2. g[s \ {Max(s)}] \in W
      BY <1>6, <3>1 DEF FoldsFrom
    <3>3. g[s] = turn[<<Max(s), g[s \ {Max(s)}]>>]
      BY <1>6, <2>2 DEF FoldsFrom
    <3> HIDE DEF turn
    <3>4. g[s] = InsertPair(g[s \ {Max(s)}], pairs[Max(s)])
      BY <1>3, <3>1, <3>2, <3>3
    <3> QED BY <2>2, <3>4, Zenon
  <2> QED BY <2>1, <2>2
<1>8. Eq(g)
  <2>1. g = [s \in SUBSET (1..n) |-> g[s]]
    BY <1>6 DEF FoldsFrom
  <2> QED BY <1>2, <1>7, <2>1, Zenon
<1> DEFINE iter == CHOOSE f : Eq(f)
<1>9. Eq(iter)
  <2> HIDE DEF Eq
  <2> QED BY <1>8
<1>10. ParseQueryString(pairs) = iter[DOMAIN pairs]
  BY Zenon DEF ParseQueryString, FoldLeft, MapThenFoldSet, iter, Eq
<1> HIDE DEF iter
<1>11. \A s \in SUBSET (1..n) :
         iter[s] = IF s = {} THEN <<>> ELSE InsertPair(iter[s \ {Max(s)}], pairs[Max(s)])
  BY <1>2, <1>9, Zenon
<1> HIDE DEF Eq, turn
<1> DEFINE h == [i \in 0..n |-> iter[1..i]]
<1>12. h[0] = <<>> /\ h[n] = ParseQueryString(pairs)
  <2>1. 1..0 = {} /\ {} \in SUBSET (1..n) /\ 0 \in 0..n /\ n \in 0..n
    BY <1>2
  <2>2. iter[{}] = <<>>
    BY <1>11, <2>1, Zenon
  <2> QED BY <1>2, <1>10, <2>1, <2>2, Zenon
<1>13. ASSUME NEW i \in 1..n PROVE h[i] = InsertPair(h[i - 1], pairs[i])
  <2>1. /\ 1..i \in SUBSET (1..n) /\ 1..i # {} /\ Max(1..i) = i /\ (1..i) \ {i} = 1..(i - 1)
        /\ i \in 0..n /\ i - 1 \in 0..n
    BY <1>2, FirstPositions
  <2>2. iter[1..i] = InsertPair(iter[(1..i) \ {i}], pairs[i])
    BY <1>11, <2>1, Zenon
  <2> QED BY <2>1, <2>2, Zenon
<1>14. h \in [0..n -> W]
  <2> DEFINE S == {i \in 0..n : h[i] \in W}
  <2> HIDE DEF h
  <2>1. 0 \in S
    <3>1. h[0] \in W
      BY <1>1, <1>12, Zenon
    <3>2. 0 \in 0..n
      BY <1>2
    <3> QED BY <3>1, <3>2
  <2>2. ASSUME NEW i \in 0..(n - 1), i \in S PROVE i + 1 \in S
    <3>1. PICK k : k = i + 1
      OBVIOUS
    <3>2. k \in 1..n /\ k \in 0..n /\ k - 1 = i
      BY <1>2, <3>1
    <3>3. h[k] = InsertPair(h[k - 1], pairs[k]) /\ h[k - 1] \in W
      BY <1>13, <2>2, <3>2
    <3>4. h[k] \in W
      BY <1>4, <3>2, <3>3
    <3> QED BY <3>1, <3>2, <3>4
  <2>3. 0..n \subseteq S
    <3> HIDE DEF S
    <3> QED BY <1>2, <2>1, <2>2, IndexInduction
  <2>4. \A i \in 0..n : h[i] \in W
    BY <2>3
  <2> QED BY <2>4 DEF h
<1> HIDE DEF h
<1>15. h[Len(pairs)] = ParseQueryString(pairs)
  BY <1>1, <1>12
<1>16. GroupsBy(Seq(EntriesFrom(T)), <<>>, pairs, h)
  BY <1>1, <1>12, <1>13, <1>14, Zenon DEF GroupsBy
<1> QED BY <1>15, <1>16

(* One more. *)
LEMMA ParseAppend ==
  ASSUME NEW T, NEW pairs \in Seq(T), NEW pair \in T
  PROVE  /\ ParseQueryString(<<>>) = <<>>
         /\ ParseQueryString(pairs) \in Seq(EntriesFrom(T))
         /\ ParseQueryString(Append(pairs, pair)) = InsertPair(ParseQueryString(pairs), pair)
<1>1. PICK longer, n, W : longer = Append(pairs, pair) /\ n = Len(pairs) /\ W = Seq(EntriesFrom(T))
  OBVIOUS
<1>2. /\ n \in Nat /\ longer \in Seq(T) /\ Len(longer) = n + 1
      /\ longer[n + 1] = pair /\ \A i \in 1..n : longer[i] = pairs[i]
  BY <1>1
<1>3. PICK g : GroupsBy(Seq(EntriesFrom(T)), <<>>, pairs, g) /\ ParseQueryString(pairs) = g[n]
  BY <1>1, ParseFold
<1>4. PICK h : GroupsBy(Seq(EntriesFrom(T)), <<>>, longer, h) /\ ParseQueryString(longer) = h[n + 1]
  BY <1>2, ParseFold
<1>11. \A i \in 1..n : g[i] = InsertPair(g[i - 1], pairs[i])
  BY <1>1, <1>3, Zenon DEF GroupsBy
<1>12. \A i \in 1..(n + 1) : h[i] = InsertPair(h[i - 1], longer[i])
  BY <1>2, <1>4, Zenon DEF GroupsBy
<1>13. g[0] = <<>> /\ h[0] = <<>> /\ g \in [0..n -> W]
  BY <1>1, <1>3, <1>4 DEF GroupsBy
<1> DEFINE S == {i \in 0..n : h[i] = g[i]}
<1>5. 0 \in S
  BY <1>2, <1>13
<1>6. ASSUME NEW i \in 0..(n - 1), i \in S PROVE i + 1 \in S
  <2>1. PICK k : k = i + 1
    OBVIOUS
  <2>2. k \in 1..n /\ k \in 1..(n + 1) /\ k - 1 = i /\ h[i] = g[i]
    <3>1. n \in Nat
      BY <1>2
    <3>2. k \in 1..n /\ k \in 1..(n + 1) /\ k - 1 = i
      BY <2>1, <3>1
    <3>3. h[i] = g[i]
      BY <1>6, Zenon
    <3> QED BY <3>2, <3>3
  <2>3. h[k] = InsertPair(h[k - 1], longer[k]) /\ g[k] = InsertPair(g[k - 1], pairs[k])
    BY <1>11, <1>12, <2>2
  <2>4. h[k] = g[k]
    <3>1. longer[k] = pairs[k]
      BY <1>2, <2>2
    <3> QED BY <2>2, <2>3, <3>1, Zenon
  <2> QED BY <2>1, <2>2, <2>4
<1>7. h[n] = g[n]
  <2> HIDE DEF S
  <2>1. 0..n \subseteq S
    BY <1>2, <1>5, <1>6, IndexInduction
  <2> QED BY <1>2, <2>1 DEF S
<1>8. h[n + 1] = InsertPair(h[n], pair)
  <2>1. PICK k : k = n + 1
    OBVIOUS
  <2>2. k \in 1..(n + 1) /\ k - 1 = n /\ longer[k] = pair
    BY <1>2, <2>1
  <2>3. h[k] = InsertPair(h[k - 1], longer[k])
    BY <1>12, <2>2
  <2>4. h[k] = InsertPair(h[n], pair)
    BY <2>2, <2>3, Zenon
  <2> QED BY <2>1, <2>4
<1>9. ParseQueryString(<<>>) = <<>>
  <2>1. <<>> \in Seq(T) /\ Len(<<>>) = 0
    OBVIOUS
  <2>2. PICK f : GroupsBy(Seq(EntriesFrom(T)), <<>>, <<>>, f) /\ ParseQueryString(<<>>) = f[Len(<<>>)]
    BY <2>1, ParseFold
  <2> QED BY <2>1, <2>2, Zenon DEF GroupsBy
<1>10. ParseQueryString(pairs) \in W
  BY <1>2, <1>3, <1>13
<1> QED BY <1>1, <1>3, <1>4, <1>7, <1>8, <1>9, <1>10, Zenon

(* No key has two entries.                                                 *)
Unique(query) == \A i, j \in DOMAIN query : query[i].key = query[j].key => i = j

(* Inserting replaces the entry of a key.                                  *)
LEMMA InsertIs ==
  ASSUME NEW T, NEW query \in Seq(T), NEW entry \in T, Unique(query)
  PROVE  /\ Unique(Insert(query, entry))
         /\ ToSet(Insert(query, entry)) = {e \in ToSet(query) : e.key # entry.key} \cup {entry}
<1>1. PICK n, q : n = Len(query) /\ q = Insert(query, entry)
  OBVIOUS
<1>2. n \in Nat /\ DOMAIN query = 1..n
  BY <1>1
<1>3. CASE entry.key \in KeysOf(query)
  <2>1. q = [i \in 1..n |-> IF query[i].key = entry.key THEN entry ELSE query[i]]
    BY <1>1, <1>2, <1>3, Zenon DEF Insert
  <2>2. \A i \in 1..n : q[i].key = query[i].key
    BY <2>1
  <2>3. Unique(q)
    BY <1>2, <2>1, <2>2 DEF Unique
  <2>4. PICK k \in 1..n : query[k].key = entry.key
    BY <1>2, <1>3 DEF KeysOf
  <2>5. ToSet(q) = {q[i] : i \in 1..n} /\ ToSet(query) = {query[i] : i \in 1..n}
    BY <1>2, <2>1 DEF ToSet
  <2>6. ToSet(q) \subseteq {e \in ToSet(query) : e.key # entry.key} \cup {entry}
    BY <2>1, <2>5
  <2>7. entry \in ToSet(q)
    BY <2>1, <2>4, <2>5
  <2>8. {e \in ToSet(query) : e.key # entry.key} \subseteq ToSet(q)
    BY <2>1, <2>5
  <2> QED BY <1>1, <2>3, <2>6, <2>7, <2>8
<1>4. CASE entry.key \notin KeysOf(query)
  <2>1. q = Append(query, entry)
    BY <1>1, <1>4, Zenon DEF Insert
  <2>2. /\ DOMAIN q = 1..(n + 1) /\ q[n + 1] = entry /\ \A i \in 1..n : q[i] = query[i]
    BY <1>1, <2>1
  <2>3. \A i \in 1..n : query[i].key # entry.key
    BY <1>2, <1>4 DEF KeysOf
  <2>4. \A i \in 1..(n + 1) : i \in 1..n \/ i = n + 1
    BY <1>2
  <2>5. Unique(q)
    BY <1>2, <2>2, <2>3, <2>4 DEF Unique
  <2>6. ToSet(q) = {q[i] : i \in 1..(n + 1)} /\ ToSet(query) = {query[i] : i \in 1..n}
    BY <1>2, <2>2 DEF ToSet
  <2>7. n + 1 \in 1..(n + 1) /\ \A i \in 1..n : i \in 1..(n + 1)
    BY <1>2
  <2>8. ToSet(q) \subseteq ToSet(query) \cup {entry}
    BY <2>2, <2>4, <2>6
  <2>9. ToSet(query) \cup {entry} \subseteq ToSet(q)
    BY <2>2, <2>6, <2>7
  <2>10. \A e \in ToSet(query) : e.key # entry.key
    BY <2>3, <2>6
  <2> QED BY <1>1, <2>5, <2>8, <2>9, <2>10
<1> QED BY <1>3, <1>4

(* The entries of a key.                                                   *)
Keyed(T, key) == {e \in T : e.key = key}

(* As a set, what is kept is an intersection.                              *)
LEMMA KeptElements ==
  ASSUME NEW T, NEW seq \in Seq(T), NEW K
  PROVE  ToSet(Kept(seq, K)) = ToSet(seq) \cap K
<1>1. PICK at : at = {i \in DOMAIN seq : seq[i] \in K}
  OBVIOUS
<1>4. PICK kept : kept = Selected(seq, at)
  OBVIOUS
<1>2. /\ \A j \in DOMAIN kept : \E i \in DOMAIN seq : i \in at /\ kept[j] = seq[i]
      /\ \A i \in DOMAIN seq : i \in at => \E j \in DOMAIN kept : kept[j] = seq[i]
  BY <1>4, SelectedElements
<1>3. ToSet(kept) = ToSet(seq) \cap K
  <2>1. ToSet(kept) = {kept[j] : j \in DOMAIN kept} /\ ToSet(seq) = {seq[i] : i \in DOMAIN seq}
    BY DEF ToSet
  <2>2. ToSet(kept) \subseteq ToSet(seq) \cap K
    BY <1>1, <1>2, <2>1
  <2>3. ToSet(seq) \cap K \subseteq ToSet(kept)
    BY <1>1, <1>2, <2>1
  <2> QED BY <2>2, <2>3
<1> QED BY <1>1, <1>3, <1>4, Zenon DEF Kept

(* The last element of a sequence.                                         *)
LEMMA LastIs ==
  ASSUME NEW T, NEW seq \in Seq(T), NEW e \in T
  PROVE  /\ Append(seq, e) # <<>> /\ Last(Append(seq, e)) = e
         /\ seq # <<>> => Last(seq) \in ToSet(seq)
<1>1. Append(seq, e) # <<>> /\ Last(Append(seq, e)) = e
  BY DEF Last
<1>2. ASSUME seq # <<>> PROVE Last(seq) \in ToSet(seq)
  <2>1. Len(seq) \in DOMAIN seq
    BY <1>2
  <2> QED BY <2>1 DEF Last, ToSet
<1> QED BY <1>1, <1>2

(* Of a merged query: each key has its last entry among those merged, or   *)
(* else the one it had.                                                    *)
MergedAs(T, embedded, query, merged) ==
  /\ merged \in Seq(T) /\ Unique(merged)
  /\ \A key : IF Kept(query, Keyed(T, key)) # <<>>
              THEN ToSet(merged) \cap Keyed(T, key) = {Last(Kept(query, Keyed(T, key)))}
              ELSE ToSet(merged) \cap Keyed(T, key) = ToSet(embedded) \cap Keyed(T, key)

(* A merged query has that shape.                                          *)
LEMMA MergeIs ==
  ASSUME NEW T, NEW embedded \in Seq(T), Unique(embedded), NEW query \in Seq(T)
  PROVE  MergedAs(T, embedded, query, MergeQueries(embedded, query))
<1> DEFINE P == {q \in Seq(T) : MergedAs(T, embedded, q, MergeQueries(embedded, q))}
<1>1. <<>> \in P
  <2>1. MergeQueries(embedded, <<>>) = embedded
    <3>1. CASE T = {}
      <4>1. <<>> \in Seq(T) /\ Len(<<>>) = 0
        OBVIOUS
      <4>2. PICK h : MergesBy(Seq(T), embedded, <<>>, h) /\ MergeQueries(embedded, <<>>) = h[Len(<<>>)]
        BY <4>1, MergeQueriesFold
      <4> QED BY <4>1, <4>2, Zenon DEF MergesBy
    <3>2. CASE T # {}
      <4>1. PICK e : e \in T
        BY <3>2
      <4> QED BY <4>1, MergeQueriesAppend
    <3> QED BY <3>1, <3>2
  <2>2. \A key : Kept(<<>>, Keyed(T, key)) = <<>>
    BY SelectedEmpty DEF Kept
  <2>3. MergedAs(T, embedded, <<>>, embedded)
    BY <2>2 DEF MergedAs
  <2>4. <<>> \in Seq(T)
    OBVIOUS
  <2> QED BY <2>1, <2>3, <2>4
<1>2. ASSUME NEW q \in Seq(T), NEW e \in T, q \in P PROVE Append(q, e) \in P
  <2>1. PICK m, longer, new : /\ m = MergeQueries(embedded, q) /\ longer = Append(q, e)
                              /\ new = MergeQueries(embedded, longer)
    OBVIOUS
  <2>2. m \in Seq(T) /\ new = Insert(m, e)
    BY <2>1, MergeQueriesAppend
  <2>3. MergedAs(T, embedded, q, m)
    BY <1>2, <2>1
  <2>4. Unique(m)
    BY <2>3 DEF MergedAs
  <2>5. new \in Seq(T) /\ Unique(new) /\ ToSet(new) = {x \in ToSet(m) : x.key # e.key} \cup {e}
    BY <2>2, <2>4, InsertIs, InsertType
  <2>6. ASSUME NEW key
        PROVE  IF Kept(longer, Keyed(T, key)) # <<>>
               THEN ToSet(new) \cap Keyed(T, key) = {Last(Kept(longer, Keyed(T, key)))}
               ELSE ToSet(new) \cap Keyed(T, key) = ToSet(embedded) \cap Keyed(T, key)
    <3>1. PICK K, kept : K = Keyed(T, key) /\ kept = Kept(q, K)
      OBVIOUS
    <3>2. kept \in Seq(T) /\ Kept(longer, K) = IF e \in K THEN Append(kept, e) ELSE kept
      <4>1. /\ Kept(q, K) \in Seq(T)
            /\ Kept(Append(q, e), K) = IF e \in K THEN Append(Kept(q, K), e) ELSE Kept(q, K)
        <5>1. Kept(q, K) \in Seq(T)
          BY KeptAppend
        <5>2. Kept(Append(q, e), K) = IF e \in K THEN Append(Kept(q, K), e) ELSE Kept(q, K)
          BY KeptAppend
        <5> QED BY <5>1, <5>2
      <4> QED BY <2>1, <3>1, <4>1
    <3>3. IF kept # <<>> THEN ToSet(m) \cap K = {Last(kept)} ELSE ToSet(m) \cap K = ToSet(embedded) \cap K
      BY <2>3, <3>1 DEF MergedAs
    <3>4. CASE e.key = key
      <4>1. e \in K /\ Kept(longer, K) = Append(kept, e)
        BY <3>1, <3>2, <3>4 DEF Keyed
      <4>2. ToSet(new) \cap K = {e}
        BY <2>5, <3>1, <3>4, <4>1 DEF Keyed
      <4>3. Append(kept, e) # <<>> /\ Last(Append(kept, e)) = e
        BY <3>2, LastIs
      <4> QED BY <3>1, <4>1, <4>2, <4>3
    <3>5. CASE e.key # key
      <4>1. e \notin K /\ Kept(longer, K) = kept
        BY <3>1, <3>2, <3>5 DEF Keyed
      <4>2. ToSet(new) \cap K = ToSet(m) \cap K
        BY <2>5, <3>1, <3>5 DEF Keyed
      <4> QED BY <3>1, <3>3, <4>1, <4>2
    <3> QED BY <3>4, <3>5
  <2>7. MergedAs(T, embedded, longer, new) /\ longer \in Seq(T)
    BY <2>1, <2>5, <2>6 DEF MergedAs
  <2> QED BY <2>1, <2>7
<1>3. Seq(T) \subseteq P
  <2> HIDE DEF P
  <2> QED BY <1>1, <1>2, AppendInduction
<1> QED BY <1>3

(* Merging twice is merging what is joined.                                *)
LEMMA MergedTwice ==
  ASSUME NEW T, NEW first \in Seq(T), NEW second \in Seq(T), NEW embedded \in Seq(T)
  PROVE  MergeQueries(MergeQueries(embedded, first), second) = MergeQueries(embedded, first \o second)
<1> DEFINE Claim(q) == MergeQueries(MergeQueries(embedded, first), q) = MergeQueries(embedded, first \o q)
           P == {q \in Seq(T) : Claim(q)}
<1>0. ASSUME NEW e \in Seq(T) PROVE MergeQueries(e, <<>>) = e
  <2>1. <<>> \in Seq(T) /\ Len(<<>>) = 0
    OBVIOUS
  <2>2. PICK h : MergesBy(Seq(T), e, <<>>, h) /\ MergeQueries(e, <<>>) = h[Len(<<>>)]
    BY <2>1, MergeQueriesFold
  <2> QED BY <2>1, <2>2, Zenon DEF MergesBy
<1>1. PICK m : m = MergeQueries(embedded, first)
  OBVIOUS
<1>2. m \in Seq(T)
  <2>1. PICK h : MergesBy(Seq(T), embedded, first, h) /\ MergeQueries(embedded, first) = h[Len(first)]
    BY MergeQueriesFold
  <2>2. PICK n : n = Len(first) /\ n \in 0..Len(first)
    OBVIOUS
  <2> QED BY <1>1, <2>1, <2>2 DEF MergesBy
<1>3. <<>> \in P
  <2>1. first \o <<>> = first /\ <<>> \in Seq(T)
    OBVIOUS
  <2>2. MergeQueries(m, <<>>) = m
    BY <1>0, <1>2
  <2> QED BY <1>1, <2>1, <2>2
<1>4. ASSUME NEW q \in Seq(T), NEW e \in T, q \in P PROVE Append(q, e) \in P
  <2>1. PICK j, longer : j = first \o q /\ longer = Append(q, e)
    OBVIOUS
  <2>2. j \in Seq(T) /\ longer \in Seq(T) /\ first \o longer = Append(j, e)
    BY <2>1
  <2>3. MergeQueries(m, longer) = Insert(MergeQueries(m, q), e)
    BY <1>2, <2>1, MergeQueriesAppend
  <2>4. MergeQueries(embedded, Append(j, e)) = Insert(MergeQueries(embedded, j), e)
    BY <2>2, MergeQueriesAppend
  <2>5. MergeQueries(m, q) = MergeQueries(embedded, j)
    BY <1>1, <1>4, <2>1
  <2>6. MergeQueries(m, longer) = MergeQueries(embedded, first \o longer)
    BY <2>2, <2>3, <2>4, <2>5, Zenon
  <2> QED BY <1>1, <2>1, <2>2, <2>6
<1>5. Seq(T) \subseteq P
  <2> HIDE DEF P
  <2> QED BY <1>3, <1>4, AppendInduction
<1> QED BY <1>5

------------------------------------------------------------------------------
(* The values that a query gives a key.                                    *)

(* The values that pairs give a key.                                       *)
Seconds(pairs)   == [i \in DOMAIN pairs |-> pairs[i][2]]

(* The values that pairs give a key.                                       *)
ValuesOf(pairs, key) == Seconds(CallsOf(pairs, {key}))

(* The second parts of two sequences of pairs joined.                      *)
LEMMA SecondsJoined ==
  ASSUME NEW T, NEW a \in Seq(T), NEW b \in Seq(T)
  PROVE  Seconds(a \o b) = Seconds(a) \o Seconds(b)
<1>1. PICK m, n, V : m = Len(a) /\ n = Len(b) /\ V = {t[2] : t \in T}
  OBVIOUS
<1>2. m \in Nat /\ n \in Nat /\ DOMAIN a = 1..m /\ DOMAIN b = 1..n
  BY <1>1
<1>3. PICK c : c = a \o b
  OBVIOUS
<1>4. /\ DOMAIN c = 1..(m + n)
      /\ \A i \in 1..(m + n) : c[i] = IF i <= m THEN a[i] ELSE b[i - m]
  BY <1>1, <1>3
<1>5. PICK x, y : x = Seconds(a) /\ y = Seconds(b)
  OBVIOUS
<1>6. x \in Seq(V) /\ Len(x) = m /\ y \in Seq(V) /\ Len(y) = n
  BY <1>1, <1>2, <1>5 DEF Seconds
<1>7. (\A i \in 1..m : x[i] = a[i][2]) /\ \A i \in 1..n : y[i] = b[i][2]
  BY <1>2, <1>5 DEF Seconds
<1>8. /\ x \o y \in Seq(V) /\ DOMAIN (x \o y) = 1..(m + n)
      /\ \A i \in 1..(m + n) : (x \o y)[i] = IF i <= m THEN x[i] ELSE y[i - m]
  BY <1>2, <1>6
<1>9. Seconds(c) = [i \in 1..(m + n) |-> c[i][2]]
  BY <1>4, Zenon DEF Seconds
<1>10. \A i \in 1..(m + n) : (x \o y)[i] = c[i][2]
  <2> SUFFICES ASSUME NEW i \in 1..(m + n) PROVE (x \o y)[i] = c[i][2]
    OBVIOUS
  <2>1. CASE i <= m
    <3>1. i \in 1..m
      BY <1>2, <2>1
    <3>2. (x \o y)[i] = x[i] /\ c[i] = a[i]
      BY <1>4, <1>8, <2>1
    <3> QED BY <1>7, <3>1, <3>2
  <2>2. CASE ~(i <= m)
    <3>1. PICK j : j = i - m
      OBVIOUS
    <3>2. j \in 1..n
      BY <1>2, <2>2, <3>1
    <3>3. (x \o y)[i] = y[j] /\ c[i] = b[j]
      BY <1>4, <1>8, <2>2, <3>1
    <3> QED BY <1>7, <3>2, <3>3
  <2> QED BY <2>1, <2>2
<1>12. x \o y = Seconds(c)
  <2>1. PICK z, w : z = x \o y /\ w = Seconds(c)
    OBVIOUS
  <2>2. z \in Seq(V) /\ Len(z) = m + n
    <3>1. Len(x \o y) = Len(x) + Len(y)
      BY <1>6
    <3>2. Len(x \o y) = m + n
      BY <1>6, <3>1
    <3> QED BY <1>8, <2>1, <3>2, Zenon
  <2>3. \A i \in 1..(m + n) : z[i] = w[i]
    BY <1>9, <1>10, <2>1
  <2>4. w \in Seq(V) /\ Len(w) = m + n
    <3>1. c \in Seq(T) /\ Len(c) = m + n
      BY <1>1, <1>2, <1>3
    <3>2. w = [i \in 1..(m + n) |-> c[i][2]]
      BY <1>9, <2>1
    <3>3. \A i \in 1..(m + n) : c[i][2] \in V
      BY <1>1, <1>2, <3>1
    <3> QED BY <1>2, <3>2, <3>3
  <2> QED BY <2>1, <2>2, <2>3, <2>4
<1> QED BY <1>3, <1>5, <1>12

(* So with the values of a key.                                            *)
LEMMA ValuesJoined ==
  ASSUME NEW T, NEW a \in Seq(T), NEW b \in Seq(T), NEW key
  PROVE  ValuesOf(a \o b, key) = ValuesOf(a, key) \o ValuesOf(b, key)
<1>1. PICK K : K = {t \in T : t[1] \in {key}}
  OBVIOUS
<1>2. a \o b \in Seq(T)
  OBVIOUS
<1>3. /\ CallsOf(a, {key}) = Kept(a, K) /\ CallsOf(b, {key}) = Kept(b, K)
      /\ CallsOf(a \o b, {key}) = Kept(a \o b, K)
  <2>1. \A s \in Seq(T) : CallsOf(s, {key}) = Kept(s, K)
    <3> SUFFICES ASSUME NEW s \in Seq(T) PROVE CallsOf(s, {key}) = Kept(s, K)
      OBVIOUS
    <3>1. CallsOf(s, {key}) = Kept(s, {t \in T : t[1] \in {key}})
      BY CallsAreKept
    <3> QED BY <1>1, <3>1, Zenon
  <2> QED BY <1>2, <2>1, Zenon
<1>4. Kept(a \o b, K) = Kept(a, K) \o Kept(b, K)
  BY KeptJoined
<1>5. CallsOf(a, {key}) \in Seq(T) /\ CallsOf(b, {key}) \in Seq(T)
  BY SelectedType DEF CallsOf
<1>6. PICK x, y : x = CallsOf(a, {key}) /\ y = CallsOf(b, {key})
  OBVIOUS
<1>7. Seconds(x \o y) = Seconds(x) \o Seconds(y)
  BY <1>5, <1>6, SecondsJoined
<1> QED BY <1>3, <1>4, <1>6, <1>7, Zenon DEF ValuesOf

(* They are second parts of the pairs.                                     *)
LEMMA ValuesType ==
  ASSUME NEW T, NEW a \in Seq(T), NEW key
  PROVE  ValuesOf(a, key) \in Seq({t[2] : t \in T})
<1>1. PICK x : x = CallsOf(a, {key})
  OBVIOUS
<1>2. x \in Seq(T)
  BY <1>1, SelectedType DEF CallsOf
<1>3. Seconds(x) \in Seq({t[2] : t \in T})
  BY <1>2 DEF Seconds
<1> QED BY <1>1, <1>3 DEF ValuesOf

(* One pair gives its value to its own key only.                           *)
LEMMA ValuesOfOne ==
  ASSUME NEW pair, NEW key
  PROVE  ValuesOf(<<pair>>, key) = IF pair[1] = key THEN <<pair[2]>> ELSE <<>>
<1>1. PICK none, seq : none = <<>> /\ seq = <<pair>>
  OBVIOUS
<1>2. seq = Append(none, pair) /\ none \in Seq({pair}) /\ pair \in {pair}
  BY <1>1
<1>7. CallsOf(Append(none, pair), {key}) = IF pair[1] \in {key} THEN Append(CallsOf(none, {key}), pair)
                            ELSE CallsOf(none, {key})
  BY <1>2, CallsOfAppend
<1>3. CallsOf(seq, {key}) = IF pair[1] \in {key} THEN Append(CallsOf(<<>>, {key}), pair)
                            ELSE CallsOf(<<>>, {key})
  BY <1>1, <1>2, <1>7, Zenon
<1>4. CallsOf(<<>>, {key}) = <<>>
  BY CallsOfEmpty
<1>5. CASE pair[1] = key
  <2>1. CallsOf(seq, {key}) = <<pair>>
    <3>1. CallsOf(seq, {key}) = Append(CallsOf(<<>>, {key}), pair)
      BY <1>3, <1>5
    <3>2. Append(<<>>, pair) = <<pair>>
      OBVIOUS
    <3> QED BY <1>4, <3>1, <3>2, Zenon
  <2>2. Seconds(<<pair>>) = <<pair[2]>>
    BY DEF Seconds
  <2> QED BY <1>1, <1>5, <2>1, <2>2 DEF ValuesOf
<1>6. CASE pair[1] # key
  <2>1. CallsOf(seq, {key}) = <<>>
    BY <1>3, <1>4, <1>6
  <2>2. Seconds(<<>>) = <<>>
    BY DEF Seconds
  <2> QED BY <1>1, <1>6, <2>1, <2>2 DEF ValuesOf
<1> QED BY <1>5, <1>6

(* Of a parsed query: each key has one entry with the values of its pairs. *)
ParsedAs(T, pairs, parsed) ==
  /\ parsed \in Seq(EntriesFrom(T)) /\ Unique(parsed)
  /\ \A e \in ToSet(parsed) : e.values = ValuesOf(pairs, e.key)
  /\ \A i \in DOMAIN pairs : pairs[i][1] \in KeysOf(parsed)

(* A parsed query has that shape.                                          *)
LEMMA ParsedIs ==
  ASSUME NEW T, NEW pairs \in Seq(T)
  PROVE  ParsedAs(T, pairs, ParseQueryString(pairs))
<1>0. \A a, b \in Seq(T) : \A key : ValuesOf(a \o b, key) = ValuesOf(a, key) \o ValuesOf(b, key)
  <2> SUFFICES ASSUME NEW a \in Seq(T), NEW b \in Seq(T), NEW key
               PROVE  ValuesOf(a \o b, key) = ValuesOf(a, key) \o ValuesOf(b, key)
    OBVIOUS
  <2> QED BY ValuesJoined
<1> DEFINE P == {q \in Seq(T) : ParsedAs(T, q, ParseQueryString(q))}
<1>1. <<>> \in P
  <2>1. ParseQueryString(<<>>) = <<>>
    <3>1. <<>> \in Seq(T) /\ Len(<<>>) = 0
      OBVIOUS
    <3>2. PICK h : GroupsBy(Seq(EntriesFrom(T)), <<>>, <<>>, h) /\ ParseQueryString(<<>>) = h[Len(<<>>)]
      BY <3>1, ParseFold
    <3> QED BY <3>1, <3>2, Zenon DEF GroupsBy
  <2>2. ParsedAs(T, <<>>, <<>>)
    BY DEF ParsedAs, Unique, ToSet
  <2>3. <<>> \in Seq(T)
    OBVIOUS
  <2> QED BY <2>1, <2>2, <2>3
<1>2. ASSUME NEW q \in Seq(T), NEW p \in T, q \in P PROVE Append(q, p) \in P
  <2>1. PICK m, longer, new, k, v :
          /\ m = ParseQueryString(q) /\ longer = Append(q, p) /\ new = ParseQueryString(longer)
          /\ k = p[1] /\ v = p[2]
    OBVIOUS
  <2>2. m \in Seq(EntriesFrom(T)) /\ new = InsertPair(m, p)
    BY <2>1, ParseAppend
  <2>3. ParsedAs(T, q, m)
    BY <1>2, <2>1
  <2>4. longer \in Seq(T) /\ <<p>> \in Seq(T) /\ longer = q \o <<p>>
    BY <2>1
  <2>5. \A key : ValuesOf(longer, key) = ValuesOf(q, key) \o ValuesOf(<<p>>, key)
                 /\ ValuesOf(q, key) \in Seq({t[2] : t \in T})
    <3> SUFFICES ASSUME NEW key
                 PROVE  /\ ValuesOf(longer, key) = ValuesOf(q, key) \o ValuesOf(<<p>>, key)
                        /\ ValuesOf(q, key) \in Seq({t[2] : t \in T})
      OBVIOUS
    <3>1. ValuesOf(q \o <<p>>, key) = ValuesOf(q, key) \o ValuesOf(<<p>>, key)
      <4>1. PICK one : one = <<p>>
        OBVIOUS
      <4>2. one \in Seq(T)
        BY <2>4, <4>1, Zenon
      <4>3. ValuesOf(q \o one, key) = ValuesOf(q, key) \o ValuesOf(one, key)
        BY <1>0, <4>2, Zenon
      <4> QED BY <4>1, <4>3, Zenon
    <3>2. ValuesOf(q, key) \in Seq({t[2] : t \in T})
      BY ValuesType
    <3> QED BY <2>4, <3>1, <3>2
  <2>6. ASSUME NEW key, key # k PROVE ValuesOf(longer, key) = ValuesOf(q, key)
    <3>1. ValuesOf(<<p>>, key) = <<>>
      BY <2>1, <2>6, ValuesOfOne
    <3>2. PICK vs : vs = ValuesOf(q, key) /\ vs \in Seq({t[2] : t \in T})
      BY <2>5
    <3>3. vs \o <<>> = vs
      BY <3>2
    <3> QED BY <2>5, <3>1, <3>2, <3>3
  <2>7. ValuesOf(longer, k) = Append(ValuesOf(q, k), v)
    <3>1. ValuesOf(<<p>>, k) = <<v>>
      BY <2>1, ValuesOfOne
    <3>2. PICK vs : vs = ValuesOf(q, k) /\ vs \in Seq({t[2] : t \in T})
      BY <2>5
    <3>3. vs \o <<v>> = Append(vs, v)
      BY <3>2
    <3> QED BY <2>5, <3>1, <3>2, <3>3
  <2>8. Unique(m) /\ (\A e \in ToSet(m) : e.values = ValuesOf(q, e.key))
        /\ \A i \in DOMAIN q : q[i][1] \in KeysOf(m)
    BY <2>3 DEF ParsedAs
  <2>9. \E entry \in EntriesFrom(T) : /\ new = Insert(m, entry) /\ entry.key = k
                                    /\ entry.values = ValuesOf(longer, k)
    <3>1. v \in {t[2] : t \in T} /\ k \in {t[1] : t \in T}
      BY <2>1
    <3>2. CASE k \in KeysOf(m)
      <4>1. PICK old : old = CHOOSE e \in ToSet(m) : e.key = p[1]
        OBVIOUS
      <4>2. \E e \in ToSet(m) : e.key = p[1]
        BY <2>1, <3>2 DEF KeysOf, ToSet
      <4>3. old \in ToSet(m) /\ old.key = k
        BY <2>1, <4>1, <4>2
      <4>4. old.values = ValuesOf(q, k)
        BY <2>8, <4>3
      <4>5. PICK entry : entry = Array(k, Append(old.values, v))
        OBVIOUS
      <4>6. entry.key = k /\ entry.values = ValuesOf(longer, k)
        BY <2>7, <4>4, <4>5 DEF Array
      <4>7. new = Insert(m, entry)
        BY <2>1, <2>2, <3>2, <4>1, <4>5, Zenon DEF InsertPair
      <4>8. entry \in EntriesFrom(T)
        <5>1. old \in EntriesFrom(T)
          BY <2>2, <4>3 DEF ToSet
        <5>2. old.values \in Seq({t[2] : t \in T})
          BY <5>1 DEF EntriesFrom
        <5>3. Append(old.values, v) \in Seq({t[2] : t \in T})
          BY <3>1, <5>2
        <5> QED BY <3>1, <4>5, <5>3 DEF Array, EntriesFrom
      <4> QED BY <4>6, <4>7, <4>8
    <3>3. CASE k \notin KeysOf(m)
      <4>1. \A i \in DOMAIN q : q[i][1] # k
        BY <2>8, <3>3
      <4>2. ValuesOf(q, k) = <<>>
        <5>1. PICK K : K = {t \in T : t[1] \in {k}}
          OBVIOUS
        <5>2. \A i \in DOMAIN q : q[i] \notin K
          BY <4>1, <5>1
        <5>3. Kept(q, K) = <<>>
          BY <5>2, NothingKept
        <5>4. CallsOf(q, {k}) = Kept(q, K)
          BY <5>1, CallsAreKept
        <5>5. Seconds(<<>>) = <<>>
          BY DEF Seconds
        <5> QED BY <5>3, <5>4, <5>5, Zenon DEF ValuesOf
      <4>3. ValuesOf(longer, k) = <<v>>
        BY <2>7, <4>2
      <4>4. PICK entry : entry = Scalar(k, v)
        OBVIOUS
      <4>5. entry.key = k /\ entry.values = ValuesOf(longer, k)
        BY <4>3, <4>4 DEF Scalar
      <4>6. new = Insert(m, entry)
        BY <2>1, <2>2, <3>3, <4>4, Zenon DEF InsertPair
      <4>7. entry \in EntriesFrom(T)
        <5>1. <<v>> \in Seq({t[2] : t \in T})
          BY <3>1
        <5> QED BY <3>1, <4>4, <5>1 DEF Scalar, EntriesFrom
      <4> QED BY <4>5, <4>6, <4>7
    <3> QED BY <3>2, <3>3
  <2>10. PICK entry \in EntriesFrom(T) : /\ new = Insert(m, entry) /\ entry.key = k
                                       /\ entry.values = ValuesOf(longer, k)
    BY <2>9
  <2>11. Unique(new) /\ ToSet(new) = {e \in ToSet(m) : e.key # k} \cup {entry}
    BY <2>2, <2>8, <2>10, InsertIs
  <2>12. new \in Seq(EntriesFrom(T))
    BY <2>2, InsertPairType
  <2>13. \A e \in ToSet(new) : e.values = ValuesOf(longer, e.key)
    <3> SUFFICES ASSUME NEW e \in ToSet(new) PROVE e.values = ValuesOf(longer, e.key)
      OBVIOUS
    <3>1. CASE e = entry
      BY <2>10, <3>1
    <3>2. CASE e # entry
      <4>1. e \in ToSet(m) /\ e.key # k
        BY <2>11, <3>2
      <4> QED BY <2>6, <2>8, <4>1
    <3> QED BY <3>1, <3>2
  <2>14. \A i \in DOMAIN longer : longer[i][1] \in KeysOf(new)
    <3>1. KeysOf(m) \subseteq {e.key : e \in ToSet(m)} /\ {e.key : e \in ToSet(new)} \subseteq KeysOf(new)
      BY DEF KeysOf, ToSet
    <3>2. KeysOf(m) \cup {k} \subseteq KeysOf(new)
      <4>1. \A e \in ToSet(m) : e.key # k => e \in ToSet(new)
        BY <2>11
      <4>2. k \in KeysOf(new)
        BY <2>10, <2>11, <3>1
      <4> QED BY <3>1, <4>1, <4>2
    <3>3. ASSUME NEW i \in DOMAIN longer PROVE longer[i][1] \in KeysOf(m) \cup {k}
      <4>1. i \in DOMAIN q \/ longer[i] = p
        BY <2>1
      <4>2. i \in DOMAIN q => longer[i] = q[i]
        BY <2>1
      <4> QED BY <2>1, <2>8, <4>1, <4>2
    <3> QED BY <3>2, <3>3
  <2>15. ParsedAs(T, longer, new)
    BY <2>11, <2>12, <2>13, <2>14 DEF ParsedAs
  <2> QED BY <2>1, <2>4, <2>15
<1>3. Seq(T) \subseteq P
  <2> HIDE DEF P
  <2> QED BY <1>1, <1>2, AppendInduction
<1> QED BY <1>3

(* All is kept of a sequence whose elements are to be.                     *)
LEMMA AllKept ==
  ASSUME NEW T, NEW seq \in Seq(T), NEW K, \A i \in DOMAIN seq : seq[i] \in K
  PROVE  Kept(seq, K) = seq
<1> DEFINE P == {s \in Seq(T) : (\A i \in DOMAIN s : s[i] \in K) => Kept(s, K) = s}
<1>1. <<>> \in P
  <2>1. Kept(<<>>, K) = <<>>
    BY SelectedEmpty DEF Kept
  <2> QED BY <2>1
<1>2. ASSUME NEW s \in Seq(T), NEW e \in T, s \in P PROVE Append(s, e) \in P
  <2>1. PICK longer, n : longer = Append(s, e) /\ n = Len(s)
    OBVIOUS
  <2>2. longer \in Seq(T) /\ n \in Nat /\ DOMAIN longer = 1..(n + 1) /\ DOMAIN s = 1..n
        /\ longer[n + 1] = e /\ \A i \in 1..n : longer[i] = s[i]
    BY <2>1
  <2>3. ASSUME \A i \in DOMAIN longer : longer[i] \in K PROVE Kept(longer, K) = longer
    <3>1. e \in K /\ \A i \in DOMAIN s : s[i] \in K
      <4>1. n + 1 \in DOMAIN longer /\ \A i \in 1..n : i \in DOMAIN longer
        BY <2>2
      <4> QED BY <2>2, <2>3, <4>1
    <3>2. Kept(s, K) = s
      BY <1>2, <3>1
    <3>3. Kept(Append(s, e), K) = IF e \in K THEN Append(Kept(s, K), e) ELSE Kept(s, K)
      BY KeptAppend
    <3> QED BY <2>1, <3>1, <3>2, <3>3, Zenon
  <2> QED BY <2>1, <2>2, <2>3
<1>3. Seq(T) \subseteq P
  <2> HIDE DEF P
  <2> QED BY <1>1, <1>2, AppendInduction
<1> QED BY <1>3

(* Entries whose values are sequences, and the pairs of such entries.      *)
Listed(T)  == \A e \in T : e.values \in Seq(ToSet(e.values))
(* The pairs that entries of T can have.                                   *)
PairsIn(T) == {e.key : e \in T} \X UNION {ToSet(e.values) : e \in T}

(* The pairs of an entry, value by value.                                  *)
LEMMA EntryPairsType ==
  ASSUME NEW T, Listed(T), NEW e \in T
  PROVE  /\ EntryPairs(e) \in Seq(PairsIn(T))
         /\ DOMAIN EntryPairs(e) = DOMAIN e.values
         /\ \A i \in DOMAIN e.values : EntryPairs(e)[i] = <<e.key, e.values[i]>>
<1>1. PICK values, n, A : values = e.values /\ n = Len(values) /\ A = PairsIn(T)
  OBVIOUS
<1>2. values \in Seq(ToSet(values)) /\ ToSet(values) \subseteq UNION {ToSet(t.values) : t \in T}
  BY <1>1 DEF Listed
<1>3. n \in Nat /\ DOMAIN values = 1..n
  BY <1>1, <1>2
<1>4. \A i \in 1..n : values[i] \in ToSet(values)
  BY <1>3 DEF ToSet
<1>5. EntryPairs(e) = [i \in 1..n |-> <<e.key, values[i]>>]
  BY <1>1, <1>3, Zenon DEF EntryPairs
<1>6. \A i \in 1..n : <<e.key, values[i]>> \in A
  BY <1>1, <1>2, <1>4 DEF PairsIn
<1>7. EntryPairs(e) \in Seq(A)
  BY <1>3, <1>5, <1>6
<1> QED BY <1>1, <1>3, <1>5, <1>7

(* They give the key of the entry its values.                              *)
LEMMA EntryValues ==
  ASSUME NEW T, Listed(T), NEW e \in T, NEW key
  PROVE  ValuesOf(EntryPairs(e), key) = IF e.key = key THEN e.values ELSE <<>>
<1>1. PICK pairs, A, K : pairs = EntryPairs(e) /\ A = PairsIn(T) /\ K = {t \in A : t[1] \in {key}}
  OBVIOUS
<1>2. /\ pairs \in Seq(A) /\ DOMAIN pairs = DOMAIN e.values
      /\ \A i \in DOMAIN pairs : pairs[i] = <<e.key, e.values[i]>>
  BY <1>1, EntryPairsType
<1>3. CallsOf(pairs, {key}) = Kept(pairs, K)
  BY <1>1, <1>2, CallsAreKept
<1>4. \A i \in DOMAIN pairs : pairs[i] \in A /\ pairs[i][1] = e.key /\ pairs[i][2] = e.values[i]
  BY <1>2
<1>5. CASE e.key = key
  <2>1. \A i \in DOMAIN pairs : pairs[i] \in K
    BY <1>1, <1>4, <1>5
  <2>2. Kept(pairs, K) = pairs
    BY <1>2, <2>1, AllKept
  <2>3. Seconds(pairs) = [i \in DOMAIN e.values |-> e.values[i]]
    BY <1>2, <1>4 DEF Seconds
  <2>4. e.values = [i \in DOMAIN e.values |-> e.values[i]]
    <3>1. e.values \in Seq(ToSet(e.values))
      BY DEF Listed
    <3> QED BY <3>1
  <2>5. ValuesOf(pairs, key) = e.values
    BY <1>3, <2>2, <2>3, <2>4, Zenon DEF ValuesOf
  <2> QED BY <1>1, <1>5, <2>5
<1>6. CASE e.key # key
  <2>1. \A i \in DOMAIN pairs : pairs[i] \notin K
    BY <1>1, <1>4, <1>6
  <2>2. Kept(pairs, K) = <<>>
    BY <1>2, <2>1, NothingKept
  <2>3. Seconds(<<>>) = <<>>
    BY DEF Seconds
  <2>4. ValuesOf(pairs, key) = <<>>
    BY <1>3, <2>2, <2>3, Zenon DEF ValuesOf
  <2> QED BY <1>1, <1>6, <2>4
<1> QED BY <1>5, <1>6

(* The pairs of one more entry come behind the others.                     *)
LEMMA PairsAppend ==
  ASSUME NEW T, Listed(T), NEW query \in Seq(T), NEW e \in T
  PROVE  /\ PairsOf(query) \in Seq(PairsIn(T))
         /\ PairsOf(Append(query, e)) = PairsOf(query) \o EntryPairs(e)
<1>1. PICK n, A, longer : n = Len(query) /\ A = PairsIn(T) /\ longer = Append(query, e)
  OBVIOUS
<1>2. /\ n \in Nat /\ DOMAIN query = 1..n /\ longer \in Seq(T) /\ DOMAIN longer = 1..(n + 1)
      /\ longer[n + 1] = e /\ (\A i \in 1..n : longer[i] = query[i] /\ query[i] \in T)
  BY <1>1
<1>3. \A t \in T : EntryPairs(t) \in Seq(A)
  BY <1>1, EntryPairsType
<1>4. PICK seqs, all : /\ seqs = [i \in DOMAIN query |-> EntryPairs(query[i])]
                       /\ all = [i \in DOMAIN longer |-> EntryPairs(longer[i])]
  OBVIOUS
<1>5. seqs \in Seq(Seq(A)) /\ Len(seqs) = n
  <2>1. \A i \in 1..n : EntryPairs(query[i]) \in Seq(A)
    BY <1>2, <1>3
  <2> QED BY <1>2, <1>4, <2>1
<1>6. all = Append(seqs, EntryPairs(e))
  <2>1. PICK x : x = EntryPairs(e) /\ x \in Seq(A)
    BY <1>3
  <2>2. /\ Append(seqs, x) \in Seq(Seq(A)) /\ Len(Append(seqs, x)) = n + 1
        /\ Append(seqs, x)[n + 1] = x /\ \A i \in 1..n : Append(seqs, x)[i] = seqs[i]
    BY <1>2, <1>5, <2>1
  <2>3. PICK y : y = Append(seqs, x)
    OBVIOUS
  <2>4. \A i \in 1..n : all[i] = y[i]
    <3>1. \A i \in 1..n : all[i] = EntryPairs(longer[i]) /\ seqs[i] = EntryPairs(query[i])
      BY <1>2, <1>4
    <3> QED BY <1>2, <2>2, <2>3, <3>1
  <2>5. all[n + 1] = y[n + 1]
    BY <1>2, <1>4, <2>1, <2>2, <2>3
  <2>6. all \in Seq(Seq(A)) /\ Len(all) = n + 1
    <3>1. \A i \in 1..(n + 1) : longer[i] \in T
      BY <1>2
    <3>2. \A i \in 1..(n + 1) : EntryPairs(longer[i]) \in Seq(A)
      BY <1>3, <3>1
    <3>3. all = [i \in 1..(n + 1) |-> EntryPairs(longer[i])]
      BY <1>2, <1>4
    <3>4. n + 1 \in Nat
      BY <1>2
    <3> QED BY <3>2, <3>3, <3>4
  <2>7. \A i \in 1..(n + 1) : all[i] = y[i]
    <3>1. \A i \in 1..(n + 1) : i \in 1..n \/ i = n + 1
      BY <1>2
    <3> QED BY <2>4, <2>5, <3>1
  <2>8. all = y
    BY <2>2, <2>3, <2>6, <2>7
  <2> QED BY <2>1, <2>3, <2>8
<1>7. FlattenSeq(seqs) \in Seq(A)
  BY <1>3, <1>5, FlattenAppend
<1>8. FlattenSeq(all) = FlattenSeq(seqs) \o EntryPairs(e)
  <2>1. PICK x : x = EntryPairs(e) /\ x \in Seq(A)
    BY <1>3
  <2>2. FlattenSeq(Append(seqs, x)) = FlattenSeq(seqs) \o x
    BY <1>5, <2>1, FlattenAppend
  <2> QED BY <1>6, <2>1, <2>2, Zenon
<1>9. PairsOf(query) = FlattenSeq(seqs) /\ PairsOf(longer) = FlattenSeq(all)
  BY <1>4, Zenon DEF PairsOf
<1> QED BY <1>1, <1>7, <1>8, <1>9, Zenon

(* What the pairs of a query give a key is what its entry holds.           *)
Gives(T, query) ==
  \A key : /\ \A e \in ToSet(query) : e.key = key => ValuesOf(PairsOf(query), key) = e.values
           /\ ToSet(query) \cap Keyed(T, key) = {} => ValuesOf(PairsOf(query), key) = <<>>

(* An empty query has no pairs.                                            *)
LEMMA NoPairs == PairsOf(<<>>) = <<>> /\ \A key : ValuesOf(<<>>, key) = <<>>
<1>1. [i \in DOMAIN <<>> |-> EntryPairs(<<>>[i])] = <<>>
  OBVIOUS
<1>2. FlattenSeq(<<>>) = <<>>
  <2>1. <<>> \in Seq(Seq({0})) /\ <<>> \in Seq({0})
    OBVIOUS
  <2> QED BY <2>1, FlattenAppend
<1>3. PairsOf(<<>>) = <<>>
  BY <1>1, <1>2, Zenon DEF PairsOf
<1>4. Seconds(<<>>) = <<>>
  BY DEF Seconds
<1>5. \A key : CallsOf(<<>>, {key}) = <<>>
  BY CallsOfEmpty
<1> QED BY <1>3, <1>4, <1>5 DEF ValuesOf

(* The pairs of a query with unique keys give each key the values of its   *)
(* entry.                                                                  *)
LEMMA QueryGives ==
  ASSUME NEW T, Listed(T), NEW query \in Seq(T), Unique(query)
  PROVE  Gives(T, query)
<1> DEFINE P == {q \in Seq(T) : Unique(q) => Gives(T, q)}
<1>1. <<>> \in P
  <2>1. ToSet(<<>>) = {}
    BY DEF ToSet
  <2>2. Gives(T, <<>>)
    BY <2>1, NoPairs DEF Gives
  <2> QED BY <2>2
<1>2. ASSUME NEW q \in Seq(T), NEW e \in T, q \in P PROVE Append(q, e) \in P
  <2>1. PICK longer, n : longer = Append(q, e) /\ n = Len(q)
    OBVIOUS
  <2>2. longer \in Seq(T) /\ n \in Nat /\ DOMAIN longer = 1..(n + 1) /\ DOMAIN q = 1..n
        /\ longer[n + 1] = e /\ \A i \in 1..n : longer[i] = q[i]
    BY <2>1
  <2>3. ASSUME Unique(longer) PROVE Gives(T, longer)
    <3>1. n + 1 \in DOMAIN longer /\ \A i \in 1..n : i \in DOMAIN longer /\ i # n + 1
      BY <2>2
    <3>2. Unique(q) /\ \A i \in DOMAIN q : q[i].key # e.key
      BY <2>2, <2>3, <3>1 DEF Unique
    <3>3. Gives(T, q)
      BY <1>2, <3>2
    <3>4. ToSet(longer) = ToSet(q) \cup {e} /\ \A x \in ToSet(q) : x.key # e.key
      <4>1. ToSet(longer) = {longer[i] : i \in 1..(n + 1)} /\ ToSet(q) = {q[i] : i \in 1..n}
        BY <2>2 DEF ToSet
      <4>2. \A i \in 1..(n + 1) : i \in 1..n \/ i = n + 1
        BY <2>2
      <4>3. ToSet(longer) \subseteq ToSet(q) \cup {e}
        BY <2>2, <4>1, <4>2
      <4>4. ToSet(q) \cup {e} \subseteq ToSet(longer)
        BY <2>2, <3>1, <4>1
      <4> QED BY <2>2, <3>2, <4>1, <4>3, <4>4
    <3>5. ASSUME NEW key
          PROVE  ValuesOf(PairsOf(longer), key) =
                   ValuesOf(PairsOf(q), key) \o (IF e.key = key THEN e.values ELSE <<>>)
      <4>1. PICK a, b : a = PairsOf(q) /\ b = EntryPairs(e)
        OBVIOUS
      <4>2. a \in Seq(PairsIn(T))
        BY <4>1, PairsAppend
      <4>3. b \in Seq(PairsIn(T))
        BY <4>1, EntryPairsType
      <4>4. ValuesOf(a \o b, key) = ValuesOf(a, key) \o ValuesOf(b, key)
        BY <4>2, <4>3, ValuesJoined
      <4>5. PairsOf(Append(q, e)) = PairsOf(q) \o EntryPairs(e)
        BY PairsAppend
      <4>6. ValuesOf(EntryPairs(e), key) = IF e.key = key THEN e.values ELSE <<>>
        BY EntryValues
      <4> QED BY <2>1, <4>1, <4>4, <4>5, <4>6, Zenon
    <3>6. \A key : ValuesOf(PairsOf(q), key) \in Seq({t[2] : t \in PairsIn(T)})
      <4>1. PICK a : a = PairsOf(q)
        OBVIOUS
      <4>2. a \in Seq(PairsIn(T))
        BY <4>1, PairsAppend
      <4> QED BY <4>1, <4>2, ValuesType
    <3>7. ASSUME NEW key, e.key = key
          PROVE  ValuesOf(PairsOf(longer), key) = e.values
      <4>1. ToSet(q) \cap Keyed(T, key) = {}
        BY <3>4, <3>7 DEF Keyed
      <4>2. ValuesOf(PairsOf(q), key) = <<>>
        BY <3>3, <4>1 DEF Gives
      <4>3. PICK values : values = e.values /\ values \in Seq(ToSet(values))
        BY DEF Listed
      <4>4. <<>> \o values = values
        BY <4>3
      <4> QED BY <3>5, <3>7, <4>2, <4>3, <4>4
    <3>8. ASSUME NEW key, e.key # key
          PROVE  ValuesOf(PairsOf(longer), key) = ValuesOf(PairsOf(q), key)
      <4>1. PICK values : values = ValuesOf(PairsOf(q), key) /\ values \in Seq({t[2] : t \in PairsIn(T)})
        BY <3>6
      <4>2. values \o <<>> = values
        BY <4>1
      <4> QED BY <3>5, <3>8, <4>1, <4>2
    <3>9. ASSUME NEW key
          PROVE  /\ \A x \in ToSet(longer) : x.key = key => ValuesOf(PairsOf(longer), key) = x.values
                 /\ ToSet(longer) \cap Keyed(T, key) = {} => ValuesOf(PairsOf(longer), key) = <<>>
      <4>1. CASE e.key = key
        <5>1. e \in ToSet(longer) \cap Keyed(T, key)
          BY <3>4, <4>1 DEF Keyed
        <5>2. \A x \in ToSet(longer) : x.key = key => x = e
          BY <3>4, <4>1
        <5> QED BY <3>7, <4>1, <5>1, <5>2
      <4>2. CASE e.key # key
        <5>1. \A x \in ToSet(longer) : x.key = key => x \in ToSet(q)
          BY <3>4, <4>2
        <5>2. ToSet(longer) \cap Keyed(T, key) = ToSet(q) \cap Keyed(T, key)
          BY <3>4, <4>2 DEF Keyed
        <5>3. ValuesOf(PairsOf(longer), key) = ValuesOf(PairsOf(q), key)
          BY <3>8, <4>2
        <5> QED BY <3>3, <5>1, <5>2, <5>3 DEF Gives
      <4> QED BY <4>1, <4>2
    <3> QED BY <3>9 DEF Gives
  <2> QED BY <2>1, <2>2, <2>3
<1>3. Seq(T) \subseteq P
  <2> HIDE DEF P
  <2> QED BY <1>1, <1>2, AppendInduction
<1> QED BY <1>3

(* The query of a URL: what was said last of a key, or else the values the *)
(* path itself gives it.                                                   *)
LEMMA BuiltQuery ==
  ASSUME NEW S, NEW pairs \in Seq(S), NEW U, Listed(U), NEW said \in Seq(U), NEW key,
         NEW made, made = Selected(said, {i \in DOMAIN said : said[i].key = key})
  PROVE  ValuesOf(PairsOf(MergeQueries(ParseQueryString(pairs), MergeQueries(<<>>, said))), key) =
           IF made # <<>> THEN Last(made).values ELSE ValuesOf(pairs, key)
<1>1. PICK T, K, parsed, own, merged, none :
        /\ T = U \cup EntriesFrom(S) /\ K = Keyed(T, key) /\ none = <<>>
        /\ parsed = ParseQueryString(pairs)
        /\ own = MergeQueries(none, said) /\ merged = MergeQueries(parsed, own)
  OBVIOUS
<1>2. Listed(T)
  <2>1. ASSUME NEW e \in EntriesFrom(S) PROVE e.values \in Seq(ToSet(e.values))
    <3>1. PICK values : values = e.values /\ values \in Seq({p[2] : p \in S})
      BY DEF EntriesFrom
    <3>2. values \in Seq(ToSet(values))
      BY <3>1 DEF ToSet
    <3> QED BY <3>1, <3>2
  <2> QED BY <1>1, <2>1 DEF Listed
<1>3. said \in Seq(T) /\ none \in Seq(T) /\ Unique(none)
  BY <1>1 DEF Unique
<1>4. made = Kept(said, K)
  <2>1. {i \in DOMAIN said : said[i].key = key} = {i \in DOMAIN said : said[i] \in K}
    BY <1>1, <1>3 DEF Keyed
  <2> QED BY <2>1, Zenon DEF Kept
<1>5. ParsedAs(S, pairs, parsed)
  BY <1>1, ParsedIs
<1>6. parsed \in Seq(T) /\ Unique(parsed)
  <2>1. parsed \in Seq(EntriesFrom(S)) /\ Unique(parsed)
    BY <1>5 DEF ParsedAs
  <2> QED BY <1>1, <2>1
<1>7. MergedAs(T, none, said, own)
  BY <1>1, <1>3, MergeIs
<1>8. own \in Seq(T) /\ Unique(own)
  BY <1>7 DEF MergedAs
<1>9. MergedAs(T, parsed, own, merged)
  BY <1>1, <1>6, <1>8, MergeIs
<1>10. merged \in Seq(T) /\ Unique(merged)
  BY <1>9 DEF MergedAs
<1>11. Gives(T, merged)
  BY <1>2, <1>10, QueryGives
<1>12. PICK ofOwn : ofOwn = Kept(own, K)
  OBVIOUS
<1>13. ToSet(ofOwn) = ToSet(own) \cap K /\ ofOwn \in Seq(T)
  <2>1. ToSet(Kept(own, K)) = ToSet(own) \cap K
    BY <1>8, KeptElements
  <2>2. Kept(own, K) \in Seq(T)
    BY <1>8, SelectedType DEF Kept
  <2> QED BY <1>12, <2>1, <2>2
<1>14. CASE made # <<>>
  <2>1. ToSet(own) \cap K = {Last(made)}
    BY <1>1, <1>4, <1>7, <1>14 DEF MergedAs
  <2>2. ofOwn # <<>>
    <3>1. ToSet(ofOwn) # {}
      BY <1>13, <2>1
    <3> QED BY <3>1 DEF ToSet
  <2>3. Last(ofOwn) = Last(made)
    <3>1. Last(ofOwn) \in ToSet(ofOwn)
      <4>1. Len(ofOwn) \in DOMAIN ofOwn
        BY <1>13, <2>2
      <4> QED BY <4>1 DEF Last, ToSet
    <3> QED BY <1>13, <2>1, <3>1
  <2>4. ToSet(merged) \cap K = {Last(ofOwn)}
    BY <1>1, <1>9, <1>12, <2>2 DEF MergedAs
  <2>5. Last(made) \in ToSet(merged) /\ Last(made).key = key
    BY <1>1, <2>3, <2>4 DEF Keyed
  <2>6. ValuesOf(PairsOf(merged), key) = Last(made).values
    BY <1>11, <2>5 DEF Gives
  <2> QED BY <1>1, <1>14, <2>6, Zenon
<1>15. CASE made = <<>>
  <2>1. ToSet(own) \cap K = ToSet(none) \cap K
    BY <1>1, <1>4, <1>7, <1>15 DEF MergedAs
  <2>2. ToSet(none) = {}
    BY <1>1 DEF ToSet
  <2>3. ofOwn = <<>>
    <3>1. ToSet(ofOwn) = {}
      BY <1>13, <2>1, <2>2
    <3>2. DOMAIN ofOwn = {}
      BY <3>1 DEF ToSet
    <3> QED BY <1>13, <3>2
  <2>4. ToSet(merged) \cap K = ToSet(parsed) \cap K
    BY <1>1, <1>9, <1>12, <2>3 DEF MergedAs
  <2>5. CASE ToSet(parsed) \cap K # {}
    <3>1. PICK e : e \in ToSet(parsed) \cap K
      BY <2>5
    <3>2. e \in ToSet(merged) /\ e.key = key /\ e \in ToSet(parsed)
      BY <1>1, <2>4, <3>1 DEF Keyed
    <3>3. e.values = ValuesOf(pairs, key)
      BY <1>5, <3>2 DEF ParsedAs
    <3>4. ValuesOf(PairsOf(merged), key) = ValuesOf(pairs, key)
      BY <1>11, <3>2, <3>3 DEF Gives
    <3> QED BY <1>1, <1>15, <3>4, Zenon
  <2>6. CASE ToSet(parsed) \cap K = {}
    <3>1. ValuesOf(PairsOf(merged), key) = <<>>
      BY <1>1, <1>11, <2>4, <2>6 DEF Gives
    <3>2. key \notin KeysOf(parsed)
      <4>1. ASSUME NEW i \in DOMAIN parsed PROVE parsed[i].key # key
        <5>1. parsed[i] \in T /\ parsed[i] \in ToSet(parsed)
          BY <1>6 DEF ToSet
        <5> QED BY <1>1, <2>6, <5>1 DEF Keyed
      <4> QED BY <4>1 DEF KeysOf
    <3>3. \A i \in DOMAIN pairs : pairs[i][1] # key
      BY <1>5, <3>2 DEF ParsedAs
    <3>4. ValuesOf(pairs, key) = <<>>
      <4>1. PICK L : L = {t \in S : t[1] \in {key}}
        OBVIOUS
      <4>2. \A i \in DOMAIN pairs : pairs[i] \notin L
        BY <3>3, <4>1
      <4>3. Kept(pairs, L) = <<>>
        BY <4>2, NothingKept
      <4>4. CallsOf(pairs, {key}) = Kept(pairs, L)
        BY <4>1, CallsAreKept
      <4>5. Seconds(<<>>) = <<>>
        BY DEF Seconds
      <4> QED BY <4>3, <4>4, <4>5, Zenon DEF ValuesOf
    <3> QED BY <1>1, <1>15, <3>1, <3>4, Zenon
  <2> QED BY <2>5, <2>6
<1> QED BY <1>14, <1>15

------------------------------------------------------------------------------
(* The texts of the segments of a path.                                    *)

(* The texts of segments.                                                  *)
Texts(segs) == [i \in DOMAIN segs |-> segs[i].text]

(* The texts of two paths joined.                                          *)
LEMMA TextsJoined ==
  ASSUME NEW T, NEW a \in Seq(T), NEW b \in Seq(T)
  PROVE  Texts(a \o b) = Texts(a) \o Texts(b)
<1>1. PICK m, n, V : m = Len(a) /\ n = Len(b) /\ V = {t.text : t \in T}
  OBVIOUS
<1>2. m \in Nat /\ n \in Nat /\ DOMAIN a = 1..m /\ DOMAIN b = 1..n
  BY <1>1
<1>3. PICK c : c = a \o b
  OBVIOUS
<1>4. /\ DOMAIN c = 1..(m + n)
      /\ \A i \in 1..(m + n) : c[i] = IF i <= m THEN a[i] ELSE b[i - m]
  BY <1>1, <1>3
<1>5. PICK x, y : x = Texts(a) /\ y = Texts(b)
  OBVIOUS
<1>6. x \in Seq(V) /\ Len(x) = m /\ y \in Seq(V) /\ Len(y) = n
  BY <1>1, <1>2, <1>5 DEF Texts
<1>7. (\A i \in 1..m : x[i] = a[i].text) /\ \A i \in 1..n : y[i] = b[i].text
  BY <1>2, <1>5 DEF Texts
<1>8. /\ x \o y \in Seq(V) /\ DOMAIN (x \o y) = 1..(m + n)
      /\ \A i \in 1..(m + n) : (x \o y)[i] = IF i <= m THEN x[i] ELSE y[i - m]
  BY <1>2, <1>6
<1>9. Texts(c) = [i \in 1..(m + n) |-> c[i].text]
  BY <1>4, Zenon DEF Texts
<1>10. \A i \in 1..(m + n) : (x \o y)[i] = c[i].text
  <2> SUFFICES ASSUME NEW i \in 1..(m + n) PROVE (x \o y)[i] = c[i].text
    OBVIOUS
  <2>1. CASE i <= m
    <3>1. i \in 1..m
      BY <1>2, <2>1
    <3>2. (x \o y)[i] = x[i] /\ c[i] = a[i]
      BY <1>4, <1>8, <2>1
    <3> QED BY <1>7, <3>1, <3>2
  <2>2. CASE ~(i <= m)
    <3>1. PICK j : j = i - m
      OBVIOUS
    <3>2. j \in 1..n
      BY <1>2, <2>2, <3>1
    <3>3. (x \o y)[i] = y[j] /\ c[i] = b[j]
      BY <1>4, <1>8, <2>2, <3>1
    <3> QED BY <1>7, <3>2, <3>3
  <2> QED BY <2>1, <2>2
<1>12. x \o y = Texts(c)
  <2>1. PICK z, w : z = x \o y /\ w = Texts(c)
    OBVIOUS
  <2>2. z \in Seq(V) /\ Len(z) = m + n
    <3>1. Len(x \o y) = Len(x) + Len(y)
      BY <1>6
    <3>2. Len(x \o y) = m + n
      BY <1>6, <3>1
    <3> QED BY <1>8, <2>1, <3>2, Zenon
  <2>3. \A i \in 1..(m + n) : z[i] = w[i]
    BY <1>9, <1>10, <2>1
  <2>4. w \in Seq(V) /\ Len(w) = m + n
    <3>1. c \in Seq(T) /\ Len(c) = m + n
      BY <1>1, <1>2, <1>3
    <3>2. w = [i \in 1..(m + n) |-> c[i].text]
      BY <1>9, <2>1
    <3>3. \A i \in 1..(m + n) : c[i].text \in V
      BY <1>1, <1>2, <3>1
    <3> QED BY <1>2, <3>2, <3>3
  <2> QED BY <2>1, <2>2, <2>3, <2>4
<1> QED BY <1>3, <1>5, <1>12

(* There is a text for each segment.                                       *)
LEMMA TextsType ==
  ASSUME NEW T, NEW a \in Seq(T)
  PROVE  Texts(a) \in Seq({t.text : t \in T}) /\ DOMAIN Texts(a) = DOMAIN a
         /\ \A i \in DOMAIN a : Texts(a)[i] = a[i].text
<1>1. PICK n, x, V : n = Len(a) /\ x = Texts(a) /\ V = {t.text : t \in T}
  OBVIOUS
<1>2. n \in Nat /\ x = [i \in 1..n |-> a[i].text] /\ \A i \in 1..n : a[i] \in T
  BY <1>1 DEF Texts
<1>3. x \in [1..n -> V]
  BY <1>1, <1>2
<1>4. x \in Seq(V)
  BY <1>2, <1>3
<1> QED BY <1>1, <1>2, <1>4

(* The texts that are not blank are kept of all.                           *)
LEMMA NonBlankKept ==
  ASSUME NEW V, NEW x \in Seq(V)
  PROVE  NonBlank(x) = Kept(x, V \ {""})
<1>1. {i \in DOMAIN x : x[i] # ""} = {i \in DOMAIN x : x[i] \in V \ {""}}
  <2>1. \A i \in DOMAIN x : x[i] \in V
    OBVIOUS
  <2> QED BY <2>1, Zenon
<1> QED BY <1>1, Zenon DEF NonBlank, Kept

(* Those of two sequences joined.                                          *)
LEMMA NonBlankJoined ==
  ASSUME NEW V, NEW x \in Seq(V), NEW y \in Seq(V)
  PROVE  NonBlank(x \o y) = NonBlank(x) \o NonBlank(y)
<1>1. x \o y \in Seq(V)
  OBVIOUS
<1>2. \A s \in Seq(V) : NonBlank(s) = Kept(s, V \ {""})
  BY NonBlankKept
<1>3. \A K : Kept(x \o y, K) = Kept(x, K) \o Kept(y, K)
  BY KeptJoined
<1> QED BY <1>1, <1>2, <1>3, Zenon

(* The filled segments are the texts that are not blank.                   *)
LEMMA FilledIs ==
  ASSUME NEW segs PROVE Filled(segs) = NonBlank(Texts(segs))
BY DEF Filled, Texts

(* The filled segments of two paths joined.                                *)
LEMMA FilledJoined ==
  ASSUME NEW T, NEW a \in Seq(T), NEW b \in Seq(T)
  PROVE  Filled(a \o b) = Filled(a) \o Filled(b)
<1>1. PICK V, x, y : V = {t.text : t \in T} /\ x = Texts(a) /\ y = Texts(b)
  OBVIOUS
<1>2. x \in Seq(V) /\ y \in Seq(V)
  BY <1>1, TextsType
<1>3. NonBlank(x \o y) = NonBlank(x) \o NonBlank(y)
  BY <1>2, NonBlankJoined
<1>4. Texts(a \o b) = Texts(a) \o Texts(b)
  BY TextsJoined
<1> QED BY <1>1, <1>3, <1>4, Zenon DEF Filled, Texts

(* They are texts of segments.                                             *)
LEMMA FilledType ==
  ASSUME NEW T, NEW a \in Seq(T)
  PROVE  Filled(a) \in Seq({t.text : t \in T})
<1>1. PICK x, V : x = Texts(a) /\ V = {t.text : t \in T}
  OBVIOUS
<1>2. x \in Seq(V)
  BY <1>1, TextsType
<1>3. NonBlank(x) \in Seq(V)
  BY <1>2, SelectedType DEF NonBlank
<1> QED BY <1>1, <1>3, FilledIs, Zenon

(* Segments without text say nothing.                                      *)
LEMMA BlankFills ==
  ASSUME NEW T, NEW a \in Seq(T), \A i \in DOMAIN a : a[i].text = ""
  PROVE  Filled(a) = <<>>
<1>1. PICK x, V : x = Texts(a) /\ V = {t.text : t \in T}
  OBVIOUS
<1>2. x \in Seq(V) /\ \A i \in DOMAIN x : x[i] \notin V \ {""}
  BY <1>1, TextsType
<1>3. Kept(x, V \ {""}) = <<>>
  BY <1>2, NothingKept
<1> QED BY <1>1, <1>2, <1>3, FilledIs, NonBlankKept, Zenon

(* The domain of a sequence.                                               *)
LEMMA Positions ==
  ASSUME NEW T, NEW s \in Seq(T)
  PROVE  Len(s) \in Nat /\ DOMAIN s = 1..Len(s)
OBVIOUS

(* The length of two sequences joined.                                     *)
LEMMA LenJoined ==
  ASSUME NEW T, NEW a \in Seq(T), NEW b \in Seq(T)
  PROVE  a \o b \in Seq(T) /\ Len(a \o b) = Len(a) + Len(b)
OBVIOUS

(* A sequence is what comes up to a place and what comes behind it.        *)
LEMMA SplitAt ==
  ASSUME NEW T, NEW seq \in Seq(T), NEW k \in 0..Len(seq)
  PROVE  LET front == SubSeq(seq, 1, k)
             back  == SubSeq(seq, k + 1, Len(seq))
         IN  /\ front \in Seq(T) /\ Len(front) = k /\ \A i \in 1..k : front[i] = seq[i]
             /\ back \in Seq(T) /\ Len(back) = Len(seq) - k
             /\ \A i \in 1..(Len(seq) - k) : back[i] = seq[k + i]
             /\ seq = front \o back
<1>1. PICK n, front, back : /\ n = Len(seq) /\ front = SubSeq(seq, 1, k)
                            /\ back = SubSeq(seq, k + 1, n)
  OBVIOUS
<1>2. n \in Nat /\ k \in 0..n
  BY <1>1
<1>3. front \in Seq(T) /\ Len(front) = k /\ \A i \in 1..k : front[i] = seq[i]
  BY <1>1, <1>2
<1>4. back \in Seq(T) /\ Len(back) = n - k
  BY <1>1, <1>2
<1>5. \A i \in 1..(n - k) : back[i] = seq[k + i]
  <2>1. \A i \in 1..(n - k) : back[i] = seq[k + 1 + i - 1]
    BY <1>1, <1>2
  <2>2. \A i \in 1..(n - k) : k + 1 + i - 1 = k + i
    BY <1>2
  <2> QED BY <2>1, <2>2
<1>6. seq = front \o back
  <2>1. PICK z : z = front \o back
    OBVIOUS
  <2>2. z \in Seq(T) /\ Len(z) = n
    <3>1. front \in Seq(T) /\ back \in Seq(T) /\ Len(front) = k /\ Len(back) = n - k
      BY <1>3, <1>4
    <3>2. z \in Seq(T) /\ Len(z) = k + (n - k)
      <4>1. z \in Seq(T) /\ Len(z) = Len(front) + Len(back)
        BY <2>1, <3>1, LenJoined, Zenon
      <4> QED BY <3>1, <4>1, Zenon
    <3>3. k + (n - k) = n
      BY <1>2
    <3> QED BY <3>2, <3>3, Zenon
  <2>3. \A i \in 1..n : z[i] = IF i <= k THEN front[i] ELSE back[i - k]
    BY <1>2, <1>3, <1>4, <2>1
  <2>4. \A i \in 1..n : z[i] = seq[i]
    <3> SUFFICES ASSUME NEW i \in 1..n PROVE z[i] = seq[i]
      OBVIOUS
    <3>1. CASE i <= k
      <4>1. i \in 1..k
        BY <1>2, <3>1
      <4> QED BY <1>3, <2>3, <3>1, <4>1
    <3>2. CASE ~(i <= k)
      <4>1. PICK j : j = i - k
        OBVIOUS
      <4>2. j \in 1..(n - k) /\ k + j = i
        BY <1>2, <3>2, <4>1
      <4>3. z[i] = back[j] /\ back[j] = seq[k + j]
        BY <1>5, <2>3, <3>2, <4>1, <4>2
      <4> QED BY <4>2, <4>3
    <3> QED BY <3>1, <3>2
  <2>5. seq \in Seq(T) /\ Len(seq) = n
    BY <1>1
  <2>6. z = seq
    BY <1>2, <2>2, <2>4, <2>5
  <2> QED BY <2>1, <2>6
<1> QED BY <1>1, <1>3, <1>4, <1>5, <1>6

(* Nothing in front of a sequence.                                         *)
LEMMA NothingBefore ==
  ASSUME NEW V, NEW f \in Seq(V)
  PROVE  <<>> \o f = f
<1>1. PICK none, z, n : none = <<>> /\ z = none \o f /\ n = Len(f)
  OBVIOUS
<1>2. none \in Seq(V) /\ Len(none) = 0 /\ n \in Nat
  BY <1>1
<1>3. z \in Seq(V) /\ Len(z) = n /\ \A i \in 1..n : z[i] = f[i]
  BY <1>1, <1>2
<1> QED BY <1>1, <1>3

(* What is dropped in front are blanks.                                    *)
LEMMA DroppedFront ==
  ASSUME NEW T, NEW seq \in Seq(T), NEW blank
  PROVE  \E k \in 0..Len(seq) : /\ DropLeading(seq, blank) = SubSeq(seq, k + 1, Len(seq))
                                /\ \A i \in 1..k : seq[i] = blank
<1>1. PICK others, n : others = {i \in DOMAIN seq : seq[i] # blank} /\ n = Len(seq)
  OBVIOUS
<1>2. n \in Nat /\ DOMAIN seq = 1..n /\ others \subseteq Nat
  BY <1>1
<1>3. CASE others = {}
  <2>1. DropLeading(seq, blank) = <<>>
    BY <1>1, <1>3 DEF DropLeading
  <2>2. SubSeq(seq, n + 1, n) = <<>>
    BY <1>1, <1>2
  <2>3. n \in 0..Len(seq) /\ \A i \in 1..n : seq[i] = blank
    BY <1>1, <1>2, <1>3
  <2> QED BY <1>1, <2>1, <2>2, <2>3
<1>4. CASE others # {}
  <2>1. PICK i \in others : /\ \A j \in others : i <= j
                            /\ DropLeading(seq, blank) = SubSeq(seq, i, n)
    <3>1. \E k \in others : \A j \in others : k <= j
      BY <1>2, <1>4, SmallestElement
    <3>2. PICK i : i = CHOOSE k \in others : \A j \in others : k <= j
      OBVIOUS
    <3>3. i \in others /\ \A j \in others : i <= j
      BY <3>1, <3>2
    <3>4. DropLeading(seq, blank) = SubSeq(seq, i, n)
      BY <1>1, <1>4, <3>2, Zenon DEF DropLeading
    <3> QED BY <3>3, <3>4
  <2>2. i \in 1..n
    BY <1>1, <1>2, <2>1
  <2>3. PICK k : k = i - 1
    OBVIOUS
  <2>4. k \in 0..n /\ k + 1 = i
    BY <1>2, <2>2, <2>3
  <2>5. \A j \in 1..k : seq[j] = blank
    <3>1. \A j \in 1..k : j \in 1..n /\ ~(i <= j)
      BY <1>2, <2>2, <2>4
    <3> QED BY <1>1, <1>2, <2>1, <3>1
  <2> QED BY <1>1, <2>1, <2>4, <2>5
<1> QED BY <1>3, <1>4

(* Dropping blanks in front drops no filled segment.                       *)
LEMMA FilledDropLeading ==
  ASSUME NEW T, NEW seq \in Seq(T), NEW blank, blank.text = ""
  PROVE  Filled(DropLeading(seq, blank)) = Filled(seq)
<1>1. PICK k \in 0..Len(seq) : /\ DropLeading(seq, blank) = SubSeq(seq, k + 1, Len(seq))
                               /\ \A i \in 1..k : seq[i] = blank
  BY DroppedFront
<1>2. PICK front, back : front = SubSeq(seq, 1, k) /\ back = SubSeq(seq, k + 1, Len(seq))
  OBVIOUS
<1>3. /\ front \in Seq(T) /\ Len(front) = k /\ \A i \in 1..k : front[i] = seq[i]
      /\ back \in Seq(T) /\ seq = front \o back
  BY <1>2, SplitAt
<1>4. Filled(front) = <<>>
  <2>1. \A i \in DOMAIN front : front[i].text = ""
    <3>1. DOMAIN front = 1..k
      <4>1. front \in Seq(T) /\ Len(front) = k
        BY <1>3
      <4>2. DOMAIN front = 1..Len(front)
        BY <4>1, Positions
      <4> QED BY <4>1, <4>2, Zenon
    <3>2. \A i \in 1..k : front[i] = blank
      BY <1>1, <1>3
    <3> QED BY <3>1, <3>2
  <2> QED BY <1>3, <2>1, BlankFills
<1>5. Filled(seq) = Filled(front) \o Filled(back)
  <2>1. Filled(front \o back) = Filled(front) \o Filled(back)
    BY <1>3, FilledJoined
  <2> QED BY <1>3, <2>1
<1>6. PICK f, V : f = Filled(back) /\ f \in Seq(V)
  BY <1>3, FilledType
<1>7. <<>> \o f = f
  BY <1>6, NothingBefore
<1> QED BY <1>1, <1>2, <1>4, <1>5, <1>6, <1>7, Zenon

------------------------------------------------------------------------------
(* Paths: what is trimmed, and what a URL makes of them.                   *)

(* What TrimEnd takes away are empty segments at the end.                  *)
LEMMA TrimmedEnd ==
  ASSUME NEW T, NEW path \in Seq(T)
  PROVE  \E k \in 0..Len(path) : /\ TrimEnd(path) = SubSeq(path, 1, k)
                                 /\ \A i \in 1..(Len(path) - k) : path[k + i] = Slash
<1>1. PICK n, r, d : n = Len(path) /\ r = Reverse(path) /\ d = DropLeading(r, Slash)
  OBVIOUS
<1>2. n \in Nat /\ r = [i \in 1..n |-> path[(n - i) + 1]]
  BY <1>1 DEF Reverse
<1>3. r \in Seq(T) /\ Len(r) = n /\ \A i \in 1..n : r[i] = path[(n - i) + 1]
  <2>1. \A i \in 1..n : path[(n - i) + 1] \in T
    <3> SUFFICES ASSUME NEW i \in 1..n PROVE path[(n - i) + 1] \in T
      OBVIOUS
    <3>1. PICK j : j = (n - i) + 1
      OBVIOUS
    <3>2. j \in 1..n
      BY <1>2, <3>1
    <3>3. path[j] \in T
      BY <1>1, <3>2
    <3> QED BY <3>1, <3>3
  <2>2. r \in [1..n -> T]
    BY <1>2, <2>1
  <2> QED BY <1>2, <2>2
<1>4. PICK m \in 0..n : d = SubSeq(r, m + 1, n) /\ \A i \in 1..m : r[i] = Slash
  <2>1. \E m \in 0..Len(r) : DropLeading(r, Slash) = SubSeq(r, m + 1, Len(r)) /\ \A i \in 1..m : r[i] = Slash
    <3>1. r \in Seq(T)
      BY <1>3
    <3> QED BY <3>1, DroppedFront, Zenon
  <2> QED BY <1>1, <1>3, <2>1
<1>5. PICK k : k = n - m
  OBVIOUS
<1>6. k \in 0..n /\ m = n - k
  BY <1>2, <1>5
<1>7. /\ d \in Seq(T) /\ Len(d) = k
      /\ \A i \in 1..k : d[i] = r[m + i]
  <2>1. /\ SubSeq(r, m + 1, Len(r)) \in Seq(T)
        /\ Len(SubSeq(r, m + 1, Len(r))) = Len(r) - m
        /\ \A i \in 1..(Len(r) - m) : SubSeq(r, m + 1, Len(r))[i] = r[m + i]
    <3>1. m \in 0..Len(r)
      BY <1>3
    <3> QED BY <1>3, <3>1, SplitAt
  <2> QED BY <1>3, <1>4, <1>5, <2>1
<1>8. \A i \in 1..k : d[(k - i) + 1] = path[i]
  <2> SUFFICES ASSUME NEW i \in 1..k PROVE d[(k - i) + 1] = path[i]
    OBVIOUS
  <2>1. PICK j, h : j = (k - i) + 1 /\ h = m + j
    OBVIOUS
  <2>2. j \in 1..k /\ h \in 1..n /\ (n - h) + 1 = i
    BY <1>2, <1>5, <1>6, <2>1
  <2>3. d[j] = r[h]
    BY <1>7, <2>1, <2>2
  <2>4. r[h] = path[(n - h) + 1]
    BY <1>3, <2>2
  <2> QED BY <2>1, <2>2, <2>3, <2>4
<1>9. TrimEnd(path) = [i \in 1..k |-> path[i]]
  <2>1. TrimEnd(path) = [i \in 1..k |-> d[(k - i) + 1]]
    BY <1>1, <1>7, Zenon DEF TrimEnd, Reverse
  <2> QED BY <1>8, <2>1
<1>10. SubSeq(path, 1, k) = [i \in 1..k |-> path[i]]
  <2>1. PICK s : s = SubSeq(path, 1, k)
    OBVIOUS
  <2>2. s \in Seq(T) /\ Len(s) = k /\ \A i \in 1..k : s[i] = path[i]
    <3>1. k \in 0..Len(path)
      BY <1>1, <1>6
    <3> QED BY <2>1, <3>1, SplitAt
  <2>3. DOMAIN s = 1..k
    BY <2>2, Positions, Zenon
  <2>4. s = [i \in 1..k |-> s[i]]
    BY <2>2, <2>3
  <2> QED BY <2>1, <2>2, <2>4
<1>11. \A i \in 1..(n - k) : path[k + i] = Slash
  <2> SUFFICES ASSUME NEW i \in 1..(n - k) PROVE path[k + i] = Slash
    OBVIOUS
  <2>1. PICK j : j = (n - k) - i + 1
    OBVIOUS
  <2>2. j \in 1..m /\ j \in 1..n /\ (n - j) + 1 = k + i
    BY <1>2, <1>6, <2>1
  <2>3. r[j] = Slash /\ r[j] = path[(n - j) + 1]
    BY <1>3, <1>4, <2>2
  <2> QED BY <2>2, <2>3
<1> QED BY <1>1, <1>6, <1>9, <1>10, <1>11

(* Trimming drops no filled segment and adds none.                         *)
LEMMA FilledTrimEnd ==
  ASSUME NEW T, NEW path \in Seq(T)
  PROVE  /\ TrimEnd(path) \in Seq(T)
         /\ \A j \in DOMAIN TrimEnd(path) : \E i \in DOMAIN path : TrimEnd(path)[j] = path[i]
         /\ Filled(TrimEnd(path)) = Filled(path)
<1>1. PICK k \in 0..Len(path) : /\ TrimEnd(path) = SubSeq(path, 1, k)
                                /\ \A i \in 1..(Len(path) - k) : path[k + i] = Slash
  BY TrimmedEnd
<1>2. PICK n, front, back : n = Len(path) /\ front = SubSeq(path, 1, k) /\ back = SubSeq(path, k + 1, n)
  OBVIOUS
<1>3. /\ front \in Seq(T) /\ Len(front) = k /\ \A i \in 1..k : front[i] = path[i]
      /\ back \in Seq(T) /\ Len(back) = n - k
      /\ \A i \in 1..(n - k) : back[i] = path[k + i]
      /\ path = front \o back
  BY <1>2, SplitAt
<1>4. Filled(back) = <<>>
  <2>1. DOMAIN back = 1..(n - k)
    BY <1>3, Positions, Zenon
  <2>2. \A i \in 1..(n - k) : back[i] = Slash
    BY <1>1, <1>2, <1>3
  <2>4. Slash.text = ""
    BY DEF Slash
  <2>3. \A i \in DOMAIN back : back[i].text = ""
    BY <2>1, <2>2, <2>4, Zenon
  <2> QED BY <1>3, <2>3, BlankFills
<1>5. Filled(path) = Filled(front) \o Filled(back)
  <2>1. Filled(front \o back) = Filled(front) \o Filled(back)
    BY <1>3, FilledJoined
  <2> QED BY <1>3, <2>1
<1>6. PICK f, V : f = Filled(front) /\ f \in Seq(V)
  BY <1>3, FilledType
<1>7. f \o <<>> = f
  BY <1>6
<1>8. \A j \in DOMAIN front : j \in DOMAIN path /\ front[j] = path[j]
  <2>1. DOMAIN front = 1..k /\ DOMAIN path = 1..n
    BY <1>2, <1>3, Positions, Zenon
  <2>2. 1..k \subseteq 1..n
    <3>1. n \in Nat /\ k \in 0..n
      BY <1>2
    <3> QED BY <3>1
  <2> QED BY <1>3, <2>1, <2>2
<1> QED BY <1>1, <1>2, <1>3, <1>4, <1>5, <1>6, <1>7, <1>8, Zenon

------------------------------------------------------------------------------
(* Segments that a URL keeps as they are.                                  *)
AllPlain(segs) == \A i \in DOMAIN segs : IsPlain(segs[i])

(* Resolving a segment gives segments of the path, or a slash, or pieces.  *)
LEMMA ResolveType ==
  ASSUME NEW T, NEW acc \in Seq(T \cup {Slash, Piece}), NEW seg \in T, NEW last
  PROVE  Resolve(acc, seg, last) \in Seq(T \cup {Slash, Piece})
<1>1. PICK W, up, over, slash, piece :
        /\ W = T \cup {Slash, Piece} /\ slash = Slash /\ piece = Piece
        /\ up = (IF acc = <<>> THEN acc ELSE Front(acc))
        /\ over = IF last THEN <<slash>> ELSE <<>>
  OBVIOUS
<1>2. up \in Seq(W) /\ over \in Seq(W) /\ acc \in Seq(W)
  <2>1. acc # <<>> => Front(acc) \in Seq(W)
    BY <1>1 DEF Front
  <2>2. <<slash>> \in Seq(W) /\ <<>> \in Seq(W)
    BY <1>1
  <2> QED BY <1>1, <2>1, <2>2
<1>3. acc \o over \in Seq(W) /\ up \o over \in Seq(W)
  BY <1>2
<1>4. Append(acc, seg) \in Seq(W)
  BY <1>1, <1>2
<1>5. acc \o <<piece, piece>> \in Seq(W)
  <2>1. <<piece, piece>> \in Seq(W)
    BY <1>1
  <2> QED BY <1>2, <2>1
<1> QED BY <1>1, <1>3, <1>4, <1>5, Zenon DEF Resolve

(* A segment that is plain stays.                                          *)
LEMMA PlainStays ==
  ASSUME NEW acc, NEW seg, NEW last, IsPlain(seg)
  PROVE  Resolve(acc, seg, last) = Append(acc, seg)
<1>1. seg.text # "." /\ seg.text # ".." /\ ~(seg.text \in Reserved /\ ~seg.encoded)
  BY DEF IsPlain
<1> QED BY <1>1, Zenon DEF Resolve

(* A path of plain segments stays as it is.                                *)
LEMMA PlainPath ==
  ASSUME NEW T, NEW segs \in Seq(T), AllPlain(segs)
  PROVE  ParsePath(segs) = IF segs = <<>> THEN <<Slash>> ELSE segs
<1> DEFINE at == [i \in DOMAIN segs |-> i]
           Eq(f) == f = [s \in SUBSET DOMAIN at |->
                           IF s = {} THEN <<>>
                           ELSE Resolve(f[s \ {Max(s)}], segs[at[Max(s)]], at[Max(s)] = Len(segs))]
           turn == [p \in (1..Len(segs)) \X Seq(T \cup {Slash, Piece}) |->
                      Resolve(p[2], segs[p[1]], p[1] = Len(segs))]
<1>1. PICK n, W, start : n = Len(segs) /\ W = Seq(T \cup {Slash, Piece}) /\ start = <<>> /\ start \in W
  <2>1. <<>> \in Seq(T \cup {Slash, Piece})
    OBVIOUS
  <2> QED BY <2>1
<1>2. n \in Nat /\ DOMAIN segs = 1..n /\ DOMAIN at = 1..n /\ \A i \in 1..n : at[i] = i /\ segs[i] \in T
  BY <1>1
<1> HIDE DEF at
<1>3. \A i \in 1..n, v \in W : turn[<<i, v>>] = Resolve(v, segs[i], i = n)
  BY <1>1
<1>4. \A i \in 1..n, v \in W : Resolve(v, segs[i], i = n) \in W
  BY <1>1, <1>2, ResolveType
<1>5. \A i \in 1..n, v \in W : turn[<<i, v>>] \in W
  <2> HIDE DEF turn
  <2> QED BY <1>3, <1>4
<1>6. PICK g : FoldsFrom(n, W, start, turn, g)
  <2> HIDE DEF turn
  <2> QED BY <1>1, <1>2, <1>5, FoldRecursion
<1>7. \A s \in SUBSET (1..n) :
        g[s] = IF s = {} THEN <<>>
               ELSE Resolve(g[s \ {Max(s)}], segs[at[Max(s)]], at[Max(s)] = Len(segs))
  <2> SUFFICES ASSUME NEW s \in SUBSET (1..n)
               PROVE  g[s] = IF s = {} THEN <<>>
                      ELSE Resolve(g[s \ {Max(s)}], segs[at[Max(s)]], at[Max(s)] = Len(segs))
    OBVIOUS
  <2>1. CASE s = {}
    BY <1>1, <1>6, <2>1, Zenon DEF FoldsFrom
  <2>2. CASE s # {}
    <3>1. Max(s) \in 1..n /\ s \ {Max(s)} \in SUBSET (1..n)
      BY <1>2, <2>2, MaxOfPositions
    <3>2. g[s \ {Max(s)}] \in W
      BY <1>6, <3>1 DEF FoldsFrom
    <3>3. g[s] = turn[<<Max(s), g[s \ {Max(s)}]>>]
      BY <1>6, <2>2 DEF FoldsFrom
    <3> HIDE DEF turn
    <3>4. g[s] = Resolve(g[s \ {Max(s)}], segs[Max(s)], Max(s) = n)
      BY <1>3, <3>1, <3>2, <3>3
    <3>5. at[Max(s)] = Max(s)
      BY <1>2, <3>1
    <3> QED BY <1>1, <2>2, <3>4, <3>5, Zenon
  <2> QED BY <2>1, <2>2
<1>8. Eq(g)
  <2>1. g = [s \in SUBSET (1..n) |-> g[s]]
    BY <1>6 DEF FoldsFrom
  <2> QED BY <1>2, <1>7, <2>1, Zenon
<1> DEFINE iter == CHOOSE f : Eq(f)
<1>9. Eq(iter)
  <2> HIDE DEF Eq
  <2> QED BY <1>8
<1>10. ParsePath(segs) = IF iter[DOMAIN at] = <<>> THEN <<Slash>> ELSE iter[DOMAIN at]
  BY Zenon DEF ParsePath, FoldLeft, MapThenFoldSet, iter, Eq, at
<1> HIDE DEF iter
<1>11. \A s \in SUBSET (1..n) :
         iter[s] = IF s = {} THEN <<>>
                   ELSE Resolve(iter[s \ {Max(s)}], segs[at[Max(s)]], at[Max(s)] = Len(segs))
  BY <1>2, <1>9, Zenon
<1> HIDE DEF Eq, turn
<1>12. 1..0 = {} /\ {} \in SUBSET (1..n) /\ iter[{}] = <<>>
  <2>1. 1..0 = {} /\ {} \in SUBSET (1..n)
    OBVIOUS
  <2> QED BY <1>11, <2>1, Zenon
<1>13. ASSUME NEW i \in 1..n PROVE iter[1..i] = Append(iter[1..(i - 1)], segs[i])
  <2>1. 1..i \in SUBSET (1..n) /\ 1..i # {} /\ Max(1..i) = i /\ (1..i) \ {i} = 1..(i - 1)
    BY <1>2, FirstPositions
  <2>2. iter[1..i] = Resolve(iter[(1..i) \ {i}], segs[at[i]], at[i] = Len(segs))
    BY <1>11, <2>1, Zenon
  <2>3. at[i] = i /\ IsPlain(segs[i])
    BY <1>2 DEF AllPlain
  <2>4. \A acc, last : Resolve(acc, segs[i], last) = Append(acc, segs[i])
    BY <2>3, PlainStays, Zenon
  <2> QED BY <2>1, <2>2, <2>3, <2>4, Zenon
<1> DEFINE S == {i \in 0..n : iter[1..i] = SubSeq(segs, 1, i)}
<1>14. 0 \in S
  <2>1. SubSeq(segs, 1, 0) = <<>> /\ 0 \in 0..n
    BY <1>2
  <2> QED BY <1>12, <2>1
<1>15. ASSUME NEW i \in 0..(n - 1), i \in S PROVE i + 1 \in S
  <2>1. PICK k : k = i + 1
    OBVIOUS
  <2>2. k \in 1..n /\ k \in 0..n /\ k - 1 = i /\ i \in 0..n
    BY <1>2, <2>1
  <2>3. iter[1..k] = Append(iter[1..(k - 1)], segs[k])
    BY <1>13, <2>2
  <2>4. iter[1..k] = Append(SubSeq(segs, 1, i), segs[k])
    BY <1>15, <2>2, <2>3
  <2>5. Append(SubSeq(segs, 1, i), segs[k]) = SubSeq(segs, 1, k)
    <3>1. PICK front, more, both : /\ front = SubSeq(segs, 1, i) /\ more = SubSeq(segs, 1, k)
                                   /\ both = Append(front, segs[k])
      OBVIOUS
    <3>2. i \in 0..Len(segs) /\ k \in 0..Len(segs)
      BY <1>1, <2>2
    <3>3. front \in Seq(T) /\ Len(front) = i /\ \A j \in 1..i : front[j] = segs[j]
      BY <3>1, <3>2, SplitAt
    <3>4. more \in Seq(T) /\ Len(more) = k /\ \A j \in 1..k : more[j] = segs[j]
      BY <3>1, <3>2, SplitAt
    <3>5. segs[k] \in T
      BY <1>2, <2>2
    <3>6. both \in Seq(T) /\ Len(both) = i + 1 /\ both[i + 1] = segs[k] /\ \A j \in 1..i : both[j] = front[j]
      BY <2>2, <3>1, <3>3, <3>5
    <3>7. \A j \in 1..k : both[j] = more[j]
      <4> SUFFICES ASSUME NEW j \in 1..k PROVE both[j] = more[j]
        OBVIOUS
      <4>1. CASE j = k
        BY <2>1, <3>4, <3>6, <4>1
      <4>2. CASE j # k
        <5>1. j \in 1..i
          BY <1>2, <2>1, <4>2
        <5> QED BY <3>3, <3>4, <3>6, <5>1
      <4> QED BY <4>1, <4>2
    <3>8. both = more
      BY <2>1, <2>2, <3>4, <3>6, <3>7
    <3> QED BY <3>1, <3>8
  <2> QED BY <2>1, <2>2, <2>4, <2>5
<1>16. 0..n \subseteq S
  <2> HIDE DEF S
  <2> QED BY <1>2, <1>14, <1>15, IndexInduction
<1>17. iter[1..n] = SubSeq(segs, 1, n)
  BY <1>2, <1>16
<1>18. SubSeq(segs, 1, n) = segs
  BY <1>1, <1>2
<1> QED BY <1>2, <1>10, <1>17, <1>18, Zenon

(* And so do its filled segments.                                          *)
LEMMA FilledPath ==
  ASSUME NEW T, NEW segs \in Seq(T), AllPlain(segs)
  PROVE  Filled(ParsePath(segs)) = Filled(segs)
<1>1. CASE segs # <<>>
  <2>1. ParsePath(segs) = segs
    BY <1>1, PlainPath, Zenon
  <2> QED BY <2>1
<1>2. CASE segs = <<>>
  <2>1. ParsePath(segs) = <<Slash>>
    BY <1>2, PlainPath, Zenon
  <2>2. PICK slash, path : slash = Slash /\ path = <<slash>>
    OBVIOUS
  <2>5. slash.text = ""
    BY <2>2 DEF Slash
  <2>6. path \in Seq({slash}) /\ \A i \in DOMAIN path : path[i] = slash
    BY <2>2
  <2>7. Filled(path) = <<>>
    BY <2>5, <2>6, BlankFills
  <2>3. Filled(<<Slash>>) = <<>>
    BY <2>2, <2>7, Zenon
  <2>4. Filled(segs) = <<>>
    <3>1. DOMAIN segs = {}
      BY <1>2
    <3> QED BY <3>1, BlankFills
  <2> QED BY <2>1, <2>3, <2>4
<1> QED BY <1>1, <1>2

------------------------------------------------------------------------------
(* Templates: what takes the place of their placeholders.                  *)

(* A segment of a template with its placeholder replaced.                  *)
Placed(seg, params) ==
  IF seg.kind = "param" THEN PercentEncode(params[seg.name])
  ELSE [text |-> seg.name, encoded |-> FALSE]

(* The text that is placed, and when it is plain: a value that is not, is  *)
(* encoded.                                                                *)
LEMMA PlacedIs ==
  ASSUME NEW seg, NEW params
  PROVE  /\ Placed(seg, params).text = IF seg.kind = "param" THEN params[seg.name] ELSE seg.name
         /\ /\ seg.kind # "param" => seg.name \notin Reserved
            /\ Placed(seg, params).text \notin {".", ".."}
            => IsPlain(Placed(seg, params))
<1>1. CASE seg.kind = "param"
  <2>1. PICK v, r : v = params[seg.name] /\ r = Placed(seg, params)
    OBVIOUS
  <2>2. r.text = v /\ r.encoded = (v \in Reserved)
    BY <1>1, <2>1 DEF Placed, PercentEncode
  <2>3. v \in Reserved => r.encoded
    BY <2>2
  <2> QED BY <1>1, <2>1, <2>2, <2>3 DEF IsPlain
<1>2. CASE seg.kind # "param"
  <2>1. PICK r : r = Placed(seg, params)
    OBVIOUS
  <2>2. r.text = seg.name
    BY <1>2, <2>1 DEF Placed
  <2> QED BY <1>2, <2>1, <2>2 DEF IsPlain
<1> QED BY <1>1, <1>2

(* Substitution places segment by segment.                                 *)
LEMMA Substituted ==
  ASSUME NEW T, NEW segs \in Seq(T), NEW params
  PROVE  LET made == SubstituteParams(segs, params)
         IN  /\ made \in Seq({Placed(t, params) : t \in T}) /\ Len(made) = Len(segs)
             /\ \A i \in 1..Len(segs) : made[i] = Placed(segs[i], params)
<1>1. PICK n, made, R : /\ n = Len(segs) /\ made = SubstituteParams(segs, params)
                        /\ R = {Placed(t, params) : t \in T}
  OBVIOUS
<1>2. n \in Nat /\ DOMAIN segs = 1..n /\ \A i \in 1..n : segs[i] \in T
  BY <1>1
<1>3. made = [i \in 1..n |-> Placed(segs[i], params)]
  BY <1>1, <1>2, Zenon DEF SubstituteParams, Placed
<1>4. made \in [1..n -> R]
  BY <1>1, <1>2, <1>3
<1>5. made \in Seq(R) /\ Len(made) = n
  BY <1>2, <1>3, <1>4
<1>6. \A i \in 1..n : made[i] = Placed(segs[i], params)
  BY <1>3
<1> QED BY <1>1, <1>5, <1>6

(* Nothing is lost with the blanks behind a modifier.                      *)
LEMMA BlanksReplaced ==
  ASSUME NEW T, NEW segs \in Seq(T), NEW params
  PROVE  Filled(SubstituteParams(DropLeading(segs, Blank), params)) =
           Filled(SubstituteParams(segs, params))
<1>1. PICK k \in 0..Len(segs) : /\ DropLeading(segs, Blank) = SubSeq(segs, k + 1, Len(segs))
                                /\ \A i \in 1..k : segs[i] = Blank
  BY DroppedFront
<1>2. PICK n, rest, R, all, made :
        /\ n = Len(segs) /\ rest = SubSeq(segs, k + 1, n)
        /\ R = {Placed(t, params) : t \in T}
        /\ all = SubstituteParams(segs, params) /\ made = SubstituteParams(rest, params)
  OBVIOUS
<1>3. n \in Nat /\ k \in 0..n
  BY <1>2
<1>4. rest \in Seq(T) /\ Len(rest) = n - k /\ \A i \in 1..(n - k) : rest[i] = segs[k + i]
  BY <1>2, SplitAt
<1>5. all \in Seq(R) /\ Len(all) = n /\ \A i \in 1..n : all[i] = Placed(segs[i], params)
  BY <1>2, Substituted
<1>6. made \in Seq(R) /\ Len(made) = n - k
      /\ \A i \in 1..(n - k) : made[i] = Placed(rest[i], params)
  <2>1. /\ made \in Seq(R) /\ Len(made) = Len(rest)
        /\ \A i \in 1..Len(rest) : made[i] = Placed(rest[i], params)
    <3>1. rest \in Seq(T)
      BY <1>4
    <3> QED BY <1>2, <3>1, Substituted
  <2> QED BY <1>4, <2>1
<1>7. PICK front, back : front = SubSeq(all, 1, k) /\ back = SubSeq(all, k + 1, n)
  OBVIOUS
<1>8. /\ front \in Seq(R) /\ Len(front) = k /\ \A i \in 1..k : front[i] = all[i]
      /\ back \in Seq(R) /\ Len(back) = n - k
      /\ \A i \in 1..(n - k) : back[i] = all[k + i]
      /\ all = front \o back
  <2>1. all \in Seq(R) /\ k \in 0..Len(all) /\ Len(all) = n
    BY <1>3, <1>5
  <2>2. \A j \in 0..Len(all) :
          /\ SubSeq(all, 1, j) \in Seq(R) /\ Len(SubSeq(all, 1, j)) = j
          /\ \A i \in 1..j : SubSeq(all, 1, j)[i] = all[i]
          /\ SubSeq(all, j + 1, Len(all)) \in Seq(R) /\ Len(SubSeq(all, j + 1, Len(all))) = Len(all) - j
          /\ \A i \in 1..(Len(all) - j) : SubSeq(all, j + 1, Len(all))[i] = all[j + i]
          /\ all = SubSeq(all, 1, j) \o SubSeq(all, j + 1, Len(all))
    BY <2>1, SplitAt
  <2> QED BY <1>7, <2>1, <2>2, Zenon
<1>9. back = made
  <2>1. \A i \in 1..(n - k) : back[i] = made[i]
    <3> SUFFICES ASSUME NEW i \in 1..(n - k) PROVE back[i] = made[i]
      OBVIOUS
    <3>1. PICK j : j = k + i
      OBVIOUS
    <3>2. j \in 1..n
      BY <1>3, <3>1
    <3>3. back[i] = all[j] /\ all[j] = Placed(segs[j], params)
      BY <1>5, <1>8, <3>1, <3>2
    <3>4. made[i] = Placed(rest[i], params) /\ rest[i] = segs[j]
      BY <1>4, <1>6, <3>1
    <3> QED BY <3>3, <3>4
  <2>2. n - k \in Nat
    BY <1>3
  <2> QED BY <1>6, <1>8, <2>1, <2>2
<1>10. Filled(front) = <<>>
  <2>1. DOMAIN front = 1..k
    BY <1>8, Positions, Zenon
  <2>2. Placed(Blank, params).text = ""
    BY DEF Placed, Blank, Text
  <2>3. \A i \in 1..k : front[i] = Placed(Blank, params)
    <3>1. \A i \in 1..k : i \in 1..n
      BY <1>3
    <3> QED BY <1>1, <1>5, <1>8, <3>1
  <2>4. \A i \in DOMAIN front : front[i].text = ""
    BY <2>1, <2>2, <2>3, Zenon
  <2> QED BY <1>8, <2>4, BlankFills
<1>11. Filled(all) = Filled(front) \o Filled(back)
  <2>1. Filled(front \o back) = Filled(front) \o Filled(back)
    BY <1>8, FilledJoined
  <2> QED BY <1>8, <2>1
<1>12. PICK f, V : f = Filled(back) /\ f \in Seq(V)
  BY <1>8, FilledType
<1>13. <<>> \o f = f
  BY <1>12, NothingBefore
<1> QED BY <1>1, <1>2, <1>9, <1>10, <1>11, <1>12, <1>13, Zenon

(* An element of a sequence has its type.                                  *)
LEMMA ElementIn ==
  ASSUME NEW T, NEW s \in Seq(T), NEW i \in DOMAIN s
  PROVE  s[i] \in T
OBVIOUS

(* A text that is not blank is among those that are filled.                *)
LEMMA TextIsFilled ==
  ASSUME NEW T, NEW a \in Seq(T), NEW i \in DOMAIN a, a[i].text # ""
  PROVE  \E j \in DOMAIN Filled(a) : Filled(a)[j] = a[i].text
<1>1. PICK x, V : x = Texts(a) /\ V = {t.text : t \in T}
  OBVIOUS
<1>2. x \in Seq(V) /\ DOMAIN x = DOMAIN a /\ x[i] = a[i].text
  BY <1>1, TextsType
<1>3. NonBlank(x) = Kept(x, V \ {""})
  BY <1>2, NonBlankKept
<1>4. ToSet(Kept(x, V \ {""})) = ToSet(x) \cap (V \ {""})
  <2>1. \A K : ToSet(Kept(x, K)) = ToSet(x) \cap K
    BY <1>2, KeptElements
  <2> QED BY <2>1
<1>5. x[i] \in V /\ x[i] \in ToSet(x)
  <2>1. i \in DOMAIN x
    BY <1>2
  <2>2. x[i] \in V
    <3>1. \A s \in Seq(V) : \A j \in DOMAIN s : s[j] \in V
      BY ElementIn
    <3> QED BY <1>2, <2>1, <3>1, Zenon
  <2>3. x[i] \in ToSet(x)
    BY <2>1, Zenon DEF ToSet
  <2> QED BY <2>2, <2>3
<1>6. x[i] \in ToSet(Kept(x, V \ {""}))
  BY <1>2, <1>4, <1>5, Zenon
<1>7. Filled(a) = Kept(x, V \ {""})
  BY <1>1, <1>3, FilledIs, Zenon
<1>8. a[i].text \in ToSet(Filled(a))
  BY <1>2, <1>6, <1>7, Zenon
<1> QED BY <1>8 DEF ToSet

------------------------------------------------------------------------------
(* The URL of a base and a template.                                       *)

(* The path of the base, and behind it that of the request.                *)
LEMMA JoinedUrl ==
  ASSUME NEW base, IsUrl(base), base.query = <<>>, NEW T, NEW made \in Seq(T), AllPlain(made)
  PROVE  LET url == JoinPath(base, made)
         IN  /\ DOMAIN url = DOMAIN Host("") /\ url.host = base.host /\ url.query = <<>>
             /\ Filled(url.path) = Filled(base.path) \o Filled(made)
<1>1. PICK path, A, W, start, rest, both, url :
        /\ path = base.path /\ A = ToSet(path) /\ W = A \cup T
        /\ start = TrimEnd(path) /\ rest = DropLeading(made, Slash) /\ both = start \o rest
        /\ url = JoinPath(base, made)
  OBVIOUS
<1>2. path \in Seq(A) /\ \A i \in DOMAIN path : IsPlain(path[i])
  BY <1>1 DEF IsUrl
<1>3. start \in Seq(A)
  BY <1>1, <1>2, FilledTrimEnd, Zenon
<1>4. \A j \in DOMAIN start : \E i \in DOMAIN path : start[j] = path[i]
  <2>1. path \in Seq(A)
    BY <1>2
  <2>2. \A j \in DOMAIN TrimEnd(path) : \E i \in DOMAIN path : TrimEnd(path)[j] = path[i]
    BY <2>1, FilledTrimEnd
  <2> QED BY <1>1, <2>2, Zenon
<1>5. Filled(start) = Filled(path)
  BY <1>1, <1>2, FilledTrimEnd, Zenon
<1>6. rest \in Seq(T) /\ \A j \in DOMAIN rest : \E i \in DOMAIN made : rest[j] = made[i]
  <2>1. /\ DropLeading(made, Slash) \in Seq(T)
        /\ \A j \in DOMAIN DropLeading(made, Slash) :
              \E i \in DOMAIN made : DropLeading(made, Slash)[j] = made[i]
    BY DroppedElements
  <2> QED BY <1>1, <2>1, Zenon
<1>7. Filled(rest) = Filled(made)
  <2>1. Slash.text = ""
    BY DEF Slash
  <2> QED BY <1>1, <2>1, FilledDropLeading, Zenon
<1>8. \A j \in DOMAIN start : IsPlain(start[j])
  BY <1>2, <1>4, Zenon
<1>9. \A j \in DOMAIN rest : IsPlain(rest[j])
  BY <1>6, Zenon DEF AllPlain
<1>10. start \in Seq(W) /\ rest \in Seq(W)
  BY <1>1, <1>3, <1>6
<1>11. both \in Seq(W) /\ AllPlain(both)
  <2>1. PICK m, n : m = Len(start) /\ n = Len(rest)
    OBVIOUS
  <2>2. m \in Nat /\ n \in Nat /\ DOMAIN start = 1..m /\ DOMAIN rest = 1..n
    BY <1>10, <2>1
  <2>3. both \in Seq(W) /\ DOMAIN both = 1..(m + n)
        /\ \A i \in 1..(m + n) : both[i] = IF i <= m THEN start[i] ELSE rest[i - m]
    BY <1>1, <1>10, <2>1, <2>2
  <2>4. ASSUME NEW i \in 1..(m + n) PROVE IsPlain(both[i])
    <3>1. CASE i <= m
      <4>1. i \in DOMAIN start
        BY <2>2, <3>1
      <4> QED BY <1>8, <2>3, <3>1, <4>1
    <3>2. CASE ~(i <= m)
      <4>1. PICK j : j = i - m
        OBVIOUS
      <4>2. j \in DOMAIN rest
        BY <2>2, <3>2, <4>1
      <4>3. both[i] = rest[j]
        BY <2>3, <3>2, <4>1
      <4> QED BY <1>9, <4>2, <4>3
    <3> QED BY <3>1, <3>2
  <2> QED BY <2>3, <2>4 DEF AllPlain
<1>12. Filled(ParsePath(both)) = Filled(both)
  BY <1>11, FilledPath
<1>13. Filled(both) = Filled(start) \o Filled(rest)
  BY <1>1, <1>10, FilledJoined, Zenon
<1>14. url = [base EXCEPT !.path = ParsePath(both)]
  BY <1>1, Zenon DEF JoinPath
<1>15. PICK parsed : parsed = ParsePath(both)
  OBVIOUS
<1>16. DOMAIN base = {"host", "path", "query", "tail"} /\ DOMAIN Host("") = {"host", "path", "query", "tail"}
  BY DEF IsUrl, Host
<1>17. url = [base EXCEPT !.path = parsed]
  BY <1>14, <1>15
<1>18. DOMAIN url = DOMAIN base /\ url.host = base.host /\ url.query = base.query /\ url.path = parsed
  BY <1>16, <1>17
<1>19. Filled(url.path) = Filled(path) \o Filled(made)
  BY <1>5, <1>7, <1>12, <1>13, <1>15, <1>18, Zenon
<1> QED BY <1>1, <1>16, <1>18, <1>19

(* What is put into a URL for a template is what the caller gave last.     *)
Placing == SubstituteParams(ParseMethodModifier(request.path).segs, request.params)

(* A URL that was built had a value for each placeholder.                  *)
LEMMA NothingMissing ==
  ASSUME Built.error = "none"
  PROVE  Missing(ParseMethodModifier(request.path).segs, request.params) = {}
<1>1. MissingPathParam # "none"
  BY DEF MissingPathParam
<1>2. CASE Missing(ParseMethodModifier(request.path).segs, request.params) # {}
  <2>1. PICK built : built = [error |-> MissingPathParam]
    OBVIOUS
  <2>2. Built = built
    BY <1>2, <2>1 DEF Built, BuildUrl
  <2> QED BY <1>1, <2>1, <2>2
<1> QED BY <1>2

(* Nor did its host keep it from being parsed.                             *)
LEMMA HostParsed ==
  ASSUME Built.error = "none"
  PROVE  Parses(request.path)
<1>1. InvalidBaseUrl # "none"
  BY DEF InvalidBaseUrl
<1>2. Missing(ParseMethodModifier(request.path).segs, request.params) = {}
  BY NothingMissing
<1>3. CASE ~Parses(request.path)
  <2>1. PICK built : built = [error |-> InvalidBaseUrl]
    OBVIOUS
  <2>2. Built = built
    BY <1>2, <1>3, <2>1, Zenon DEF Built, BuildUrl
  <2> QED BY <1>1, <2>1, <2>2
<1> QED BY <1>3

(* What is placed is the template with the values given last.              *)
LEMMA TemplateMade ==
  ASSUME RequestOK, IsPath(request.path), Built.error = "none"
  PROVE  Template = Filled(Placing)
<1>1. PICK path, params, T, segs, parsed, made :
        /\ path = request.path /\ params = request.params /\ T = ToSet(path.segs)
        /\ segs = (IF HasModifier(path) THEN Tail(path.segs) ELSE path.segs)
        /\ parsed = ParseMethodModifier(path).segs
        /\ made = SubstituteParams(segs, params)
  OBVIOUS
<1>2. path.segs \in Seq(T) /\ path.segs # <<>>
  BY <1>1 DEF IsPath
<1>3. segs \in Seq(T)
  <2>1. PICK all : all = path.segs
    OBVIOUS
  <2>2. all \in Seq(T) /\ all # <<>>
    BY <1>2, <2>1
  <2>3. Tail(all) \in Seq(T)
    BY <2>2
  <2> QED BY <1>1, <2>1, <2>2, <2>3, Zenon
<1>4. /\ HasModifier(path) => parsed = DropLeading(segs, Blank)
      /\ ~HasModifier(path) => parsed = segs
  BY <1>1 DEF ParseMethodModifier
<1>5. \A i \in DOMAIN parsed : parsed[i].kind = "param" => parsed[i].name \in DOMAIN params
  <2>1. Missing(parsed, params) = {}
    BY <1>1, NothingMissing
  <2> QED BY <2>1 DEF Missing
<1>6. \A i \in DOMAIN segs : segs[i].kind = "param" => segs[i].name \in DOMAIN params
  <2>1. CASE HasModifier(path)
    <3>1. PICK k \in 0..Len(segs) : /\ DropLeading(segs, Blank) = SubSeq(segs, k + 1, Len(segs))
                                    /\ \A i \in 1..k : segs[i] = Blank
      BY <1>3, DroppedFront
    <3>2. PICK n : n = Len(segs)
      OBVIOUS
    <3>3. n \in Nat /\ k \in 0..n /\ DOMAIN segs = 1..n
      BY <1>3, <3>2
    <3>4. parsed \in Seq(T) /\ Len(parsed) = n - k /\ \A i \in 1..(n - k) : parsed[i] = segs[k + i]
      <4>1. parsed = SubSeq(segs, k + 1, Len(segs))
        BY <1>4, <2>1, <3>1
      <4> QED BY <1>3, <3>2, <4>1, SplitAt
    <3>5. DOMAIN parsed = 1..(n - k)
      BY <3>4, Positions, Zenon
    <3>6. ASSUME NEW i \in 1..n, segs[i].kind = "param" PROVE segs[i].name \in DOMAIN params
      <4>1. Blank.kind # "param"
        BY DEF Blank, Text
      <4>2. i \notin 1..k
        BY <3>1, <3>6, <4>1
      <4>3. PICK j : j = i - k
        OBVIOUS
      <4>4. j \in 1..(n - k) /\ k + j = i
        BY <3>3, <4>2, <4>3
      <4>5. parsed[j] = segs[i] /\ j \in DOMAIN parsed
        BY <3>4, <3>5, <4>4
      <4> QED BY <1>5, <3>6, <4>5
    <3> QED BY <3>3, <3>6
  <2>2. CASE ~HasModifier(path)
    BY <1>4, <1>5, <2>2
  <2> QED BY <2>1, <2>2
<1>7. \A name \in DOMAIN params : ParamMade(name) = params[name]
  BY <1>1 DEF RequestOK, ParamMade
<1>8. /\ Len(made) = Len(segs) /\ DOMAIN made = DOMAIN segs
      /\ \A i \in DOMAIN segs : made[i] = Placed(segs[i], params)
  <2>3. LET m == SubstituteParams(segs, params)
        IN  /\ m \in Seq({Placed(t, params) : t \in T}) /\ Len(m) = Len(segs)
            /\ \A i \in 1..Len(segs) : m[i] = Placed(segs[i], params)
    BY <1>3, Substituted
  <2>1. /\ made \in Seq({Placed(t, params) : t \in T}) /\ Len(made) = Len(segs)
        /\ \A i \in 1..Len(segs) : made[i] = Placed(segs[i], params)
    BY <1>1, <2>3, Zenon
  <2>2. DOMAIN made = 1..Len(made) /\ DOMAIN segs = 1..Len(segs)
    BY <1>3, <2>1, Positions, Zenon
  <2> QED BY <2>1, <2>2
<1>9. Texts(made) = [i \in DOMAIN segs |-> IF segs[i].kind = "param" THEN ParamMade(segs[i].name)
                                           ELSE segs[i].name]
  <2>1. \A i \in DOMAIN segs :
          Placed(segs[i], params).text = IF segs[i].kind = "param" THEN ParamMade(segs[i].name)
                                         ELSE segs[i].name
    <3> SUFFICES ASSUME NEW i \in DOMAIN segs
                 PROVE  Placed(segs[i], params).text =
                          IF segs[i].kind = "param" THEN ParamMade(segs[i].name) ELSE segs[i].name
      OBVIOUS
    <3>1. PICK seg : seg = segs[i]
      OBVIOUS
    <3>2. Placed(seg, params).text = IF seg.kind = "param" THEN params[seg.name] ELSE seg.name
      BY PlacedIs, Zenon
    <3> QED BY <1>6, <1>7, <3>1, <3>2, Zenon
  <2> QED BY <1>8, <2>1, Zenon DEF Texts
<1>10. Template = NonBlank(Texts(made))
  BY <1>1, <1>9, Zenon DEF Template
<1>11. Filled(SubstituteParams(segs, params)) = Filled(SubstituteParams(parsed, params))
  <2>1. CASE HasModifier(path)
    <3>1. Filled(SubstituteParams(DropLeading(segs, Blank), params)) = Filled(SubstituteParams(segs, params))
      BY <1>3, BlanksReplaced
    <3> QED BY <1>4, <2>1, <3>1, Zenon
  <2>2. CASE ~HasModifier(path)
    BY <1>4, <2>2, Zenon
  <2> QED BY <2>1, <2>2
<1> QED BY <1>1, <1>10, <1>11, FilledIs, Zenon DEF Placing

(* Unless a value is dots, all that is placed is plain.                    *)
LEMMA PlacingPlain ==
  ASSUME RequestOK, IsPath(request.path), Built.error = "none", Dotless
  PROVE  \E R : Placing \in Seq(R) /\ AllPlain(Placing)
<1>1. PICK path, params, T, parsed, made :
        /\ path = request.path /\ params = request.params /\ T = ToSet(path.segs)
        /\ parsed = ParseMethodModifier(path).segs /\ made = Placing
  OBVIOUS
<1>2. path.segs \in Seq(T) /\ \A i \in DOMAIN path.segs :
         path.segs[i].kind # "param" => path.segs[i].name \notin Reserved
  BY <1>1 DEF IsPath
<1>3. parsed \in Seq(T) /\ \A j \in DOMAIN parsed : \E i \in DOMAIN path.segs : parsed[j] = path.segs[i]
  <2>1. path.segs \in Seq(T)
    BY <1>2
  <2>2. LET out == ParseMethodModifier(path)
        IN  /\ out.segs \in Seq(T)
            /\ \A j \in DOMAIN out.segs : \E i \in DOMAIN path.segs : out.segs[j] = path.segs[i]
    BY <2>1, ParsedElements
  <2> QED BY <1>1, <2>2, Zenon
<1>4. PICK R : R = {Placed(t, params) : t \in T}
  OBVIOUS
<1>5. /\ made \in Seq(R) /\ Len(made) = Len(parsed)
      /\ \A i \in 1..Len(parsed) : made[i] = Placed(parsed[i], params)
  <2>1. LET m == SubstituteParams(parsed, params)
        IN  /\ m \in Seq({Placed(t, params) : t \in T}) /\ Len(m) = Len(parsed)
            /\ \A i \in 1..Len(parsed) : m[i] = Placed(parsed[i], params)
    BY <1>3, Substituted
  <2>2. made = SubstituteParams(parsed, params)
    BY <1>1 DEF Placing
  <2> QED BY <1>4, <2>1, <2>2, Zenon
<1>6. DOMAIN made = 1..Len(made) /\ DOMAIN parsed = 1..Len(parsed)
  BY <1>3, <1>5, Positions, Zenon
<1>7. Template = Filled(made)
  BY <1>1, TemplateMade
<1>8. ASSUME NEW i \in DOMAIN made PROVE IsPlain(made[i])
  <2>1. PICK seg : seg = parsed[i] /\ made[i] = Placed(seg, params)
    BY <1>5, <1>6
  <2>2. seg.kind # "param" => seg.name \notin Reserved
    <3>1. i \in DOMAIN parsed
      BY <1>5, <1>6
    <3>2. PICK h \in DOMAIN path.segs : parsed[i] = path.segs[h]
      BY <1>3, <3>1
    <3> QED BY <1>2, <2>1, <3>2
  <2>3. made[i].text \notin {".", ".."}
    <3>1. CASE made[i].text = ""
      BY <3>1
    <3>2. CASE made[i].text # ""
      <4>1. \E j \in DOMAIN Filled(made) : Filled(made)[j] = made[i].text
        BY <1>5, <3>2, TextIsFilled
      <4> QED BY <1>7, <4>1, Zenon DEF Dotless
    <3> QED BY <3>1, <3>2
  <2>4. IsPlain(Placed(seg, params))
    BY <2>1, <2>2, <2>3, PlacedIs, Zenon
  <2> QED BY <2>1, <2>4, Zenon
<1> QED BY <1>1, <1>5, <1>8, Zenon DEF AllPlain

------------------------------------------------------------------------------
(* What the URL is built from.                                             *)

(* All that the caller said of the query.                                  *)
QuerySetters == {call \in RequestCalls : call[1] = "queries"}
(* The entries that the programs of the caller can say.                    *)
QueryEntries == UNION {ToSet(call[2]) : call \in QuerySetters}
(* Those of a log, one behind the other.                                   *)
QueriesOf(log) == FlattenSeq(Seconds(CallsOf(log, {"queries"})))

(* What prepare_execution builds the URL from, and that it could.          *)
Underway == phase \notin Unstarted \cup {"done"} \/ sent # None
(* The path, the base and the query of a request that is being made, and no*)
(* placeholder without a value in one that was prepared.                   *)
UrlOK ==
  /\ Underway => /\ IsPath(request.path) /\ client.base # None
                 /\ request.query = MergeQueries(<<>>, QueriesOf(requestLog))
  /\ phase = "start" => client.base # None
  /\ phase \in Prepared \cup Answered \/ sent # None => Built.error = "none"

(* A query is a sequence of entries.                                       *)
LEMMA QuerySettersAre ==
  \A call \in QuerySetters : call[2] \in Seq(QueryEntries)
<1> SUFFICES ASSUME NEW call \in QuerySetters PROVE call[2] \in Seq(QueryEntries)
  OBVIOUS
<1>1. IsRequestCall(call) /\ call[1] = "queries"
  BY ProgramAssumption DEF QuerySetters, RequestCalls, WellTyped
<1>2. call[2] \in Seq(ToSet(call[2]))
  BY <1>1 DEF IsRequestCall
<1>3. ToSet(call[2]) \subseteq QueryEntries
  BY DEF QueryEntries
<1> QED BY <1>2, <1>3

(* An entry has a sequence of values.                                      *)
LEMMA QueryEntriesListed == Listed(QueryEntries)
<1> SUFFICES ASSUME NEW e \in QueryEntries PROVE e.values \in Seq(ToSet(e.values))
  BY DEF Listed
<1>1. PICK call \in QuerySetters : e \in ToSet(call[2])
  BY DEF QueryEntries
<1>2. IsRequestCall(call) /\ call[1] = "queries"
  BY ProgramAssumption DEF QuerySetters, RequestCalls, WellTyped
<1> QED BY <1>1, <1>2 DEF IsRequestCall

(* One more pair.                                                          *)
LEMMA SecondsAppend ==
  ASSUME NEW T, NEW seq \in Seq(T), NEW e \in T
  PROVE  Seconds(Append(seq, e)) = Append(Seconds(seq), e[2])
BY DEF Seconds

(* One more call says its entries behind the others, or nothing of the     *)
(* query.                                                                  *)
LEMMA QueriesAppend ==
  ASSUME NEW log \in Seq(RequestCalls), NEW call \in RequestCalls
  PROVE  /\ QueriesOf(log) \in Seq(QueryEntries)
         /\ QueriesOf(Append(log, call)) =
              IF call[1] = "queries" THEN QueriesOf(log) \o call[2] ELSE QueriesOf(log)
<1>1. PICK made, more, values :
        /\ made = CallsOf(log, {"queries"}) /\ more = CallsOf(Append(log, call), {"queries"})
        /\ values = Seconds(made)
  OBVIOUS
<1>2. made \in Seq(RequestCalls)
  BY <1>1, CallsOfAppend
<1>3. more = IF call[1] \in {"queries"} THEN Append(made, call) ELSE made
  BY <1>1, CallsOfAppend
<1>4. \A j \in DOMAIN made : made[j] \in QuerySetters
  <2>1. PICK at : at = {i \in DOMAIN log : log[i][1] \in {"queries"}}
    OBVIOUS
  <2>2. made = Selected(log, at)
    BY <1>1, <2>1, Zenon DEF CallsOf
  <2>3. \A j \in DOMAIN Selected(log, at) : \E i \in DOMAIN log : i \in at /\ Selected(log, at)[j] = log[i]
    BY SelectedElements
  <2>4. ASSUME NEW j \in DOMAIN made PROVE made[j] \in QuerySetters
    <3>1. PICK i \in DOMAIN log : i \in at /\ made[j] = log[i]
      BY <2>2, <2>3
    <3>2. log[i] \in RequestCalls /\ log[i][1] = "queries"
      BY <2>1, <3>1
    <3> QED BY <3>1, <3>2 DEF QuerySetters
  <2> QED BY <2>4
<1>5. values \in Seq(Seq(QueryEntries))
  <2>1. PICK n : n = Len(made)
    OBVIOUS
  <2>2. n \in Nat /\ DOMAIN made = 1..n
    BY <1>2, <2>1
  <2>3. values = [j \in 1..n |-> made[j][2]]
    BY <1>1, <2>2, Zenon DEF Seconds
  <2>4. \A j \in 1..n : made[j][2] \in Seq(QueryEntries)
    BY <1>4, <2>2, QuerySettersAre
  <2>5. values \in [1..n -> Seq(QueryEntries)]
    BY <2>3, <2>4
  <2> QED BY <2>2, <2>5
<1>6. QueriesOf(log) = FlattenSeq(values) /\ QueriesOf(Append(log, call)) = FlattenSeq(Seconds(more))
  BY <1>1, Zenon DEF QueriesOf
<1>7. FlattenSeq(values) \in Seq(QueryEntries)
  <2>0. <<>> \in Seq(QueryEntries)
    OBVIOUS
  <2>1. \A s \in Seq(QueryEntries) : FlattenSeq(values) \in Seq(QueryEntries)
    BY <1>5, FlattenAppend
  <2> QED BY <2>0, <2>1, Zenon
<1>8. CASE call[1] = "queries"
  <2>1. more = Append(made, call)
    BY <1>3, <1>8
  <2>2. Seconds(Append(made, call)) = Append(values, call[2])
    BY <1>1, <1>2, SecondsAppend
  <2>3. call[2] \in Seq(QueryEntries)
    BY <1>8, QuerySettersAre DEF QuerySetters
  <2>4. PICK said : said = call[2] /\ said \in Seq(QueryEntries)
    BY <2>3
  <2>5. FlattenSeq(Append(values, said)) = FlattenSeq(values) \o said
    BY <1>5, <2>4, FlattenAppend
  <2> QED BY <1>6, <1>7, <1>8, <2>1, <2>2, <2>4, <2>5, Zenon
<1>9. CASE call[1] # "queries"
  <2>1. more = made
    BY <1>3, <1>9
  <2> QED BY <1>1, <1>6, <1>7, <1>9, <2>1, Zenon
<1> QED BY <1>8, <1>9

(* An empty log says nothing of the query.                                 *)
LEMMA NoQueries == QueriesOf(<<>>) = <<>>
<1>1. CallsOf(<<>>, {"queries"}) = <<>>
  BY CallsOfEmpty
<1>2. Seconds(<<>>) = <<>>
  BY DEF Seconds
<1>3. FlattenSeq(<<>>) = <<>>
  BY DEF FlattenSeq
<1> QED BY <1>1, <1>2, <1>3, Zenon DEF QueriesOf

(* A step that leaves the client and the request alone, and prepares       *)
(* nothing.                                                                *)
LEMMA UrlKept ==
  ASSUME UrlOK, UNCHANGED <<client, request, requestLog>>, Underway' => Underway,
         phase' = "start" => phase = "start",
         phase' \in Prepared \cup Answered \/ sent' # None
           => phase \in Prepared \cup Answered \/ sent # None \/ Built.error = "none"
  PROVE  UrlOK'
<1>1. Built' = Built
  BY DEF Built, Base
<1>2. QueriesOf(requestLog') = QueriesOf(requestLog)
  OBVIOUS
<1>3. Underway' => /\ IsPath(request'.path) /\ client'.base # None
                   /\ request'.query = MergeQueries(<<>>, QueriesOf(requestLog'))
  BY <1>2 DEF UrlOK
<1>4. phase' = "start" => client'.base # None
  BY DEF UrlOK
<1>5. phase' \in Prepared \cup Answered \/ sent' # None => Built'.error = "none"
  BY <1>1 DEF UrlOK
<1> QED BY <1>3, <1>4, <1>5 DEF UrlOK

(* A request starts with the path of its template and without a query.     *)
LEMMA UrlStarted ==
  ASSUME BuiltOK, UrlOK, NEW method, NEW path, IsPath(path), phase = "start", phase' = "request",
         request' = ClientRequest(client, method, path), sent = None,
         UNCHANGED <<client, requestLog, sent>>
  PROVE  UrlOK'
<1>1. client.base # None /\ requestLog = <<>>
  BY DEF UrlOK, BuiltOK, LogsOK, Unstarted
<1>2. PICK r : r = request'
  OBVIOUS
<1>3. r.path = path /\ r.query = <<>>
  BY <1>2 DEF ClientRequest
<1>4. MergeQueries(<<>>, <<>>) = <<>>
  <2>1. \A T : <<>> \in Seq(T)
    OBVIOUS
  <2>2. PICK none : none = <<>> /\ none \in Seq({0}) /\ 0 \in {0}
    BY <2>1
  <2>3. MergeQueries(none, <<>>) = none
    BY <2>2, MergeQueriesAppend
  <2> QED BY <2>2, <2>3, Zenon
<1>5. r.query = MergeQueries(<<>>, QueriesOf(requestLog'))
  BY <1>1, <1>3, <1>4, NoQueries, Zenon
<1> QED BY <1>1, <1>2, <1>3, <1>5 DEF UrlOK, Prepared, Answered

(* A setter keeps the path, and merges what it says of the query.          *)
LEMMA UrlConfigured ==
  ASSUME BuiltOK, UrlOK, NEW call \in RequestCalls, Configure(call), sent = None
  PROVE  UrlOK'
<1>1. /\ phase = "request" /\ phase' \in {"request", "done"} /\ sent' = sent /\ client' = client
      /\ requestLog' = Append(requestLog, call)
  BY DEF Configure, Finish, Proceed, answer
<1>2. RequestOK /\ requestLog \in Seq(RequestCalls) /\ Underway
  BY <1>1 DEF BuiltOK, LogsOK, Unstarted, Underway
<1>3. PICK r, d, said : r = request /\ d = request' /\ said = QueriesOf(requestLog)
  OBVIOUS
<1>4. RequestAfter(r, call, d)
  BY <1>2, <1>3, ConfigureAfter
<1>5. d.path = r.path /\ d.query = IF call[1] = "queries" THEN MergeQueries(r.query, call[2]) ELSE r.query
  BY <1>4 DEF RequestAfter
<1>6. said \in Seq(QueryEntries)
  BY <1>2, <1>3, QueriesAppend, Zenon
<1>7. QueriesOf(requestLog') = IF call[1] = "queries" THEN said \o call[2] ELSE said
  BY <1>1, <1>2, <1>3, QueriesAppend, Zenon
<1>8. r.query = MergeQueries(<<>>, said) /\ IsPath(r.path) /\ client.base # None
  BY <1>2, <1>3 DEF UrlOK
<1>9. d.query = MergeQueries(<<>>, QueriesOf(requestLog'))
  <2>1. CASE call[1] = "queries"
    <3>1. PICK more, none : more = call[2] /\ more \in Seq(QueryEntries)
                            /\ none = <<>> /\ none \in Seq(QueryEntries)
      <4>1. <<>> \in Seq(QueryEntries)
        OBVIOUS
      <4> QED BY <2>1, <4>1, QuerySettersAre DEF QuerySetters
    <3>2. MergeQueries(MergeQueries(none, said), more) = MergeQueries(none, said \o more)
      BY <1>6, <3>1, MergedTwice
    <3> QED BY <1>5, <1>7, <1>8, <2>1, <3>1, <3>2, Zenon
  <2>2. CASE call[1] # "queries"
    BY <1>5, <1>7, <1>8, <2>2, Zenon
  <2> QED BY <2>1, <2>2
<1> QED BY <1>1, <1>3, <1>5, <1>8, <1>9 DEF UrlOK, Prepared, Answered

(* Nothing is prepared at first.                                           *)
LEMMA InitUrl == Init => UrlOK
BY DEF Init, UrlOK, Underway, Unstarted, Prepared, Answered

(* Every step keeps what the URL is built from.                            *)
LEMMA UrlStep ==
  ASSUME IInv, BuiltOK, UrlOK, [Next]_vars
  PROVE  UrlOK'
<1>0. program \in Programs /\ (sent # None => phase \in {"answered", "settle", "read", "done"})
  BY DEF IInv, TypeOK, SentOK
<1>1. CASE Register \/ MakeStrict \/ (\E how \in program.ways : Send(how)) \/ ApplyAuth
           \/ RunInitAll \/ RunOnRequest \/ Validate
           \/ (\E reply \in program.replies : Exchanged(reply))
           \/ RunOnResponse \/ Settle \/ Read \/ UNCHANGED vars
  <2>1. /\ UNCHANGED <<client, request, requestLog>>
        /\ Underway' => Underway
        /\ phase' = "start" => phase = "start"
        /\ phase' \in Prepared \cup Answered \/ sent' # None
             => phase \in Prepared \cup Answered \/ sent # None
    <3> USE DEF Underway, Unstarted, Prepared, Answered
    <3>1. CASE Register \/ MakeStrict
      BY <3>1 DEF Register, MakeStrict, calls, answer
    <3>2. ASSUME NEW how, Send(how) PROVE <2>1
      BY <3>2 DEF Send, Proceed, answer
    <3>3. CASE ApplyAuth \/ Validate
      BY <3>3 DEF ApplyAuth, Validate, Pass, Finish, Proceed, calls, answer
    <3>4. CASE RunInitAll \/ RunOnRequest
      BY <3>4 DEF RunInitAll, RunOnRequest, Chain, Finish, Proceed, calls, answer
    <3>5. ASSUME NEW reply, Exchanged(reply) PROVE <2>1
      BY <3>5 DEF Exchanged, Pass, Finish, Proceed, calls
    <3>6. CASE RunOnResponse \/ Settle \/ Read
      BY <3>6 DEF RunOnResponse, Settle, Read, Pass, Finish, Proceed, calls, answer
    <3>7. CASE UNCHANGED vars
      BY <3>7 DEF vars, calls, answer
    <3> QED BY <1>1, <3>1, <3>2, <3>3, <3>4, <3>5, <3>6, <3>7
  <2> QED BY <2>1, UrlKept
<1>2. ASSUME NEW call, Builder(call) PROVE UrlOK'
  <2>1. phase = "client" /\ phase' = "client" /\ sent' = sent
    BY <1>2 DEF Builder, answer
  <2> QED BY <1>0, <2>1 DEF UrlOK, Underway, Unstarted, Prepared, Answered
<1>3. CASE Build
  <2>1. /\ phase = "client" /\ sent' = sent /\ client' = client
        /\ phase' = "done" \/ (phase' = "start" /\ client.base # None)
    BY <1>3 DEF Build, Pass, Finish, Proceed, calls, answer
  <2> QED BY <1>0, <2>1 DEF UrlOK, Underway, Unstarted, Prepared, Answered
<1>4. ASSUME NEW start \in program.starts, Start(start[1], start[2]) PROVE UrlOK'
  <2>1. IsPath(start[2])
    BY <1>0, ProgramAssumption DEF WellTyped
  <2>2. /\ phase = "start" /\ phase' = "request" /\ UNCHANGED <<client, requestLog, sent>>
        /\ request' = ClientRequest(client, start[1], start[2])
    BY <1>4 DEF Start, Proceed, answer
  <2> QED BY <1>0, <2>1, <2>2, UrlStarted
<1>5. ASSUME NEW e \in program.endpoints, Call(e) PROVE UrlOK'
  <2>1. IsPath(e.path)
    BY <1>0, ProgramAssumption DEF WellTyped, IsEndpoint
  <2>2. /\ phase = "start" /\ phase' = "request" /\ UNCHANGED <<client, requestLog, sent>>
        /\ request' = ClientRequest(client, e.method, e.path)
    BY <1>5 DEF Call, Proceed, answer
  <2> QED BY <1>0, <2>1, <2>2, UrlStarted
<1>6. ASSUME NEW call \in program.requestCalls, Configure(call) PROVE UrlOK'
  <2>1. call \in RequestCalls /\ phase = "request"
    BY <1>0, <1>6 DEF RequestCalls, Configure
  <2> QED BY <1>0, <1>6, <2>1, UrlConfigured
<1>7. CASE PrepareUrl
  <2>1. /\ phase = "prepare" /\ sent' = sent /\ UNCHANGED <<client, request, requestLog>>
        /\ phase' = "done" \/ (phase' = "auth" /\ UrlError = "none")
    BY <1>7 DEF PrepareUrl, Pass, Finish, Proceed, calls, answer
  <2>2. UrlError = "none" => Built.error = "none"
    BY DEF UrlError
  <2> QED BY <1>0, <2>1, <2>2, UrlKept DEF Underway, Unstarted, Prepared, Answered
<1> QED BY <1>1, <1>2, <1>3, <1>4, <1>5, <1>6, <1>7 DEF Next

------------------------------------------------------------------------------
(* The URL that is sent.                                                   *)

(* The last call of a setter is a call of the log.                         *)
LEMMA LastCallIn ==
  ASSUME NEW T, NEW log \in Seq(T), NEW setter, LastCall(log, setter) # None
  PROVE  \E call \in T : call[1] = setter /\ LastCall(log, setter) = Some(call)
<1>1. PICK made, at : /\ at = {i \in DOMAIN log : log[i][1] \in {setter}} /\ made = Selected(log, at)
  OBVIOUS
<1>2. made = CallsOf(log, {setter})
  BY <1>1, Zenon DEF CallsOf
<1>3. made # <<>> /\ LastCall(log, setter) = Some(Last(made))
  BY <1>2, Zenon DEF LastCall
<1>4. made \in Seq(T)
  BY <1>1, SelectedType
<1>5. Len(made) \in DOMAIN made
  BY <1>3, <1>4
<1>6. \A j \in DOMAIN Selected(log, at) : \E i \in DOMAIN log : i \in at /\ Selected(log, at)[j] = log[i]
  BY SelectedElements
<1>7. PICK i \in DOMAIN log : i \in at /\ made[Len(made)] = log[i]
  BY <1>1, <1>5, <1>6, Zenon
<1>8. log[i] \in T /\ log[i][1] = setter
  BY <1>1, <1>7
<1>9. Last(made) = log[i]
  BY <1>7, Zenon DEF Last
<1> QED BY <1>3, <1>8, <1>9, Zenon

(* The base of a request is the one set last, by the request or else by    *)
(* the client.                                                             *)
LEMMA BaseIsMade ==
  ASSUME BuiltOK, UrlOK, Underway
  PROVE  Base = BaseMade /\ IsUrl(Base)
<1>1. /\ RequestOK /\ ClientOK /\ client.base # None
      /\ requestLog \in Seq(RequestCalls) /\ clientLog \in Seq(ClientCalls)
  BY DEF BuiltOK, LogsOK, Underway, UrlOK
<1>2. PICK asked, set : asked = LastCall(requestLog, "base_url") /\ set = LastCall(clientLog, "base_url")
  OBVIOUS
<1>3. request.base = Argument(asked, 2) /\ client.base = Argument(set, 2)
  BY <1>1, <1>2 DEF RequestOK, ClientOK
<1>4. Base = BaseMade
  BY <1>2, <1>3, Zenon DEF Base, BaseMade
<1>5. \A call : Some(call) # None /\ Some(call)[1] = call
  BY DEF Some, None
<1>6. CASE asked # None
  <2>1. PICK call \in RequestCalls : call[1] = "base_url" /\ asked = Some(call)
    BY <1>1, <1>2, <1>6, LastCallIn
  <2>2. IsUrl(call[2])
    BY <2>1, ProgramAssumption DEF RequestCalls, WellTyped, IsRequestCall
  <2>3. request.base = Some(call[2])
    BY <1>3, <1>5, <2>1, Zenon DEF Argument
  <2>4. Base = call[2]
    BY <1>5, <2>3, Zenon DEF Base, Or
  <2> QED BY <1>4, <2>2, <2>4
<1>7. CASE asked = None
  <2>1. request.base = None
    BY <1>3, <1>7, Zenon DEF Argument
  <2>2. set # None
    BY <1>1, <1>3, Zenon DEF Argument
  <2>3. PICK call \in ClientCalls : call[1] = "base_url" /\ set = Some(call)
    BY <1>1, <1>2, <2>2, LastCallIn
  <2>4. IsUrl(call[2])
    BY <2>3, ProgramAssumption DEF ClientCalls, WellTyped, IsClientCall
  <2>5. client.base = Some(call[2])
    BY <1>3, <1>5, <2>3, Zenon DEF Argument
  <2>6. Base = call[2]
    BY <1>5, <2>1, <2>5, Zenon DEF Base, Or
  <2> QED BY <1>4, <2>4, <2>6
<1> QED BY <1>6, <1>7

(* The pairs of the query replace those of the URL, if there are any.      *)
LEMMA QueryApplied ==
  ASSUME NEW url, DOMAIN url = DOMAIN Host(""), url.query = <<>>, NEW query
  PROVE  LET to == ApplyQuery(url, query)
         IN  to.host = url.host /\ to.path = url.path /\ to.query = PairsOf(query)
<1>1. DOMAIN url = {"host", "path", "query", "tail"}
  BY DEF Host
<1>2. CASE query = <<>>
  <2>1. ApplyQuery(url, query) = url
    BY <1>2, Zenon DEF ApplyQuery
  <2> QED BY <1>2, <2>1, NoPairs, Zenon
<1>3. CASE query # <<>>
  <2>1. PICK pairs, to : pairs = PairsOf(query) /\ to = ApplyQuery(url, query)
    OBVIOUS
  <2>2. to = [url EXCEPT !.query = pairs, !.tail = <<>>]
    BY <1>3, <2>1, Zenon DEF ApplyQuery
  <2> QED BY <1>1, <2>1, <2>2
<1> QED BY <1>2, <1>3

(* What is sent when nothing rewrites the URL.                             *)
LEMMA UrlSent ==
  ASSUME BuiltOK, WireOK, UrlOK, sent # None, CallsOf(EffectsMade, {"url"}) = <<>>
  PROVE  LET merged == MergeQueries(ParseQueryString(request.path.query), request.query)
         IN  sent[1].url = ApplyQuery(IF request.path.absolute
                                      THEN [Host(request.path.host) EXCEPT !.path = ParsePath(Placing)]
                                      ELSE JoinPath(Base, Placing), merged)
<1>1. WireIs(wire, TRUE, EffectsMade) /\ sent[1] = BuildHttpRequest
  BY DEF WireOK
<1>2. wire.url = Built.url
  BY <1>1 DEF WireIs
<1>3. sent[1].url = Built.url
  <2>1. BuildHttpRequest.url = wire.url
    BY DEF BuildHttpRequest
  <2> QED BY <1>1, <1>2, <2>1
<1>4. Built.error = "none"
  BY DEF UrlOK
<1>5. Missing(ParseMethodModifier(request.path).segs, request.params) = {} /\ Parses(request.path)
  BY <1>4, NothingMissing, HostParsed
<1>6. PICK merged, url, method, built :
        /\ merged = MergeQueries(ParseQueryString(request.path.query), request.query)
        /\ method = ParseMethodModifier(request.path).method
        /\ url = ApplyQuery(IF request.path.absolute
                            THEN [Host(request.path.host) EXCEPT !.path = ParsePath(Placing)]
                            ELSE JoinPath(Base, Placing), merged)
        /\ built = [error |-> "none", method |-> method, url |-> url]
  OBVIOUS
<1>7. Built = built
  BY <1>5, <1>6, Zenon DEF Built, BuildUrl, Placing
<1>8. built.url = url
  BY <1>6
<1> QED BY <1>3, <1>6, <1>7, <1>8, Zenon

(* Then the URL that is sent is the one the caller asked for.              *)
LEMMA UrlsFaithful == BuiltOK /\ WireOK /\ UrlOK => UrlFaithful
<1> SUFFICES ASSUME BuiltOK, WireOK, UrlOK,
                    sent # None, CallsOf(EffectsMade, {"url"}) = <<>>, BaseMade.query = <<>>, Dotless
             PROVE  LET url == sent[1].url
                    IN  /\ url.host = IF request.path.absolute THEN request.path.host ELSE BaseMade.host
                        /\ Filled(url.path) =
                             (IF request.path.absolute THEN <<>> ELSE Filled(BaseMade.path)) \o Template
                        /\ \A key \in {url.query[i][1] : i \in DOMAIN url.query}
                                        \cup {request.path.query[i][1] : i \in DOMAIN request.path.query} :
                             LET pairs == CallsOf(url.query, {key})
                             IN  [i \in DOMAIN pairs |-> pairs[i][2]] = QueryMade(key)
  BY DEF UrlFaithful
<1>1. /\ RequestOK /\ IsPath(request.path) /\ Built.error = "none" /\ Underway
      /\ request.query = MergeQueries(<<>>, QueriesOf(requestLog)) /\ requestLog \in Seq(RequestCalls)
  BY DEF BuiltOK, LogsOK, UrlOK, Underway
<1>2. Base = BaseMade /\ IsUrl(Base)
  BY <1>1, BaseIsMade
<1>3. Template = Filled(Placing)
  BY <1>1, TemplateMade
<1>4. PICK R : Placing \in Seq(R) /\ AllPlain(Placing)
  BY <1>1, PlacingPlain
<1>5. PICK merged, whole, url :
        /\ merged = MergeQueries(ParseQueryString(request.path.query), request.query)
        /\ whole = (IF request.path.absolute
                    THEN [Host(request.path.host) EXCEPT !.path = ParsePath(Placing)]
                    ELSE JoinPath(Base, Placing))
        /\ url = sent[1].url
  OBVIOUS
<1>6. url = ApplyQuery(whole, merged)
  BY <1>5, UrlSent, Zenon
<1>7. /\ DOMAIN whole = DOMAIN Host("") /\ whole.query = <<>>
      /\ whole.host = IF request.path.absolute THEN request.path.host ELSE BaseMade.host
      /\ Filled(whole.path) = (IF request.path.absolute THEN <<>> ELSE Filled(BaseMade.path)) \o Template
  <2>1. CASE request.path.absolute
    <3>1. PICK path, host : path = ParsePath(Placing) /\ host = request.path.host
      OBVIOUS
    <3>2. whole = [Host(host) EXCEPT !.path = path]
      BY <1>5, <2>1, <3>1, Zenon
    <3>3. DOMAIN whole = DOMAIN Host("") /\ whole.query = <<>> /\ whole.host = host /\ whole.path = path
      BY <3>2 DEF Host
    <3>4. Filled(path) = Template
      BY <1>3, <1>4, <3>1, FilledPath, Zenon
    <3>5. <<>> \o Template = Template
      <4>1. PICK t, V : t = Template /\ t \in Seq(V)
        BY <1>3, <1>4, FilledType
      <4> QED BY <4>1, NothingBefore
    <3> QED BY <2>1, <3>1, <3>3, <3>4, <3>5, Zenon
  <2>2. CASE ~request.path.absolute
    <3>1. whole = JoinPath(Base, Placing)
      BY <1>5, <2>2, Zenon
    <3>2. LET u == JoinPath(Base, Placing)
          IN  /\ DOMAIN u = DOMAIN Host("") /\ u.host = Base.host /\ u.query = <<>>
              /\ Filled(u.path) = Filled(Base.path) \o Filled(Placing)
      <4>1. Base.query = <<>>
        BY <1>2
      <4> QED BY <1>2, <1>4, <4>1, JoinedUrl
    <3> QED BY <1>2, <1>3, <2>2, <3>1, <3>2, Zenon
  <2> QED BY <2>1, <2>2
<1>8. url.host = whole.host /\ url.path = whole.path /\ url.query = PairsOf(merged)
  <2>1. LET to == ApplyQuery(whole, merged)
        IN  to.host = whole.host /\ to.path = whole.path /\ to.query = PairsOf(merged)
    BY <1>7, QueryApplied
  <2> QED BY <1>6, <2>1, Zenon
<1>9. ASSUME NEW key
      PROVE  LET pairs == CallsOf(url.query, {key})
             IN  [i \in DOMAIN pairs |-> pairs[i][2]] = QueryMade(key)
  <2>1. PICK pairs, S, said, made :
          /\ pairs = request.path.query /\ S = ToSet(pairs) /\ said = QueriesOf(requestLog)
          /\ made = Selected(said, {i \in DOMAIN said : said[i].key = key})
    OBVIOUS
  <2>2. pairs \in Seq(S)
    BY <1>1, <2>1 DEF IsPath
  <2>3. said \in Seq(QueryEntries)
    <3>1. \A call \in RequestCalls : QueriesOf(requestLog) \in Seq(QueryEntries)
      BY <1>1, QueriesAppend
    <3>2. CASE RequestCalls = {}
      <4>1. requestLog = <<>>
        BY <1>1, <3>2
      <4>2. <<>> \in Seq(QueryEntries)
        OBVIOUS
      <4> QED BY <2>1, <4>1, <4>2, NoQueries, Zenon
    <3> QED BY <2>1, <3>1, <3>2
  <2>4. ValuesOf(PairsOf(MergeQueries(ParseQueryString(pairs), MergeQueries(<<>>, said))), key) =
          IF made # <<>> THEN Last(made).values ELSE ValuesOf(pairs, key)
    BY <2>1, <2>2, <2>3, QueryEntriesListed, BuiltQuery
  <2>5. ValuesOf(url.query, key) = IF made # <<>> THEN Last(made).values ELSE ValuesOf(pairs, key)
    BY <1>1, <1>5, <1>8, <2>1, <2>4, Zenon
  <2>6. QueryMade(key) = IF made # <<>> THEN Last(made).values ELSE ValuesOf(pairs, key)
    BY <2>1, Zenon DEF QueryMade, QueriesOf, Seconds, ValuesOf
  <2> QED BY <2>5, <2>6, Zenon DEF ValuesOf, Seconds
<1> QED BY <1>5, <1>7, <1>8, <1>9, Zenon

(* What a strict registry sees to, when what is written is sent.           *)
LEMMA RegistryHonoured == IInv /\ LastWriteSent => RegisteredValidated
<1> SUFFICES ASSUME IInv, LastWriteSent, sent # None, client.registry, strict
             PROVE  RegisteredValidated
  BY DEF RegisteredValidated
<1>1. RouteOK /\ Accepted /\ (phase = "read" => ResponseAccepted)
  BY DEF IInv, PhaseOK
<1>2. sent[1].method = wire.method /\ sent[1].body \in {Multipart, RequestBody}
  BY DEF IInv, SentOK
<1>3. RouteRegistered(MethodOf(request))
  BY <1>1 DEF RouteOK, RouteRegistered
<1>4. CallsOf(EffectsMade, {"method"}) = <<>> => RouteRegistered(sent[1].method)
  <2>1. PICK methods, method : methods = CallsOf(EffectsMade, {"method"}) /\ method = sent[1].method
    OBVIOUS
  <2>2. method = IF methods = <<>> THEN MethodOf(request) ELSE Last(methods)[2]
    BY <2>1, Zenon DEF LastWriteSent
  <2> QED BY <1>3, <2>1, <2>2
<1>5. ASSUME ~Disabled, NEW i \in DOMAIN entries,
             IsFirst(i, RouteKey(request.path, sent[1].method))
      PROVE  /\ sent[1].body # Multipart => AcceptsRequest(entries[i], sent[1].body)
             /\ AcceptsParams(entries[i], request.params)
             /\ AcceptsQuery(entries[i], request.query)
             /\ phase = "read" => AcceptsResponse(entries[i], response)
  <2>1. IsFirst(i, RouteKey(request.path, wire.method))
    BY <1>2, <1>5
  <2>2. /\ AcceptsRequest(entries[i], RequestBody)
        /\ AcceptsParams(entries[i], request.params)
        /\ AcceptsQuery(entries[i], request.query)
    BY <1>1, <1>5, <2>1 DEF Accepted
  <2>3. phase = "read" => AcceptsResponse(entries[i], response)
    BY <1>1, <1>5, <2>1 DEF ResponseAccepted
  <2> QED BY <1>2, <2>2, <2>3
<1> QED BY <1>3, <1>4, <1>5 DEF RegisteredValidated

------------------------------------------------------------------------------
(* The theorems.                                                           *)

(* The control state keeps its types and the index of the registry leads   *)
(* every route to an entry of that route, for every program.               *)
THEOREM TypeCorrect == Spec => []TypeOK
<1>1. IInv => TypeOK
  BY DEF IInv
<1> QED BY <1>1, Invariant, PTL

(* What the builders keep, what is prepared of it, what is read, what is   *)
(* known of a typed endpoint and what the URL is built from, next to IInv. *)
Whole == IInv /\ BuiltOK /\ WireOK /\ ReadOK /\ CompleteOK /\ UrlOK

(* Each part is kept by a step with the help of those before it.           *)
LEMMA WholeInvariant == Spec => []Whole
<1>1. Init => Whole
  BY InitInv, InitBuilt, InitWire, InitRead, InitComplete, InitUrl DEF Whole
<1>2. Whole /\ [Next]_vars => Whole'
  <2> SUFFICES ASSUME Whole, [Next]_vars PROVE Whole'
    OBVIOUS
  <2>1. TypeOK
    BY DEF Whole, IInv
  <2>2. IInv' /\ BuiltOK' /\ WireOK'
    BY <2>1, InvariantStep, BuiltStep, WireStep DEF Whole
  <2>3. ReadOK' /\ CompleteOK' /\ UrlOK'
    BY <2>1, ReadStep, CompleteStep, UrlStep DEF Whole
  <2> QED BY <2>2, <2>3 DEF Whole
<1> QED BY <1>1, <1>2, PTL DEF Spec

(* For every plugin and hook: under a strict registry the route the caller *)
(* asks for is registered, that which is sent too unless a plugin or a     *)
(* hook changes the method, and the first entry of the route that is sent, *)
(* if it has one, accepts the request and the response that is read        *)
(* (prepare_execution, schema.rs).                                         *)
THEOREM RegisteredIsValidated == Spec => []RegisteredValidated
<1>1. Whole => RegisteredValidated
  BY WritesAreSent, RegistryHonoured DEF Whole
<1> QED BY <1>1, WholeInvariant, PTL

(* Whatever the order of the calls: the method, the headers, the body, the *)
(* settings and the transport of what is sent are those written last, by   *)
(* the client's defaults, the request's setters, the credentials, the      *)
(* plugins, the client's hooks or the plugins' hooks (ClientBuilder,       *)
(* RequestBuilder, prepare_execution).                                     *)
THEOREM LastWritesAreSent == Spec => []LastWriteSent
<1>1. Whole => LastWriteSent
  BY WritesAreSent DEF Whole
<1> QED BY <1>1, WholeInvariant, PTL

(* Whatever parsers, shapes and rules there are and whatever the hooks do  *)
(* to an answer: a checked read yields a value only from a 2xx answer, the *)
(* one the right parser made, of the right shape and, unless the request   *)
(* waives it, valid (response.rs, json_parser.rs, validate_json.rs).       *)
THEOREM OnlyCheckedIsRead == Spec => []ReadsChecked
<1>1. Whole => ReadsChecked
  BY ReadsAreChecked DEF Whole
<1> QED BY <1>1, WholeInvariant, PTL

(* Whatever endpoints there are: one whose parameters were derived against *)
(* its own path is never refused for a missing parameter, and a POST with  *)
(* a typed body is never sent without one (endpoint.rs, derive macros).    *)
THEOREM TypedIsComplete == Spec => []EndpointComplete
<1>1. Whole => EndpointComplete
  BY EndpointsAreComplete DEF Whole
<1> QED BY <1>1, WholeInvariant, PTL

(* Whatever templates, bases, parameters and queries there are and in      *)
(* whatever order they are given: a URL that nothing rewrites goes to the  *)
(* host and the path of the base set last, behind them the template with   *)
(* the values given last, one segment each, and with the values given last *)
(* of every query key (build_url, url_build.rs).                           *)
THEOREM UrlsAreFaithful == Spec => []UrlFaithful
<1>1. Whole => UrlFaithful
  BY UrlsFaithful DEF Whole
<1> QED BY <1>1, WholeInvariant, PTL

=============================================================================
