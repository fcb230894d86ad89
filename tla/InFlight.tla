------------------------------- MODULE InFlight -------------------------------
(***************************************************************************)
(* Requests of one client sharing max_in_flight: a tokio semaphore whose   *)
(* permit a request acquires at the end of prepare_execution's hook phase  *)
(* and keeps, inside PreparedExecution, until run_http_loop returns or its *)
(* future is dropped.                                                      *)
(*                                                                         *)
(* A member of Requests is a slot that issues one request after the other. *)
(* A hook is user code and may itself send a request on the same client    *)
(* and await it; Asks says which slots do so, from which hooks.  What      *)
(* happens inside one call, and what decides on a retry, is the subject of *)
(* RequestPipeline; here a call comes back and the loop settles, retries   *)
(* or hands a stream to its caller.                                        *)
(***************************************************************************)
EXTENDS Integers, Sequences, FiniteSets

CONSTANTS
  Requests,    (* the slots                                                *)
  Permits,     (* max_in_flight                                            *)
  MaxRetries,  (* the retry budget of every request                        *)
  Asks         (* <<r, hooks, c>>: those hooks of r may send request c     *)

Phases == {"idle",     (* no request                                       *)
           "preparing",(* before the permit: auth, plugins, on_request     *)
           "asking",   (* the same, an on_request hook awaits its request  *)
           "waiting",  (* in acquire_owned                                 *)
           "admitted", (* the permit is held, the loop has not begun       *)
           "calling",  (* in the backend                                   *)
           "response", (* on_response and the other hooks of the loop      *)
           "consulting",(* the same, a hook awaits its request             *)
           "backoff",  (* run_retry_backoff sleeps                         *)
           "body"}     (* send_stream has returned, the caller reads       *)

(* The phases in which the request's PreparedExecution is alive.           *)
Holding == {"admitted", "calling", "response", "consulting", "backoff"}

Children == {ask[3] : ask \in Asks}
ChildrenOf(r) == {ask[3] : ask \in {a \in Asks : a[1] = r}}

ASSUME RequestsFinite == IsFiniteSet(Requests)
ASSUME PermitsAssumption == Permits \in Nat
ASSUME MaxRetriesAssumption == MaxRetries \in Nat
ASSUME AsksAssumption ==
  /\ Asks \subseteq Requests \X {"preparing", "response"} \X Requests
  /\ \A a, b \in Asks : a[3] = b[3] => a = b     (* one parent each        *)
  /\ \A a \in Asks : a[1] \notin Children        (* no deeper nesting      *)

VARIABLES
  pc,         (* the phase of each slot                                    *)
  tries,      (* calls the slot's current request has made                 *)
  owners,     (* slots whose PreparedExecution holds a permit              *)
  available,  (* free permits of the semaphore                             *)
  queue,      (* slots waiting in the semaphore, first come first          *)
  granted     (* waiters the semaphore gave a permit, not yet polled       *)

semaphore == <<owners, available, queue, granted>>
vars == <<pc, tries, semaphore>>

Init ==
  /\ pc = [r \in Requests |-> "idle"]
  /\ tries = [r \in Requests |-> 0]
  /\ owners = {} /\ available = Permits /\ queue = <<>> /\ granted = {}

Goto(r, phase) == pc' = [pc EXCEPT ![r] = phase]

Answered(r) == \A c \in ChildrenOf(r) : pc[c] = "idle"

-----------------------------------------------------------------------------
(* tokio::sync::Semaphore: a permit given back goes to the first waiter,   *)
(* so that no newcomer can take it; without waiters it becomes available.  *)

(* Faulty variant: the permit returns to the pool, the waiter polls later. *)
GiveBackToPool(r) ==
  /\ owners' = owners \ {r}
  /\ granted' = granted \ {r}
  /\ available' = available + 1
  /\ UNCHANGED queue

GiveBack(r) ==
  /\ owners' = owners \ {r}
  /\ IF queue = <<>>
     THEN /\ granted' = granted \ {r}
          /\ available' = available + 1
          /\ UNCHANGED queue
     ELSE /\ granted' = (granted \ {r}) \cup {Head(queue)}
          /\ queue' = Tail(queue)
          /\ UNCHANGED available

(* The slot is done with its permit.                                       *)
Release(r, phase) == GiveBack(r) /\ Goto(r, phase)

-----------------------------------------------------------------------------
(* prepare_execution.                                                      *)

(* A request is sent: by anybody, unless the slot belongs to a hook.       *)
Send(r) ==
  /\ r \notin Children
  /\ pc[r] = "idle"
  /\ Goto(r, "preparing")
  /\ tries' = [tries EXCEPT ![r] = 0]
  /\ UNCHANGED semaphore

(* Faulty variant: the on_request hooks run once the permit is there.      *)
AskUnderPermit(r) ==
  \E c \in ChildrenOf(r) :
    /\ pc[r] \in {"admitted", "response"}
    /\ pc' = [pc EXCEPT ![r] = "consulting", ![c] = "preparing"]
    /\ tries' = [tries EXCEPT ![c] = 0]
    /\ UNCHANGED semaphore

(* A hook of r sends a request and awaits it.                              *)
Ask(r) ==
  \E c \in ChildrenOf(r) :
    /\ <<r, pc[r], c>> \in Asks
    /\ pc[c] = "idle"
    /\ pc' = [pc EXCEPT ![r] = IF @ = "preparing" THEN "asking" ELSE "consulting",
                        ![c] = "preparing"]
    /\ tries' = [tries EXCEPT ![c] = 0]
    /\ UNCHANGED semaphore

Prepared(r) ==
  \/ pc[r] = "preparing"
  \/ pc[r] = "asking" /\ Answered(r)

(* build_url, ensure_route, auth, a plugin or an on_request hook fails.    *)
PrepareFails(r) ==
  /\ Prepared(r)
  /\ Goto(r, "idle")
  /\ UNCHANGED <<tries, semaphore>>

(* Faulty variant: a newcomer does not look at the permits left.           *)
AcquireUnchecked(r) ==
  /\ Prepared(r)
  /\ owners' = owners \cup {r}
  /\ Goto(r, "admitted")
  /\ available' = available - 1
  /\ UNCHANGED <<tries, queue, granted>>

(* The first poll of acquire_owned.                                        *)
Acquire(r) ==
  /\ Prepared(r)
  /\ IF available > 0
     THEN /\ available' = available - 1
          /\ owners' = owners \cup {r}
          /\ Goto(r, "admitted")
          /\ UNCHANGED <<queue, granted>>
     ELSE /\ queue' = Append(queue, r)
          /\ Goto(r, "waiting")
          /\ UNCHANGED <<owners, available, granted>>
  /\ UNCHANGED tries

(* The poll that finds the permit.                                         *)
Admit(r) ==
  /\ pc[r] = "waiting"
  /\ r \in granted
  /\ granted' = granted \ {r}
  /\ owners' = owners \cup {r}
  /\ Goto(r, "admitted")
  /\ UNCHANGED <<tries, available, queue>>

(* A strict schema registry rejects the request: the permit is a local of  *)
(* prepare_execution and goes with it.                                     *)
Reject(r) ==
  /\ pc[r] = "admitted"
  /\ Release(r, "idle")
  /\ UNCHANGED tries

-----------------------------------------------------------------------------
(* run_http_loop.                                                          *)

Call(r) ==
  /\ \/ pc[r] = "admitted"
     \/ pc[r] = "backoff"
  /\ Goto(r, "calling")
  /\ tries' = [tries EXCEPT ![r] = @ + 1]
  /\ UNCHANGED semaphore

(* The backend answers or fails.                                           *)
CallReturns(r) ==
  /\ pc[r] = "calling"
  /\ Goto(r, "response")
  /\ UNCHANGED <<tries, semaphore>>

HooksDone(r) ==
  \/ pc[r] = "response"
  \/ pc[r] = "consulting" /\ Answered(r)

(* The permit is kept while the loop sleeps.                               *)
Retry(r) ==
  /\ HooksDone(r)
  /\ tries[r] <= MaxRetries
  /\ Goto(r, "backoff")
  /\ UNCHANGED <<tries, semaphore>>

(* The loop returns: an answer, an error, or a stream whose body the       *)
(* caller reads without a permit.                                          *)
Settle(r) ==
  /\ HooksDone(r)
  /\ \E phase \in {"idle", "body"} : Release(r, phase)
  /\ UNCHANGED tries

(* A cancelled sleep, a replay that is refused.                            *)
AbandonRetry(r) ==
  /\ pc[r] = "backoff"
  /\ Release(r, "idle")
  /\ UNCHANGED tries

CloseBody(r) ==
  /\ pc[r] = "body"
  /\ Goto(r, "idle")
  /\ UNCHANGED <<tries, semaphore>>

-----------------------------------------------------------------------------
(* The caller, or the hook that sent it, drops the request's future at one *)
(* of its awaits.  A request sent by a hook is dropped before the request  *)
(* the hook belongs to.                                                    *)

DropUnpermitted(r) ==
  /\ pc[r] \in {"preparing", "asking"}
  /\ Answered(r)
  /\ Goto(r, "idle")
  /\ UNCHANGED <<tries, semaphore>>

(* Faulty variant: a permit granted to a dropped waiter is forgotten.      *)
DropWaitingLosingPermit(r) ==
  /\ pc[r] = "waiting"
  /\ Goto(r, "idle")
  /\ queue' = SelectSeq(queue, LAMBDA q : q # r)
  /\ granted' = granted \ {r}
  /\ UNCHANGED <<tries, owners, available>>

(* Acquire::drop: a waiter leaves the queue; if it already has a permit,   *)
(* the permit goes on to the next.                                         *)
DropWaiting(r) ==
  /\ pc[r] = "waiting"
  /\ IF r \in granted
     THEN Release(r, "idle")
     ELSE /\ \E i \in 1..Len(queue) :
               /\ queue[i] = r
               /\ queue' = SubSeq(queue, 1, i - 1) \o SubSeq(queue, i + 1, Len(queue))
          /\ Goto(r, "idle")
          /\ UNCHANGED <<owners, available, granted>>
  /\ UNCHANGED tries

DropPermitted(r) ==
  /\ pc[r] \in {"calling", "response", "consulting", "backoff"}
  /\ Answered(r)
  /\ Release(r, "idle")
  /\ UNCHANGED tries

-----------------------------------------------------------------------------
(* Steps the runtime takes once their guard holds.  Every call returns: a  *)
(* timeout is configured (RequestPipeline, TimedRequestsEnd).              *)
TaskStep(r) ==
  \/ PrepareFails(r) \/ Acquire(r) \/ Admit(r) \/ Reject(r)
  \/ Call(r) \/ CallReturns(r) \/ Retry(r) \/ Settle(r) \/ AbandonRetry(r)

(* Steps somebody may take at any time, or never.                          *)
UserStep(r) ==
  \/ Send(r) \/ Ask(r) \/ CloseBody(r)
  \/ DropUnpermitted(r) \/ DropWaiting(r) \/ DropPermitted(r)

Next == \E r \in Requests : TaskStep(r) \/ UserStep(r)

Spec == Init /\ [][Next]_vars

(* A hook that awaits a stream's body reads it to its end.                 *)
Fairness ==
  \A r \in Requests :
    WF_vars(TaskStep(r)) /\ (r \in Children => WF_vars(CloseBody(r)))

FairSpec == Spec /\ Fairness

-----------------------------------------------------------------------------
Waiting == {queue[i] : i \in 1..Len(queue)}

(* The variables have their types.                                         *)
TypeOK ==
  /\ pc \in [Requests -> Phases]
  /\ tries \in [Requests -> Nat]
  /\ owners \subseteq Requests /\ granted \subseteq Requests
  /\ available \in Nat
  /\ queue \in Seq(Requests)

PermitsAddUp ==
  /\ owners \cap granted = {}
  /\ available + Cardinality(owners \cup granted) = Permits

(* However requests end or are dropped, no permit is lost and none is made *)
(* up: each is free, on its way to one waiter, or held by one request; and *)
(* every request between admission and the end of the loop holds one, also *)
(* while it sleeps between retries, so that at most Permits are there.     *)
PermitsConserved ==
  /\ PermitsAddUp
  /\ \A r \in Requests : pc[r] \in Holding => r \in owners

(* A request waits only while every permit is in use, and is in the queue  *)
(* exactly once until it is given one.                                     *)
NoneIdleWhileQueued ==
  /\ queue # <<>> => available = 0
  /\ \A i, j \in 1..Len(queue) : queue[i] = queue[j] => i = j
  /\ \A r \in Requests : pc[r] = "waiting" <=> (r \in granted \/ r \in Waiting)

(* Seen from outside the semaphore is a room with a line before it: a      *)
(* place on its way to a waiter that was not polled yet is taken, and      *)
(* polls, retries and sleeps between them change nothing.                  *)
Room == INSTANCE Admission WITH
  Customers <- Requests,
  Limit     <- Permits,
  served    <- owners \cup granted,
  line      <- queue

(* The semaphore keeps what Admission promises: no more than Permits are   *)
(* served, nobody stands in line while there is room, and a place given    *)
(* back, also by a dropped future, goes to the first in line at once.      *)
KeepsRoom == Room!AdmissionSpec

(* Every request gets its permit and ends, although the others start new   *)
(* requests all the time, and although an on_request hook awaits a request *)
(* that needs a permit of the same client; with requests sent from         *)
(* response hooks this needs more permits than slots that send them.       *)
EveryRequestEnds ==
  \A r \in Requests : pc[r] # "idle" ~> pc[r] \in {"idle", "body"}

=============================================================================
