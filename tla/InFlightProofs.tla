---------------------------- MODULE InFlightProofs ----------------------------
(***************************************************************************)
(* Proofs about InFlight for every finite set of slots, every limit (zero  *)
(* included) and every nesting of requests.                                *)
(***************************************************************************)
EXTENDS InFlight, FiniteSetTheorems, SequenceTheorems, TLAPS

(* A permit is owned exactly in the phases that hold the PreparedExecution,*)
(* a granted waiter has left the queue.                                    *)
OwnersHold == \A r \in Requests : r \in owners <=> pc[r] \in Holding

GrantedLeft == granted \cap Waiting = {}

IInv ==
  /\ TypeOK
  /\ OwnersHold
  /\ GrantedLeft
  /\ NoneIdleWhileQueued
  /\ PermitsAddUp

-----------------------------------------------------------------------------
(* What is before and what is after position i of s.                       *)
Parts(S, s, i, before, after) ==
  /\ before \in Seq(S)
  /\ Len(before) = i - 1
  /\ \A j \in 1..(i - 1) : before[j] = s[j]
  /\ after \in Seq(S)
  /\ Len(after) = Len(s) - i
  /\ \A j \in 1..(Len(s) - i) : after[j] = s[i + j]

(* t is s without its element at i.                                        *)
Closed(S, s, i, t) ==
  /\ t \in Seq(S)
  /\ Len(t) = Len(s) - 1
  /\ \A j \in 1..(Len(s) - 1) : t[j] = IF j < i THEN s[j] ELSE s[j + 1]

(* Putting the two parts together closes the gap.                          *)
LEMMA PartsClose ==
  ASSUME NEW S, NEW s \in Seq(S), NEW i \in 1..Len(s), NEW before, NEW after,
         Parts(S, s, i, before, after)
  PROVE  Closed(S, s, i, before \o after)
<1> USE DEF Parts
<1>1. before \o after \in Seq(S)
  OBVIOUS
<1>2. Len(before \o after) = Len(before) + Len(after)
  BY ConcatProperties, Zenon
<1>3. Len(before) + Len(after) = Len(s) - 1
  OBVIOUS
<1>4. ASSUME NEW j \in 1..(Len(s) - 1)
      PROVE  (before \o after)[j] = IF j < i THEN s[j] ELSE s[j + 1]
  <2>1. (before \o after)[j] = IF j <= Len(before) THEN before[j]
                                                   ELSE after[j - Len(before)]
    BY <1>3, ConcatProperties
  <2>2. CASE j < i
    BY <2>1, <2>2
  <2>3. CASE ~(j < i)
    <3>1. j - Len(before) \in 1..(Len(s) - i) /\ i + (j - Len(before)) = j + 1
      BY <2>3
    <3>2. (before \o after)[j] = after[j - Len(before)]
      BY <2>1, <2>3
    <3>3. after[j - Len(before)] = s[j + 1]
      BY <3>1
    <3> QED
      BY <2>3, <3>2, <3>3
  <2> QED
    BY <2>2, <2>3
<1> QED
  BY <1>1, <1>2, <1>3, <1>4 DEF Closed

(* The parts DropWaiting puts together.                                    *)
LEMMA SubSeqParts ==
  ASSUME NEW S, NEW s \in Seq(S), NEW i \in 1..Len(s)
  PROVE  Parts(S, s, i, SubSeq(s, 1, i - 1), SubSeq(s, i + 1, Len(s)))
BY DEF Parts

(* Taking the element at i out of a sequence.                              *)
LEMMA RemovedAt ==
  ASSUME NEW S, NEW s \in Seq(S), NEW i \in 1..Len(s)
  PROVE  Closed(S, s, i, SubSeq(s, 1, i - 1) \o SubSeq(s, i + 1, Len(s)))
BY PartsClose, SubSeqParts, Zenon

(* The sets of permit holders are finite.                                  *)
LEMMA HoldersFinite ==
  ASSUME TypeOK
  PROVE  IsFiniteSet(owners \cup granted)
BY RequestsFinite, FS_Subset DEF TypeOK

(* What tokio's semaphore does with a permit that is given back keeps the  *)
(* books, whoever returns it.                                              *)
LEMMA GiveBackStep ==
  ASSUME IInv, NEW r \in Requests, NEW phase \in {"idle", "body"},
         r \in owners \/ r \in granted,
         Release(r, phase), UNCHANGED tries
  PROVE  IInv'
<1> USE DEF IInv
<1>1. TypeOK'
  <2>1. CASE queue = <<>>
    BY <2>1 DEF TypeOK, Release, GiveBack, Goto, Phases
  <2>2. CASE queue # <<>>
    <3>1. Head(queue) \in Requests /\ Tail(queue) \in Seq(Requests)
      BY <2>2 DEF TypeOK
    <3> QED
      BY <2>2, <3>1 DEF TypeOK, Release, GiveBack, Goto, Phases
  <2> QED
    BY <2>1, <2>2
<1>2. OwnersHold'
  BY DEF OwnersHold, TypeOK, Release, GiveBack, Goto, Holding
<1>3. r \notin Waiting /\ (r \in granted => r \notin owners)
  BY DEF OwnersHold, GrantedLeft, NoneIdleWhileQueued, PermitsAddUp,
         Holding, Waiting, TypeOK
<1>4. CASE queue = <<>>
  <2>1. UNCHANGED queue /\ granted' = granted \ {r} /\ owners' = owners \ {r}
        /\ available' = available + 1
    BY <1>4 DEF Release, GiveBack
  <2>2. GrantedLeft' /\ NoneIdleWhileQueued'
    BY <1>4, <2>1 DEF GrantedLeft, NoneIdleWhileQueued, Waiting, Release, Goto, TypeOK
  <2>3. owners' \cup granted' = (owners \cup granted) \ {r}
    BY <2>1
  <2>4. Cardinality(owners' \cup granted') = Cardinality(owners \cup granted) - 1
    BY <2>3, HoldersFinite, FS_RemoveElement
  <2>5. PermitsAddUp'
    BY <2>1, <2>4, HoldersFinite, FS_CardinalityType, PermitsAssumption
       DEF PermitsAddUp, TypeOK
  <2> QED
    BY <1>1, <1>2, <2>2, <2>5
<1>5. CASE queue # <<>>
  <2> DEFINE h == Head(queue)
  <2>1. /\ queue' = Tail(queue) /\ granted' = (granted \ {r}) \cup {h}
        /\ owners' = owners \ {r} /\ available' = available
    BY <1>5 DEF Release, GiveBack
  <2>2. /\ Len(queue) > 0 /\ h = queue[1] /\ h \in Waiting
        /\ Len(queue') = Len(queue) - 1
        /\ \A i \in 1..Len(queue') : i + 1 \in 1..Len(queue) /\ queue'[i] = queue[i + 1]
    BY <1>5, <2>1 DEF Waiting, TypeOK
  <2>3. h \in Requests /\ h # r /\ h \notin granted /\ h \notin owners
    <3>1. h \in Requests
      BY <1>5 DEF TypeOK
    <3>2. pc[h] = "waiting"
      BY <2>2, <3>1 DEF NoneIdleWhileQueued
    <3> QED
      BY <1>3, <2>2, <3>1, <3>2 DEF OwnersHold, GrantedLeft, Holding
  <2>4. Waiting' = Waiting \ {h}
    <3>1. ASSUME NEW q \in Waiting' PROVE q \in Waiting /\ q # h
      <4>1. PICK i \in 1..Len(queue') : q = queue'[i]
        BY <3>1 DEF Waiting
      <4>2. i + 1 \in 1..Len(queue) /\ q = queue[i + 1]
        BY <2>2, <4>1
      <4>3. q # h
        BY <2>2, <4>2, 1 \in 1..Len(queue), i + 1 # 1 DEF NoneIdleWhileQueued, TypeOK
      <4> QED
        BY <4>2, <4>3 DEF Waiting
    <3>2. ASSUME NEW q \in Waiting, q # h PROVE q \in Waiting'
      <4>1. PICK i \in 1..Len(queue) : q = queue[i]
        BY DEF Waiting
      <4>2. i # 1 /\ i \in Nat
        BY <2>2, <3>2, <4>1
      <4>3. i - 1 \in 1..Len(queue') /\ queue'[i - 1] = queue[i]
        BY <2>2, <4>1, <4>2 DEF TypeOK
      <4> QED
        BY <4>1, <4>3 DEF Waiting
    <3> QED
      BY <3>1, <3>2, <2>2
  <2>5. GrantedLeft'
    BY <1>3, <2>1, <2>4 DEF GrantedLeft
  <2>6. queue' # <<>> => available' = 0
    BY <1>5, <2>1 DEF NoneIdleWhileQueued
  <2>7. \A i, j \in 1..Len(queue') : queue'[i] = queue'[j] => i = j
    BY <2>2 DEF NoneIdleWhileQueued, TypeOK
  <2>8. \A q \in Requests : pc'[q] = "waiting" <=> (q \in granted' \/ q \in Waiting')
    BY <1>3, <2>1, <2>2, <2>3, <2>4 DEF NoneIdleWhileQueued, Release, Goto, TypeOK
  <2>9. PermitsAddUp'
    <3>1. owners' \cap granted' = {}
      BY <2>1, <2>3 DEF PermitsAddUp
    <3>2. owners' \cup granted' = ((owners \cup granted) \ {r}) \cup {h}
      BY <2>1, <2>3
    <3>3. IsFiniteSet((owners \cup granted) \ {r})
      BY HoldersFinite, FS_RemoveElement
    <3>4. Cardinality((owners \cup granted) \ {r}) = Cardinality(owners \cup granted) - 1
      BY HoldersFinite, FS_RemoveElement
    <3>5. h \notin (owners \cup granted) \ {r}
      BY <2>3
    <3>6. Cardinality(owners' \cup granted') = Cardinality((owners \cup granted) \ {r}) + 1
      BY <3>2, <3>3, <3>5, FS_AddElement
    <3> QED
      BY <2>1, <3>1, <3>4, <3>6, HoldersFinite, FS_CardinalityType DEF PermitsAddUp
  <2> QED
    BY <1>1, <1>2, <2>5, <2>6, <2>7, <2>8, <2>9 DEF NoneIdleWhileQueued
<1> QED
  BY <1>4, <1>5

(* A step that leaves the semaphore alone and moves no slot into or out of *)
(* the holding phases or the queue keeps the books.                        *)
LEMMA QuietStep ==
  ASSUME IInv, UNCHANGED semaphore,
         pc' \in [Requests -> Phases], tries' \in [Requests -> Nat],
         \A r \in Requests : /\ pc'[r] \in Holding <=> pc[r] \in Holding
                             /\ pc'[r] = "waiting" <=> pc[r] = "waiting"
  PROVE  IInv'
BY DEF IInv, TypeOK, OwnersHold, GrantedLeft, NoneIdleWhileQueued,
       PermitsAddUp, Waiting, semaphore

-----------------------------------------------------------------------------
LEMMA InvariantInit == Init => IInv
<1> SUFFICES ASSUME Init PROVE IInv
  OBVIOUS
<1>1. TypeOK
  BY PermitsAssumption DEF Init, TypeOK, Phases
<1>2. Waiting = {}
  BY DEF Init, Waiting
<1>3. OwnersHold /\ GrantedLeft /\ NoneIdleWhileQueued
  BY <1>2 DEF Init, OwnersHold, GrantedLeft, NoneIdleWhileQueued, Holding
<1>4. PermitsAddUp
  <2>1. owners \cup granted = {}
    BY DEF Init
  <2> QED
    BY <2>1, FS_EmptySet, PermitsAssumption DEF Init, PermitsAddUp
<1> QED
  BY <1>1, <1>3, <1>4 DEF IInv

LEMMA AcquireStep ==
  ASSUME IInv, NEW r \in Requests, Acquire(r)
  PROVE  IInv'
<1> USE DEF IInv
<1>1. pc[r] \in {"preparing", "asking"} /\ UNCHANGED tries
  BY DEF Acquire, Prepared
<1>2. r \notin owners /\ r \notin granted /\ r \notin Waiting
  BY <1>1 DEF OwnersHold, NoneIdleWhileQueued, Holding
<1>3. CASE available > 0
  <2>1. /\ available' = available - 1 /\ owners' = owners \cup {r}
        /\ pc' = [pc EXCEPT ![r] = "admitted"] /\ UNCHANGED <<queue, granted>>
    BY <1>3 DEF Acquire, Goto
  <2>2. TypeOK'
    BY <1>1, <1>3, <2>1 DEF TypeOK, Phases
  <2>3. OwnersHold'
    BY <2>1 DEF OwnersHold, TypeOK, Holding
  <2>4. GrantedLeft' /\ NoneIdleWhileQueued'
    BY <1>1, <1>2, <1>3, <2>1 DEF GrantedLeft, NoneIdleWhileQueued, Waiting, TypeOK
  <2>5. PermitsAddUp'
    <3>1. owners' \cup granted' = (owners \cup granted) \cup {r}
      BY <2>1
    <3>2. Cardinality(owners' \cup granted') = Cardinality(owners \cup granted) + 1
      BY <1>2, <3>1, HoldersFinite, FS_AddElement
    <3> QED
      BY <1>2, <2>1, <3>2, HoldersFinite, FS_CardinalityType
         DEF PermitsAddUp, TypeOK
  <2> QED
    BY <2>2, <2>3, <2>4, <2>5
<1>4. CASE ~(available > 0)
  <2>1. /\ queue' = Append(queue, r) /\ pc' = [pc EXCEPT ![r] = "waiting"]
        /\ UNCHANGED <<owners, available, granted>>
    BY <1>4 DEF Acquire, Goto
  <2>2. available = 0
    BY <1>4 DEF TypeOK
  <2>3. TypeOK'
    BY <1>1, <2>1 DEF TypeOK, Phases
  <2>4. /\ Len(queue') = Len(queue) + 1 /\ queue'[Len(queue) + 1] = r
        /\ \A i \in 1..Len(queue) : queue'[i] = queue[i]
    BY <2>1 DEF TypeOK
  <2>5. Waiting' = Waiting \cup {r}
    <3>1. Len(queue) \in Nat /\ 1..Len(queue') = 1..Len(queue) \cup {Len(queue) + 1}
      BY <2>4 DEF TypeOK
    <3> QED
      BY <2>4, <3>1 DEF Waiting
  <2>6. OwnersHold' /\ GrantedLeft' /\ PermitsAddUp'
    BY <1>1, <1>2, <2>1, <2>5 DEF OwnersHold, GrantedLeft, PermitsAddUp, TypeOK,
                                  Holding
  <2>7. \A i, j \in 1..Len(queue') : queue'[i] = queue'[j] => i = j
    <3>1. \A i \in 1..Len(queue) : queue[i] # r
      BY <1>2 DEF Waiting
    <3> QED
      BY <2>4, <3>1 DEF NoneIdleWhileQueued, TypeOK
  <2>8. \A q \in Requests : pc'[q] = "waiting" <=> (q \in granted' \/ q \in Waiting')
    BY <1>2, <2>1, <2>5 DEF NoneIdleWhileQueued, TypeOK
  <2> QED
    BY <2>1, <2>2, <2>3, <2>6, <2>7, <2>8 DEF NoneIdleWhileQueued
<1> QED
  BY <1>3, <1>4

LEMMA AdmitStep ==
  ASSUME IInv, NEW r \in Requests, Admit(r)
  PROVE  IInv'
<1> USE DEF IInv
<1>1. /\ granted' = granted \ {r} /\ owners' = owners \cup {r} /\ r \in granted
      /\ pc' = [pc EXCEPT ![r] = "admitted"] /\ pc[r] = "waiting"
      /\ UNCHANGED <<tries, available, queue>>
  BY DEF Admit, Goto
<1>2. TypeOK' /\ OwnersHold'
  BY <1>1 DEF TypeOK, OwnersHold, Phases, Holding
<1>3. r \notin Waiting
  BY <1>1 DEF GrantedLeft
<1>4. GrantedLeft' /\ NoneIdleWhileQueued'
  BY <1>1, <1>3 DEF GrantedLeft, NoneIdleWhileQueued, Waiting, TypeOK
<1>5. owners' \cup granted' = owners \cup granted
  BY <1>1
<1>6. PermitsAddUp'
  BY <1>1, <1>5 DEF PermitsAddUp
<1> QED
  BY <1>2, <1>4, <1>6

(* A waiter that gives up without a permit closes the gap in the queue.    *)
LEMMA LeaveQueueStep ==
  ASSUME IInv, NEW r \in Requests, DropWaiting(r), r \notin granted
  PROVE  IInv'
<1> USE DEF IInv
<1>1. PICK i \in 1..Len(queue) :
        queue[i] = r
        /\ queue' = SubSeq(queue, 1, i - 1) \o SubSeq(queue, i + 1, Len(queue))
  BY DEF DropWaiting
<1>2. /\ pc' = [pc EXCEPT ![r] = "idle"] /\ pc[r] = "waiting"
      /\ UNCHANGED <<tries, owners, available, granted>>
  BY DEF DropWaiting, Goto
<1>3. /\ queue' \in Seq(Requests) /\ Len(queue') = Len(queue) - 1
      /\ \A j \in 1..Len(queue') : queue'[j] = IF j < i THEN queue[j] ELSE queue[j + 1]
  <2>1. queue \in Seq(Requests)
    BY DEF TypeOK
  <2>2. Closed(Requests, queue, i, queue')
    BY <1>1, <2>1, RemovedAt, Zenon
  <2> QED
    BY <2>2 DEF Closed
<1>4. Len(queue) \in Nat /\ i \in Nat /\ queue # <<>> /\ available = 0
  BY <1>1 DEF TypeOK, NoneIdleWhileQueued
<1>5. \A j \in 1..Len(queue) : queue[j] = r => j = i
  BY <1>1 DEF NoneIdleWhileQueued
<1>6. Waiting' = Waiting \ {r}
  <2>1. ASSUME NEW q \in Waiting' PROVE q \in Waiting /\ q # r
    <3>1. PICK j \in 1..Len(queue') : q = queue'[j]
      BY <2>1 DEF Waiting
    <3>2. CASE j < i
      BY <1>3, <1>4, <1>5, <3>1, <3>2 DEF Waiting
    <3>3. CASE ~(j < i)
      <4>1. j + 1 \in 1..Len(queue) /\ j + 1 # i /\ q = queue[j + 1]
        BY <1>3, <1>4, <3>1, <3>3
      <4> QED
        BY <1>5, <4>1 DEF Waiting
    <3> QED
      BY <3>2, <3>3
  <2>2. ASSUME NEW q \in Waiting, q # r PROVE q \in Waiting'
    <3>1. PICK j \in 1..Len(queue) : q = queue[j]
      BY DEF Waiting
    <3>2. CASE j < i
      <4>1. j \in 1..Len(queue') /\ queue'[j] = q
        BY <1>3, <1>4, <3>1, <3>2
      <4> QED
        BY <4>1 DEF Waiting
    <3>3. CASE j > i
      <4>1. j - 1 \in 1..Len(queue') /\ queue'[j - 1] = q
        BY <1>3, <1>4, <3>1, <3>3
      <4> QED
        BY <4>1 DEF Waiting
    <3> QED
      BY <1>1, <1>4, <2>2, <3>1, <3>2, <3>3
  <2> QED
    BY <2>1, <2>2
<1>7. TypeOK'
  BY <1>2, <1>3 DEF TypeOK, Phases
<1>8. OwnersHold' /\ GrantedLeft' /\ PermitsAddUp'
  BY <1>2, <1>6 DEF OwnersHold, GrantedLeft, PermitsAddUp, TypeOK, Holding
<1>9. \A j, k \in 1..Len(queue') : queue'[j] = queue'[k] => j = k
  BY <1>3, <1>4 DEF NoneIdleWhileQueued
<1>10. \A q \in Requests : pc'[q] = "waiting" <=> (q \in granted' \/ q \in Waiting')
  BY <1>2, <1>6 DEF NoneIdleWhileQueued, TypeOK
<1> QED
  BY <1>2, <1>4, <1>7, <1>8, <1>9, <1>10 DEF NoneIdleWhileQueued

LEMMA InvariantStep == IInv /\ [Next]_vars => IInv'
<1> SUFFICES ASSUME IInv, [Next]_vars PROVE IInv'
  OBVIOUS
<1>1. CASE UNCHANGED vars
  BY <1>1 DEF vars, semaphore, IInv, TypeOK, OwnersHold, GrantedLeft,
              NoneIdleWhileQueued, PermitsAddUp, Waiting
<1>2. ASSUME NEW r \in Requests, TaskStep(r) PROVE IInv'
  <2>1. CASE PrepareFails(r)
    BY <2>1, QuietStep DEF IInv, TypeOK, PrepareFails, Prepared, Goto, Holding, Phases
  <2>2. CASE Acquire(r)
    BY <2>2, AcquireStep
  <2>3. CASE Admit(r)
    BY <2>3, AdmitStep
  <2>4. CASE Reject(r)
    BY <2>4, GiveBackStep DEF IInv, OwnersHold, Reject, Holding
  <2>5. CASE Call(r)
    BY <2>5, QuietStep DEF IInv, TypeOK, Call, Goto, Holding, Phases
  <2>6. CASE CallReturns(r)
    BY <2>6, QuietStep DEF IInv, TypeOK, CallReturns, Goto, Holding, Phases
  <2>7. CASE Retry(r)
    BY <2>7, QuietStep DEF IInv, TypeOK, Retry, HooksDone, Goto, Holding, Phases
  <2>8. CASE Settle(r)
    BY <2>8, GiveBackStep DEF IInv, OwnersHold, Settle, HooksDone, Holding
  <2>9. CASE AbandonRetry(r)
    BY <2>9, GiveBackStep DEF IInv, OwnersHold, AbandonRetry, Holding
  <2> QED
    BY <1>2, <2>1, <2>2, <2>3, <2>4, <2>5, <2>6, <2>7, <2>8, <2>9 DEF TaskStep
<1>3. ASSUME NEW r \in Requests, UserStep(r) PROVE IInv'
  <2>1. CASE Send(r)
    BY <2>1, QuietStep DEF IInv, TypeOK, Send, Goto, Holding, Phases
  <2>2. CASE Ask(r)
    <3>1. PICK c \in ChildrenOf(r) :
            /\ <<r, pc[r], c>> \in Asks
            /\ pc[c] = "idle"
            /\ pc' = [pc EXCEPT ![r] = IF @ = "preparing" THEN "asking" ELSE "consulting",
                                ![c] = "preparing"]
            /\ tries' = [tries EXCEPT ![c] = 0]
            /\ UNCHANGED semaphore
      BY <2>2 DEF Ask
    <3>2. c \in Requests /\ c # r /\ pc[r] \in {"preparing", "response"}
      BY <3>1, AsksAssumption DEF ChildrenOf, Children
    <3>3. CASE pc[r] = "preparing"
      <4>1. pc' = [pc EXCEPT ![r] = "asking", ![c] = "preparing"]
        BY <3>1, <3>3
      <4> QED
        BY <3>1, <3>2, <3>3, <4>1, QuietStep DEF IInv, TypeOK, Holding, Phases
    <3>4. CASE pc[r] = "response"
      <4>1. pc' = [pc EXCEPT ![r] = "consulting", ![c] = "preparing"]
        BY <3>1, <3>4
      <4> QED
        BY <3>1, <3>2, <3>4, <4>1, QuietStep DEF IInv, TypeOK, Holding, Phases
    <3> QED
      BY <3>2, <3>3, <3>4
  <2>3. CASE CloseBody(r)
    BY <2>3, QuietStep DEF IInv, TypeOK, CloseBody, Goto, Holding, Phases
  <2>4. CASE DropUnpermitted(r)
    BY <2>4, QuietStep DEF IInv, TypeOK, DropUnpermitted, Goto, Holding, Phases
  <2>5. CASE DropWaiting(r)
    BY <2>5, GiveBackStep, LeaveQueueStep DEF DropWaiting
  <2>6. CASE DropPermitted(r)
    BY <2>6, GiveBackStep DEF IInv, OwnersHold, DropPermitted, Holding
  <2> QED
    BY <1>3, <2>1, <2>2, <2>3, <2>4, <2>5, <2>6 DEF UserStep
<1> QED
  BY <1>1, <1>2, <1>3 DEF Next

-----------------------------------------------------------------------------
(* The invariant holds throughout.                                         *)
THEOREM Invariance == Spec => []IInv
BY InvariantInit, InvariantStep, PTL DEF Spec

(* The variables keep their types.                                         *)
THEOREM TypeCorrect == Spec => []TypeOK
<1>1. IInv => TypeOK
  BY DEF IInv
<1> QED
  BY Invariance, <1>1, PTL

(* No permit of max_in_flight is lost or made up, however the requests end *)
(* or are dropped.                                                         *)
THEOREM PermitsNeverLost == Spec => []PermitsConserved
<1>1. IInv => PermitsConserved
  BY DEF IInv, PermitsConserved, OwnersHold
<1> QED
  BY Invariance, <1>1, PTL

(* The requests that were admitted and have not ended fit the limit.      *)
LimitKept ==
  Cardinality({r \in Requests : pc[r] \in Holding}) <= Permits

(* At most max_in_flight requests are between admission and the end of     *)
(* their loop.                                                             *)
THEOREM LimitHolds == Spec => []LimitKept
<1>1. IInv => LimitKept
  <2> SUFFICES ASSUME IInv PROVE LimitKept
    OBVIOUS
  <2> USE DEF IInv
  <2>1. {r \in Requests : pc[r] \in Holding} = owners
    BY DEF OwnersHold, TypeOK
  <2>2. Cardinality(owners) <= Cardinality(owners \cup granted)
    BY HoldersFinite, FS_Subset
  <2>3. Cardinality(owners) \in Nat /\ Cardinality(owners \cup granted) \in Nat
    BY HoldersFinite, FS_Subset, FS_CardinalityType
  <2>4. Cardinality(owners) <= Permits
    BY <2>2, <2>3, PermitsAssumption DEF PermitsAddUp, TypeOK
  <2> QED
    BY <2>1, <2>4 DEF LimitKept
<1> QED
  BY Invariance, <1>1, PTL

(* A request waits only while all permits are in use, once, and until it   *)
(* is given one.                                                           *)
THEOREM QueueHonest == Spec => []NoneIdleWhileQueued
<1>1. IInv => NoneIdleWhileQueued
  BY DEF IInv
<1> QED
  BY Invariance, <1>1, PTL

(* What a step may do to those who wait.                                   *)
LEMMA ServedInTurn ==
  ASSUME IInv, [Next]_vars
  PROVE  /\ \A j \in 1..Len(queue) : queue[j] \in granted' => j = 1
         /\ \A r \in owners' : r \notin owners /\ r \notin granted => queue = <<>>
<1> DEFINE Turn == \A j \in 1..Len(queue) : queue[j] \in granted' => j = 1
           Fresh == \A r \in owners' : r \notin owners /\ r \notin granted => queue = <<>>
<1>1. ASSUME granted' \subseteq granted PROVE Turn
  BY <1>1 DEF IInv, GrantedLeft, Waiting
<1>2. ASSUME owners' \subseteq owners \cup granted PROVE Fresh
  BY <1>2
<1>3. ASSUME NEW r, GiveBack(r) PROVE Turn /\ Fresh
  <2>1. CASE queue = <<>>
    BY <1>1, <1>2, <1>3, <2>1 DEF GiveBack
  <2>2. CASE queue # <<>>
    <3>1. granted' = (granted \ {r}) \cup {Head(queue)} /\ owners' = owners \ {r}
      BY <1>3, <2>2 DEF GiveBack
    <3>2. Head(queue) = queue[1] /\ 1 \in 1..Len(queue)
      BY <2>2 DEF IInv, TypeOK
    <3>3. Turn
      BY <3>1, <3>2 DEF IInv, GrantedLeft, NoneIdleWhileQueued, Waiting
    <3> QED
      BY <1>2, <3>1, <3>3
  <2> QED
    BY <2>1, <2>2
<1>4. CASE UNCHANGED semaphore
  BY <1>1, <1>2, <1>4 DEF semaphore
<1>5. CASE UNCHANGED vars
  BY <1>4, <1>5 DEF vars
<1>6. ASSUME NEW r \in Requests, TaskStep(r) PROVE Turn /\ Fresh
  <2>1. CASE PrepareFails(r) \/ Call(r) \/ CallReturns(r) \/ Retry(r)
    BY <1>4, <2>1 DEF PrepareFails, Call, CallReturns, Retry
  <2>2. CASE Acquire(r)
    <3>1. granted' = granted /\ (available > 0 \/ owners' = owners)
      BY <2>2 DEF Acquire
    <3>2. available > 0 => queue = <<>>
      BY DEF IInv, NoneIdleWhileQueued, TypeOK
    <3> QED
      BY <1>1, <3>1, <3>2
  <2>3. CASE Admit(r)
    BY <1>1, <1>2, <2>3 DEF Admit
  <2>4. CASE Reject(r) \/ Settle(r) \/ AbandonRetry(r)
    BY <1>3, <2>4 DEF Reject, Settle, AbandonRetry, Release
  <2> QED
    BY <1>6, <2>1, <2>2, <2>3, <2>4 DEF TaskStep
<1>7. ASSUME NEW r \in Requests, UserStep(r) PROVE Turn /\ Fresh
  <2>1. CASE Send(r) \/ Ask(r) \/ CloseBody(r) \/ DropUnpermitted(r)
    BY <1>4, <2>1 DEF Send, Ask, CloseBody, DropUnpermitted
  <2>2. CASE DropWaiting(r)
    <3>1. CASE r \in granted
      BY <1>3, <2>2, <3>1 DEF DropWaiting, Release
    <3>2. CASE r \notin granted
      BY <1>1, <1>2, <2>2, <3>2 DEF DropWaiting
    <3> QED
      BY <3>1, <3>2
  <2>3. CASE DropPermitted(r)
    BY <1>3, <2>3 DEF DropPermitted, Release
  <2> QED
    BY <1>7, <2>1, <2>2, <2>3 DEF UserStep
<1> QED
  BY <1>5, <1>6, <1>7 DEF Next

(* Nobody is served before a request that waited longer: a waiter is       *)
(* granted a permit only if those before it have left, and a newcomer gets *)
(* one without waiting only when nobody waits.                             *)
NoOvertaking ==
  [][/\ \A i, j \in 1..Len(queue) :
          i < j /\ queue[j] \in granted' =>
            ~ \E k \in 1..Len(queue') : queue'[k] = queue[i]
     /\ \A r \in owners' : r \notin owners /\ r \notin granted => queue = <<>>
    ]_vars

(* Nobody is served before a request that waited longer.                   *)
THEOREM FirstComeFirstServed == Spec => NoOvertaking
<1>1. IInv /\ [Next]_vars =>
        [/\ \A i, j \in 1..Len(queue) :
              i < j /\ queue[j] \in granted' =>
                ~ \E k \in 1..Len(queue') : queue'[k] = queue[i]
         /\ \A r \in owners' : r \notin owners /\ r \notin granted => queue = <<>>
        ]_vars
  <2> SUFFICES ASSUME IInv, [Next]_vars
               PROVE  /\ \A i, j \in 1..Len(queue) :
                           ~(i < j /\ queue[j] \in granted')
                      /\ \A r \in owners' : r \notin owners /\ r \notin granted
                                              => queue = <<>>
    OBVIOUS
  <2>1. Len(queue) \in Nat
    BY DEF IInv, TypeOK
  <2> QED
    BY <2>1, ServedInTurn
<1> QED
  BY Invariance, <1>1, PTL DEF Spec, NoOvertaking

-----------------------------------------------------------------------------
(* The refinement of Admission.                                            *)

(* Admission counts like InFlight.                                         *)
LEMMA SameCount == \A S : Room!Cardinality(S) = Cardinality(S)
BY Zenon DEF Room!Cardinality, Cardinality

(* There is room exactly while the semaphore has a permit left.            *)
LEMMA RoomLeft ==
  ASSUME IInv
  PROVE  /\ available > 0 => queue = <<>> /\ Cardinality(owners \cup granted) < Permits
         /\ ~(available > 0) => Cardinality(owners \cup granted) = Permits
<1>1. Cardinality(owners \cup granted) \in Nat
  BY HoldersFinite, FS_CardinalityType DEF IInv
<1>2. available \in Nat /\ available + Cardinality(owners \cup granted) = Permits
  BY DEF IInv, TypeOK, PermitsAddUp
<1>3. queue # <<>> => available = 0
  BY DEF IInv, NoneIdleWhileQueued
<1> QED
  BY <1>1, <1>2, <1>3, PermitsAssumption

(* A request that is preparing has no place and no turn.                   *)
LEMMA PreparedIsNew ==
  ASSUME IInv, NEW r \in Requests, Prepared(r)
  PROVE  Room!IsNew(r)
BY DEF IInv, OwnersHold, NoneIdleWhileQueued, Prepared, Waiting, Holding, Room!IsNew

LEMMA AcquireEnters ==
  ASSUME IInv, NEW r \in Requests, Acquire(r)
  PROVE  Room!AdmissionNext
<1>1. Room!IsNew(r)
  BY PreparedIsNew DEF Acquire
<1>2. CASE available > 0
  <2>1. owners' \cup granted' = (owners \cup granted) \cup {r} /\ UNCHANGED queue
    BY <1>2 DEF Acquire
  <2>2. Room!Enter(r)
    <3>1. queue = <<>> /\ Room!Cardinality(owners \cup granted) < Permits
      BY <1>2, RoomLeft, SameCount, Zenon
    <3> QED
      BY <1>1, <2>1, <3>1, Zenon DEF Room!Enter
  <2> QED
    BY <2>2 DEF Room!AdmissionNext
<1>3. CASE ~(available > 0)
  <2>1. queue' = Append(queue, r) /\ UNCHANGED <<owners, granted>>
    BY <1>3 DEF Acquire
  <2>2. (owners \cup granted)' = owners \cup granted
    BY <2>1
  <2>3. Room!StandInLine(r)
    <3>1. Room!Cardinality(owners \cup granted) = Permits
      BY <1>3, RoomLeft, SameCount, Zenon
    <3> QED
      BY <1>1, <2>1, <2>2, <3>1, Zenon DEF Room!StandInLine
  <2> QED
    BY <2>3 DEF Room!AdmissionNext
<1> QED
  BY <1>2, <1>3

(* A permit that is given back frees a place, and the first in line has it.*)
LEMMA GiveBackLeaves ==
  ASSUME IInv, NEW r \in Requests, r \in owners \/ r \in granted, GiveBack(r)
  PROVE  Room!AdmissionNext
<1>1. owners \cap granted = {}
  BY DEF IInv, PermitsAddUp
<1>2. CASE queue = <<>>
  <2>1. owners' \cup granted' = (owners \cup granted) \ {r} /\ UNCHANGED queue
    BY <1>2 DEF GiveBack
  <2> QED
    BY <1>2, <2>1 DEF Room!Leave, Room!AdmissionNext
<1>3. CASE queue # <<>>
  <2>1. /\ owners' \cup granted' = ((owners \cup granted) \ {r}) \cup {Head(queue)}
        /\ queue' = Tail(queue)
    BY <1>3 DEF GiveBack
  <2> QED
    BY <1>3, <2>1 DEF Room!Leave, Room!AdmissionNext
<1> QED
  BY <1>2, <1>3

LEMMA RoomStep ==
  IInv /\ [Next]_vars => [Room!AdmissionNext]_(Room!admissionVars)
<1> SUFFICES ASSUME IInv, [Next]_vars
             PROVE  Room!AdmissionNext \/ UNCHANGED <<owners \cup granted, queue>>
  BY DEF Room!admissionVars
<1>1. CASE UNCHANGED semaphore
  BY <1>1 DEF semaphore
<1>2. CASE UNCHANGED vars
  BY <1>1, <1>2 DEF vars
<1>3. ASSUME NEW r \in Requests, TaskStep(r)
      PROVE  Room!AdmissionNext \/ UNCHANGED <<owners \cup granted, queue>>
  <2>1. CASE PrepareFails(r) \/ Call(r) \/ CallReturns(r) \/ Retry(r)
    BY <1>1, <2>1 DEF PrepareFails, Call, CallReturns, Retry
  <2>2. CASE Acquire(r)
    BY <2>2, AcquireEnters
  <2>3. CASE Admit(r)
    <3>1. owners' \cup granted' = owners \cup granted /\ UNCHANGED queue
      BY <2>3 DEF Admit
    <3> QED
      BY <3>1
  <2>4. CASE Reject(r) \/ Settle(r) \/ AbandonRetry(r)
    <3>1. r \in owners
      BY <2>4 DEF IInv, OwnersHold, Holding, Reject, Settle, AbandonRetry, HooksDone
    <3>2. GiveBack(r)
      BY <2>4 DEF Reject, Settle, AbandonRetry, Release
    <3> QED
      BY <3>1, <3>2, GiveBackLeaves
  <2> QED
    BY <1>3, <2>1, <2>2, <2>3, <2>4 DEF TaskStep
<1>4. ASSUME NEW r \in Requests, UserStep(r)
      PROVE  Room!AdmissionNext \/ UNCHANGED <<owners \cup granted, queue>>
  <2>1. CASE Send(r) \/ Ask(r) \/ CloseBody(r) \/ DropUnpermitted(r)
    BY <1>1, <2>1 DEF Send, Ask, CloseBody, DropUnpermitted
  <2>2. CASE DropWaiting(r) /\ r \in granted
    BY <2>2, GiveBackLeaves DEF DropWaiting, Release
  <2>3. CASE DropWaiting(r) /\ r \notin granted
    <3>1. PICK i \in 1..Len(queue) :
            queue' = SubSeq(queue, 1, i - 1) \o SubSeq(queue, i + 1, Len(queue))
      BY <2>3 DEF DropWaiting
    <3>2. UNCHANGED <<owners, granted>>
      BY <2>3 DEF DropWaiting
    <3>3. Room!GiveUp(i)
      BY <3>1, <3>2, Zenon DEF Room!GiveUp
    <3> QED
      BY <3>3 DEF Room!AdmissionNext
  <2>4. CASE DropPermitted(r)
    <3>1. r \in owners /\ GiveBack(r)
      BY <2>4 DEF IInv, OwnersHold, Holding, DropPermitted, Release
    <3> QED
      BY <3>1, GiveBackLeaves
  <2> QED
    BY <1>4, <2>1, <2>2, <2>3, <2>4 DEF UserStep
<1> QED
  BY <1>2, <1>3, <1>4 DEF Next

(* The limit keeps the promise of Admission: its places are never          *)
(* exceeded, never empty while someone waits, and given in the order of    *)
(* the line.                                                               *)
THEOREM ImplementsAdmission == Spec => KeepsRoom
<1>1. Init => Room!Open
  <2> SUFFICES ASSUME Init PROVE owners \cup granted = {} /\ queue = <<>>
    BY DEF Room!Open
  <2> QED
    BY DEF Init
<1>2. IInv /\ [Next]_vars => [Room!AdmissionNext]_(Room!admissionVars)
  BY RoomStep
<1> QED
  BY <1>1, <1>2, Invariance, PTL DEF Spec, KeepsRoom, Room!AdmissionSpec

=============================================================================
