-------------------------- MODULE TransportProofs --------------------------
(***************************************************************************)
(* Proofs about Transport, for every finite set of calls and every limit.  *)
(***************************************************************************)
EXTENDS Transport, FiniteSetTheorems, TLAPS

(* Between its two loads, total_calls has added up no more than one        *)
(* counter shows and lacks no more than the other does.                    *)
HalfRead ==
  reading = "half" => before <= total + count["streaming"] /\ total <= count["buffered"]

IInv == TypeOK /\ WireConserved /\ RecordingHonest /\ HalfRead

(* Sets of calls are finite, so that they have a cardinality.              *)
LEMMA CallSets ==
  ASSUME NEW S, S \subseteq Calls
  PROVE  IsFiniteSet(S) /\ Cardinality(S) \in Nat
BY TransportAssumption, FS_Subset, FS_CardinalityType

LEMMA LimitType == ASSUME NEW m PROVE Limit(m) \in Nat
BY CallSets, TransportAssumption DEF Limit

(* Counting after one call more, and one call less.                        *)
LEMMA OneMore ==
  ASSUME NEW S, S \subseteq Calls, NEW c \in Calls, c \notin S
  PROVE  Cardinality(S \cup {c}) = Cardinality(S) + 1
BY CallSets, FS_AddElement

LEMMA OneLess ==
  ASSUME NEW S, S \subseteq Calls, NEW c \in S
  PROVE  Cardinality(S) = Cardinality(S \ {c}) + 1
<1>1. Cardinality(S \ {c}) = Cardinality(S) - 1
  BY CallSets, FS_RemoveElement
<1> QED BY <1>1, CallSets

(* What a step of one call does to the sets that are counted.              *)
LEMMA StepSets ==
  ASSUME TypeOK, NEW c \in Calls, NEW from \in States, NEW to \in States, Step(c, from, to)
  PROVE  /\ \A x \in Calls : pc'[x] = IF x = c THEN to ELSE pc[x]
         /\ pc' \in [Calls -> States]
         /\ pc[c] = from
BY DEF TypeOK, Step

LEMMA OfCalls ==
  ASSUME NEW m
  PROVE  Of(m) \subseteq Calls /\ OnWire(m) \subseteq Calls /\ Counted(m) \subseteq Calls
         /\ Recorded \subseteq Calls /\ OnWire(m)' \subseteq Calls /\ Counted(m)' \subseteq Calls
         /\ Recorded' \subseteq Calls
BY DEF Of, OnWire, Counted, Recorded

LEMMA ModeOf == \A c \in Calls : Mode(c) \in Modes /\ c \in Of(Mode(c))
BY DEF Of, Mode, Modes

LEMMA InitInv == Init => IInv
<1> SUFFICES ASSUME Init PROVE IInv
  OBVIOUS
<1>1. \A m \in Modes : OnWire(m) = {} /\ Counted(m) = {} /\ Recorded = {}
  BY DEF Init, OnWire, Counted, Recorded, Of
<1>2. Cardinality({}) = 0
  BY FS_EmptySet
<1>3. TypeOK
  BY LimitType DEF Init, TypeOK, States
<1>4. WireConserved
  <2> SUFFICES ASSUME NEW m \in Modes PROVE permits[m] + Cardinality(OnWire(m)) = Limit(m)
    BY DEF WireConserved
  <2>1. permits[m] = Limit(m) /\ Limit(m) \in Nat
    BY LimitType DEF Init
  <2>2. Cardinality(OnWire(m)) = 0
    BY <1>1, <1>2
  <2> QED BY <2>1, <2>2
<1>5. RecordingHonest
  <2>1. \A m \in Modes : count[m] = Cardinality(Counted(m))
    BY <1>1, <1>2 DEF Init
  <2>2. taken + Cardinality(last) <= Cardinality(Recorded)
    BY <1>1, <1>2 DEF Init, Modes
  <2> QED BY <2>1, <2>2 DEF RecordingHonest, Init
<1> QED BY <1>3, <1>4, <1>5 DEF IInv, HalfRead, Init

(* Counting a call: the counter follows, nothing is recorded yet.          *)
LEMMA CountInv ==
  ASSUME IInv, NEW c \in Calls, Count(c)
  PROVE  IInv'
<1> USE DEF IInv
<1>0. Step(c, "idle", "counted") /\ UNCHANGED <<last, permits, reading, total, before, taken>>
  BY DEF Count, Reader
<1>1. /\ \A x \in Calls : pc'[x] = IF x = c THEN "counted" ELSE pc[x]
      /\ pc' \in [Calls -> States] /\ pc[c] = "idle"
  BY <1>0, StepSets, Zenon DEF States
<1>2. /\ count' \in [Modes -> Nat]
      /\ \A m \in Modes : count'[m] = IF m = Mode(c) THEN count[m] + 1 ELSE count[m]
  BY ModeOf DEF Count, TypeOK
<1>3. \A m \in Modes : OnWire(m)' = OnWire(m)
  BY <1>1 DEF OnWire, Of
<1>4. Recorded' = Recorded
  BY <1>1 DEF Recorded
<1>5. \A m \in Modes : count'[m] = Cardinality(Counted(m)')
  <2> SUFFICES ASSUME NEW m \in Modes PROVE count'[m] = Cardinality(Counted(m)')
    OBVIOUS
  <2>1. count[m] = Cardinality(Counted(m))
    BY DEF RecordingHonest
  <2>2. CASE m = Mode(c)
    <3>1. Counted(m)' = Counted(m) \cup {c}
      BY <1>1, <2>2, ModeOf DEF Counted, Of
    <3>2. c \notin Counted(m)
      BY <1>1 DEF Counted
    <3>3. Cardinality(Counted(m) \cup {c}) = Cardinality(Counted(m)) + 1
      BY <3>2, OfCalls, OneMore
    <3> QED BY <1>2, <2>1, <2>2, <3>1, <3>3
  <2>3. CASE m # Mode(c)
    <3>1. Counted(m)' = Counted(m)
      BY <1>1, <2>3 DEF Counted, Of
    <3> QED BY <1>2, <2>1, <2>3, <3>1
  <2> QED BY <2>2, <2>3
<1>6. TypeOK'
  BY <1>0, <1>1, <1>2 DEF TypeOK
<1>7. WireConserved'
  BY <1>0, <1>3 DEF WireConserved, Limit
<1>8. count'["buffered"] >= count["buffered"] /\ count'["streaming"] >= count["streaming"]
  BY <1>2 DEF TypeOK, Modes
<1>9. count["buffered"] \in Nat /\ count["streaming"] \in Nat
      /\ count'["buffered"] \in Nat /\ count'["streaming"] \in Nat
  BY <1>2 DEF TypeOK, Modes
<1>10. RecordingHonest'
  <2>1. reading' = "read" => before' <= total' /\ total' <= count'["buffered"] + count'["streaming"]
    BY <1>0, <1>8, <1>9 DEF RecordingHonest, TypeOK
  <2>2. last' \subseteq Recorded' /\ taken' + Cardinality(last') <= Cardinality(Recorded')
    BY <1>0, <1>4 DEF RecordingHonest
  <2> QED BY <1>5, <2>1, <2>2 DEF RecordingHonest
<1>11. HalfRead'
  BY <1>0, <1>8, <1>9 DEF HalfRead, TypeOK
<1> QED BY <1>6, <1>7, <1>10, <1>11

(* A step of a call that was counted leaves the counters right.            *)
LEMMA CountersKept ==
  ASSUME IInv, NEW c \in Calls, NEW from \in States \ {"idle"}, NEW to \in States \ {"idle"},
         Step(c, from, to), UNCHANGED <<count, reading, total, before>>
  PROVE  /\ \A m \in Modes : count'[m] = Cardinality(Counted(m)')
         /\ reading' = "read" => before' <= total' /\ total' <= count'["buffered"] + count'["streaming"]
         /\ HalfRead'
<1> USE DEF IInv
<1>1. \A x \in Calls : pc'[x] = IF x = c THEN to ELSE pc[x]
  BY StepSets
<1>2. pc[c] = from
  BY StepSets
<1>3. \A m \in Modes : Counted(m)' = Counted(m)
  BY <1>1, <1>2 DEF Counted, Of
<1> QED BY <1>3 DEF RecordingHonest, HalfRead

(* Recording a call replaces the snapshot by one of its own.               *)
LEMMA RecordInv ==
  ASSUME IInv, NEW c \in Calls, Record(c)
  PROVE  IInv'
<1> USE DEF IInv
<1>0. Step(c, "counted", "recorded") /\ last' = {c}
      /\ UNCHANGED <<count, permits, reading, total, before, taken>>
  BY DEF Record, Reader
<1>1. /\ \A x \in Calls : pc'[x] = IF x = c THEN "recorded" ELSE pc[x]
      /\ pc' \in [Calls -> States] /\ pc[c] = "counted"
  BY <1>0, StepSets, Zenon DEF States
<1>2. /\ \A m \in Modes : count'[m] = Cardinality(Counted(m)')
      /\ reading' = "read" => before' <= total' /\ total' <= count'["buffered"] + count'["streaming"]
      /\ HalfRead'
  BY <1>0, CountersKept DEF States
<1>3. Recorded' = Recorded \cup {c} /\ c \notin Recorded
  BY <1>1 DEF Recorded
<1>4. Cardinality(Recorded') = Cardinality(Recorded) + 1
  BY <1>3, OfCalls, OneMore
<1>5. Cardinality(last') = 1
  BY <1>0, FS_Singleton
<1>6. taken' + Cardinality(last') <= Cardinality(Recorded')
  <2>1. Cardinality(last) \in Nat /\ Cardinality(Recorded) \in Nat /\ taken \in Nat
    BY CallSets, OfCalls DEF TypeOK
  <2>2. taken + Cardinality(last) <= Cardinality(Recorded)
    BY DEF RecordingHonest
  <2> QED BY <1>0, <1>4, <1>5, <2>1, <2>2
<1>7. last' \subseteq Recorded'
  BY <1>0, <1>3
<1>8. \A m \in Modes : OnWire(m)' = OnWire(m)
  BY <1>1 DEF OnWire, Of
<1>9. WireConserved'
  BY <1>0, <1>8 DEF WireConserved, Limit
<1>10. TypeOK'
  BY <1>0, <1>1 DEF TypeOK
<1> QED BY <1>2, <1>6, <1>7, <1>9, <1>10 DEF RecordingHonest

(* A step behind the recording keeps everything but the permits.           *)
LEMMA RecordingKept ==
  ASSUME IInv, NEW c \in Calls, NEW from \in {"recorded", "wire"}, NEW to \in {"wire", "ended"},
         Step(c, from, to), UNCHANGED <<count, last, reading, total, before, taken>>
  PROVE  RecordingHonest' /\ HalfRead'
<1> USE DEF IInv
<1>1. \A x \in Calls : pc'[x] = IF x = c THEN to ELSE pc[x]
  BY StepSets DEF States
<1>2. pc[c] = from
  BY StepSets DEF States
<1>3. Recorded' = Recorded
  BY <1>1, <1>2 DEF Recorded
<1>4. /\ \A m \in Modes : count'[m] = Cardinality(Counted(m)')
      /\ reading' = "read" => before' <= total' /\ total' <= count'["buffered"] + count'["streaming"]
      /\ HalfRead'
  BY CountersKept DEF States
<1> QED BY <1>3, <1>4 DEF RecordingHonest

(* A ready call takes one permit of its own stack onto the wire.           *)
LEMMA ReadyInv ==
  ASSUME IInv, NEW c \in Calls, Ready(c)
  PROVE  IInv'
<1> USE DEF IInv
<1>0. /\ Step(c, "recorded", "wire") /\ permits[Mode(c)] > 0
      /\ UNCHANGED <<count, last, reading, total, before, taken>>
  BY DEF Ready, Reader
<1>1. /\ \A x \in Calls : pc'[x] = IF x = c THEN "wire" ELSE pc[x]
      /\ pc' \in [Calls -> States] /\ pc[c] = "recorded"
  BY <1>0, StepSets, Zenon DEF States
<1>2. /\ permits' \in [Modes -> Nat]
      /\ \A m \in Modes : permits'[m] = IF m = Mode(c) THEN permits[m] - 1 ELSE permits[m]
  BY <1>0, ModeOf DEF Ready, TypeOK
<1>3. ASSUME NEW m \in Modes PROVE permits'[m] + Cardinality(OnWire(m)') = Limit(m)
  <2>1. permits[m] + Cardinality(OnWire(m)) = Limit(m) /\ permits[m] \in Nat
    BY DEF WireConserved, TypeOK
  <2>2. Cardinality(OnWire(m)) \in Nat
    BY CallSets, OfCalls
  <2>3. CASE m = Mode(c)
    <3>1. OnWire(m)' = OnWire(m) \cup {c} /\ c \notin OnWire(m)
      BY <1>1, <2>3, ModeOf DEF OnWire, Of
    <3>2. Cardinality(OnWire(m) \cup {c}) = Cardinality(OnWire(m)) + 1
      BY <3>1, OfCalls, OneMore
    <3> QED BY <1>2, <2>1, <2>2, <2>3, <3>1, <3>2
  <2>4. CASE m # Mode(c)
    <3>1. OnWire(m)' = OnWire(m)
      BY <1>1, <2>4 DEF OnWire, Of
    <3> QED BY <1>2, <2>1, <2>4, <3>1
  <2> QED BY <2>3, <2>4
<1>4. WireConserved'
  BY <1>3 DEF WireConserved, Limit
<1>5. RecordingHonest' /\ HalfRead'
  BY <1>0, RecordingKept
<1>6. TypeOK'
  BY <1>0, <1>1, <1>2 DEF TypeOK
<1> QED BY <1>4, <1>5, <1>6

LEMMA GiveUpInv ==
  ASSUME IInv, NEW c \in Calls, GiveUp(c)
  PROVE  IInv'
<1> USE DEF IInv
<1>0. Step(c, "recorded", "ended") /\ UNCHANGED <<count, last, permits, reading, total, before, taken>>
  BY DEF GiveUp, Reader
<1>1. /\ \A x \in Calls : pc'[x] = IF x = c THEN "ended" ELSE pc[x]
      /\ pc' \in [Calls -> States] /\ pc[c] = "recorded"
  BY <1>0, StepSets, Zenon DEF States
<1>2. \A m \in Modes : OnWire(m)' = OnWire(m)
  BY <1>1 DEF OnWire, Of
<1>3. WireConserved'
  BY <1>0, <1>2 DEF WireConserved, Limit
<1>4. RecordingHonest' /\ HalfRead'
  BY <1>0, RecordingKept
<1>5. TypeOK'
  BY <1>0, <1>1 DEF TypeOK
<1> QED BY <1>3, <1>4, <1>5

(* A call that ends or is dropped gives back the permit it took.           *)
LEMMA EndInv ==
  ASSUME IInv, NEW c \in Calls, End(c)
  PROVE  IInv'
<1> USE DEF IInv
<1>0. Step(c, "wire", "ended") /\ UNCHANGED <<count, last, reading, total, before, taken>>
  BY DEF End, Reader
<1>1. /\ \A x \in Calls : pc'[x] = IF x = c THEN "ended" ELSE pc[x]
      /\ pc' \in [Calls -> States] /\ pc[c] = "wire"
  BY <1>0, StepSets, Zenon DEF States
<1>2. /\ permits' \in [Modes -> Nat]
      /\ \A m \in Modes : permits'[m] = IF m = Mode(c) THEN permits[m] + 1 ELSE permits[m]
  BY ModeOf DEF End, TypeOK
<1>3. ASSUME NEW m \in Modes PROVE permits'[m] + Cardinality(OnWire(m)') = Limit(m)
  <2>1. permits[m] + Cardinality(OnWire(m)) = Limit(m) /\ permits[m] \in Nat
    BY DEF WireConserved, TypeOK
  <2>2. Cardinality(OnWire(m)') \in Nat
    BY CallSets, OfCalls
  <2>3. CASE m = Mode(c)
    <3>1. OnWire(m)' = OnWire(m) \ {c} /\ c \in OnWire(m)
      BY <1>1, <2>3, ModeOf DEF OnWire, Of
    <3>2. Cardinality(OnWire(m)) = Cardinality(OnWire(m) \ {c}) + 1
      BY <3>1, OfCalls, OneLess
    <3> QED BY <1>2, <2>1, <2>2, <2>3, <3>1, <3>2
  <2>4. CASE m # Mode(c)
    <3>1. OnWire(m)' = OnWire(m)
      BY <1>1, <2>4 DEF OnWire, Of
    <3> QED BY <1>2, <2>1, <2>4, <3>1
  <2> QED BY <2>3, <2>4
<1>4. WireConserved'
  BY <1>3 DEF WireConserved, Limit
<1>5. RecordingHonest' /\ HalfRead'
  BY <1>0, RecordingKept
<1>6. TypeOK'
  BY <1>0, <1>1, <1>2 DEF TypeOK
<1> QED BY <1>4, <1>5, <1>6

(* The steps of the test, which leave the calls alone.                     *)
LEMMA CallsAlone ==
  ASSUME IInv, UNCHANGED <<pc, count, permits>>
  PROVE  /\ WireConserved' /\ Recorded' = Recorded
         /\ \A m \in Modes : count'[m] = Cardinality(Counted(m)')
BY DEF IInv, WireConserved, RecordingHonest, Limit, OnWire, Of, Counted, Recorded

LEMMA ReadInv ==
  ASSUME IInv, ExecuteCount \/ StreamCount
  PROVE  IInv'
<1> USE DEF IInv
<1>0. UNCHANGED <<pc, count, last, permits, taken>>
  BY DEF ExecuteCount, StreamCount
<1>1. /\ WireConserved' /\ Recorded' = Recorded
      /\ \A m \in Modes : count'[m] = Cardinality(Counted(m)')
  BY <1>0, CallsAlone
<1>2. count["buffered"] \in Nat /\ count["streaming"] \in Nat /\ total \in Nat /\ before \in Nat
  BY DEF TypeOK, Modes
<1>3. TypeOK'
  BY <1>0, <1>2 DEF TypeOK, ExecuteCount, StreamCount
<1>4. HalfRead'
  BY <1>0, <1>2 DEF HalfRead, ExecuteCount, StreamCount
<1>5. reading' = "read" => before' <= total' /\ total' <= count'["buffered"] + count'["streaming"]
  BY <1>0, <1>2 DEF HalfRead, ExecuteCount, StreamCount
<1> QED BY <1>0, <1>1, <1>3, <1>4, <1>5 DEF RecordingHonest

LEMMA TakeInv ==
  ASSUME IInv, TakeLastRecorded
  PROVE  IInv'
<1> USE DEF IInv
<1>0. /\ last # {} /\ last' = {} /\ taken' = taken + 1
      /\ UNCHANGED <<pc, count, permits, reading, total, before>>
  BY DEF TakeLastRecorded
<1>1. /\ WireConserved' /\ Recorded' = Recorded
      /\ \A m \in Modes : count'[m] = Cardinality(Counted(m)')
  BY <1>0, CallsAlone
<1>2. Cardinality(last) \in Nat /\ Cardinality(last) # 0
  BY <1>0, CallSets, FS_EmptySet DEF TypeOK
<1>3. Cardinality(last') = 0
  BY <1>0, FS_EmptySet
<1>4. taken' + Cardinality(last') <= Cardinality(Recorded')
  <2>1. taken + Cardinality(last) <= Cardinality(Recorded)
    BY DEF RecordingHonest
  <2>2. Cardinality(Recorded) \in Nat /\ taken \in Nat
    BY CallSets, OfCalls DEF TypeOK
  <2> QED BY <1>0, <1>1, <1>2, <1>3, <2>1, <2>2
<1>5. TypeOK' /\ HalfRead'
  BY <1>0 DEF TypeOK, HalfRead
<1> QED BY <1>0, <1>1, <1>4, <1>5 DEF RecordingHonest

LEMMA InvariantStep == IInv /\ [Next]_vars => IInv'
<1> SUFFICES ASSUME IInv, [Next]_vars PROVE IInv'
  OBVIOUS
<1>1. ASSUME NEW c \in Calls, Count(c) PROVE IInv'
  BY <1>1, CountInv
<1>2. ASSUME NEW c \in Calls, Record(c) PROVE IInv'
  BY <1>2, RecordInv
<1>3. ASSUME NEW c \in Calls, Ready(c) PROVE IInv'
  BY <1>3, ReadyInv
<1>4. ASSUME NEW c \in Calls, GiveUp(c) PROVE IInv'
  BY <1>4, GiveUpInv
<1>5. ASSUME NEW c \in Calls, End(c) PROVE IInv'
  BY <1>5, EndInv
<1>6. CASE ExecuteCount \/ StreamCount
  BY <1>6, ReadInv
<1>7. CASE TakeLastRecorded
  BY <1>7, TakeInv
<1>8. CASE UNCHANGED vars
  BY <1>8 DEF IInv, vars, TypeOK, WireConserved, RecordingHonest, HalfRead, Limit, OnWire, Of,
              Counted, Recorded
<1> QED BY <1>1, <1>2, <1>3, <1>4, <1>5, <1>6, <1>7, <1>8 DEF Next

LEMMA Invariant == Spec => []IInv
BY InitInv, InvariantStep, PTL DEF Spec

(* The variables of the recording backend and its stacks keep their types. *)
THEOREM TypeCorrect == Spec => []TypeOK
<1>1. IInv => TypeOK
  BY DEF IInv
<1> QED BY <1>1, Invariant, PTL

(* Permits and calls on the wire add up to the limit of each stack, for    *)
(* every set of calls and every limit (ServiceBackend::execute).           *)
THEOREM WireLimitKept == Spec => []WireConserved
<1>1. IInv => WireConserved
  BY DEF IInv
<1> QED BY <1>1, Invariant, PTL

(* Counters, total_calls and snapshots are consistent under every          *)
(* interleaving of any number of calls (recording.rs).                     *)
THEOREM RecordingIsHonest == Spec => []RecordingHonest
<1>1. IInv => RecordingHonest
  BY DEF IInv
<1> QED BY <1>1, Invariant, PTL

=============================================================================
