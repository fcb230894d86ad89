----------------------------- MODULE Transport -----------------------------
(***************************************************************************)
(* A recording backend over a Tower transport (backend/recording.rs,       *)
(* tower/service.rs, tower/stack.rs): concurrent calls, buffered and       *)
(* streaming, count and record themselves, wait until a clone of their     *)
(* stack is ready, go over the wire and end or are dropped by the caller;  *)
(* meanwhile a test reads the counters and takes snapshots.                *)
(***************************************************************************)
EXTENDS Naturals, FiniteSets

CONSTANTS
  Calls,        \* the requests that reach the backend
  Streams,      \* those that go to execute_stream
  Layered,      \* the stacks that have a ConcurrencyLimit layer
  MaxInFlight,  \* the limit of each
  MaxTakes      \* bound: how often the test takes a snapshot

Modes == {"buffered", "streaming"}

ASSUME TransportAssumption ==
  /\ IsFiniteSet(Calls) /\ Streams \subseteq Calls /\ Layered \subseteq Modes
  /\ MaxInFlight \in Nat /\ MaxTakes \in Nat

VARIABLES
  pc,       \* where each call is
  count,    \* the two counters
  last,     \* last_recorded: the calls whose snapshot it holds, one or none
  permits,  \* of each stack's semaphore
  reading,  \* total_calls: "idle", between its two loads, "read"
  total,    \* what it has added up
  before,   \* the calls that were counted when it began
  taken     \* how many snapshots were taken

vars == <<pc, count, last, permits, reading, total, before, taken>>
Reader == <<reading, total, before, taken>>

Mode(c) == IF c \in Streams THEN "streaming" ELSE "buffered"
Of(m)   == {c \in Calls : Mode(c) = m}

(* Without a layer nothing limits the stack.                               *)
Limit(m) == IF m \in Layered THEN MaxInFlight ELSE Cardinality(Calls)

Init ==
  /\ pc = [c \in Calls |-> "idle"]
  /\ count = [m \in Modes |-> 0]
  /\ last = {}
  /\ permits = [m \in Modes |-> Limit(m)]
  /\ reading = "idle" /\ total = 0 /\ before = 0 /\ taken = 0

Step(c, from, to) == pc[c] = from /\ pc' = [pc EXCEPT ![c] = to]

(* execute and execute_stream: the counter first, the snapshot next.       *)
Count(c) ==
  /\ Step(c, "idle", "counted")
  /\ count' = [count EXCEPT ![Mode(c)] = @ + 1]
  /\ UNCHANGED <<last, permits, Reader>>

Record(c) ==
  /\ Step(c, "counted", "recorded")
  /\ last' = {c}
  /\ UNCHANGED <<count, permits, Reader>>

CallUnready(c) ==
  /\ Step(c, "recorded", "wire")
  /\ UNCHANGED <<permits, count, last, Reader>>

ReadyUnchecked(c) ==
  /\ Step(c, "recorded", "wire")
  /\ permits' = [permits EXCEPT ![Mode(c)] = @ - 1]
  /\ UNCHANGED <<count, last, Reader>>

(* The permit of a clone that became ready travels with the call.          *)
Ready(c) ==
  /\ permits[Mode(c)] > 0
  /\ Step(c, "recorded", "wire")
  /\ permits' = [permits EXCEPT ![Mode(c)] = @ - 1]
  /\ UNCHANGED <<count, last, Reader>>

(* "service not ready", and a caller that stops waiting.                   *)
GiveUp(c) ==
  /\ Step(c, "recorded", "ended")
  /\ UNCHANGED <<count, last, permits, Reader>>

(* The response or a stream's headers are there, or the call is dropped.   *)
End(c) ==
  /\ Step(c, "wire", "ended")
  /\ permits' = [permits EXCEPT ![Mode(c)] = @ + 1]
  /\ UNCHANGED <<count, last, Reader>>

(* total_calls loads one counter, then the other.                          *)
ExecuteCount ==
  /\ reading = "idle"
  /\ reading' = "half"
  /\ total' = count["buffered"]
  /\ before' = count["buffered"] + count["streaming"]
  /\ UNCHANGED <<pc, count, last, permits, taken>>

StreamCount ==
  /\ reading = "half"
  /\ reading' = "read"
  /\ total' = total + count["streaming"]
  /\ UNCHANGED <<pc, count, last, permits, before, taken>>

CloneLastRecorded ==
  /\ taken < MaxTakes
  /\ last # {}
  /\ taken' = taken + 1
  /\ UNCHANGED <<pc, count, last, permits, reading, total, before>>

TakeLastRecorded ==
  /\ taken < MaxTakes
  /\ last # {}
  /\ last' = {}
  /\ taken' = taken + 1
  /\ UNCHANGED <<pc, count, permits, reading, total, before>>

Next ==
  \/ \E c \in Calls : Count(c) \/ Record(c) \/ Ready(c) \/ GiveUp(c) \/ End(c)
  \/ ExecuteCount
  \/ StreamCount
  \/ TakeLastRecorded

Spec == Init /\ [][Next]_vars

------------------------------------------------------------------------------
States == {"idle", "counted", "recorded", "wire", "ended"}

(* Type invariant.                                                         *)
TypeOK ==
  /\ pc \in [Calls -> States]
  /\ count \in [Modes -> Nat]
  /\ last \subseteq Calls
  /\ permits \in [Modes -> Nat]
  /\ reading \in {"idle", "half", "read"}
  /\ total \in Nat /\ before \in Nat /\ taken \in Nat

OnWire(m)   == {c \in Of(m) : pc[c] = "wire"}
Counted(m)  == {c \in Of(m) : pc[c] # "idle"}
Recorded    == {c \in Calls : pc[c] \in {"recorded", "wire", "ended"}}

(* The permits of a stack and its calls on the wire add up to its limit,   *)
(* however calls end, so that no more than the limit are on the wire and   *)
(* none is lost to a call that was dropped (ServiceBackend::execute).      *)
WireConserved ==
  \A m \in Modes : permits[m] + Cardinality(OnWire(m)) = Limit(m)

(* Though the counters and the snapshot are updated and read one by one:   *)
(* a counter says how many calls began; total_calls returns no less than   *)
(* what was counted when it began and no more than is counted by its end;  *)
(* and every snapshot that is held or was taken is of a call of its own,   *)
(* which was counted before (recording.rs).                                *)
RecordingHonest ==
  /\ \A m \in Modes : count[m] = Cardinality(Counted(m))
  /\ reading = "read" => before <= total /\ total <= count["buffered"] + count["streaming"]
  /\ last \subseteq Recorded
  /\ taken + Cardinality(last) <= Cardinality(Recorded)

=============================================================================
