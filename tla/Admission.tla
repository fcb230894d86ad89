------------------------------ MODULE Admission ------------------------------
(***************************************************************************)
(* What max_in_flight promises, whatever the semaphore does to keep it: at *)
(* most Limit requests are served at a time, the others stand in line,     *)
(* nobody stands in line while there is room, and a place that becomes     *)
(* free goes to the first in line in the same step.  Who stands in line    *)
(* may give up.                                                            *)
(***************************************************************************)
EXTENDS Naturals, Sequences, FiniteSets

CONSTANTS
  Customers,  (* those who may ask                                         *)
  Limit       (* places                                                    *)

VARIABLES
  served,     (* those who have a place                                    *)
  line        (* those who wait for one                                    *)

admissionVars == <<served, line>>

Open == served = {} /\ line = <<>>

IsNew(c) == c \notin served /\ \A i \in 1..Len(line) : line[i] # c

Enter(c) ==
  /\ IsNew(c)
  /\ line = <<>> /\ Cardinality(served) < Limit
  /\ served' = served \cup {c}
  /\ UNCHANGED line

StandInLine(c) ==
  /\ IsNew(c)
  /\ Cardinality(served) = Limit
  /\ line' = Append(line, c)
  /\ UNCHANGED served

Leave(c) ==
  /\ c \in served
  /\ \/ line = <<>> /\ served' = served \ {c} /\ UNCHANGED line
     \/ line # <<>> /\ served' = (served \ {c}) \cup {Head(line)} /\ line' = Tail(line)

GiveUp(i) ==
  /\ line' = SubSeq(line, 1, i - 1) \o SubSeq(line, i + 1, Len(line))
  /\ UNCHANGED served

AdmissionNext ==
  \/ \E c \in Customers : Enter(c) \/ StandInLine(c) \/ Leave(c)
  \/ \E i \in 1..Len(line) : GiveUp(i)

AdmissionSpec == Open /\ [][AdmissionNext]_admissionVars

=============================================================================
