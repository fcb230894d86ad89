---------------------------- MODULE MCTransport ----------------------------
(* Three buffered calls on a stack of one permit, two streaming ones on a  *)
(* stack without a layer.                                                  *)
EXTENDS Transport, TLC

CONSTANTS b1, b2, b3, s1, s2

MCCalls    == {b1, b2, b3, s1, s2}
MCStreams  == {s1, s2}
MCLayered  == {"buffered"}
MCSymmetry == Permutations({b1, b2, b3}) \cup Permutations({s1, s2})

=============================================================================
