CONSTANTS
  b1 = b1
  b2 = b2
  b3 = b3
  s1 = s1
  s2 = s2
  Calls <- MCCalls
  Streams <- MCStreams
  Layered <- MCLayered
  MaxInFlight = 1
  MaxTakes = 2

SPECIFICATION Spec
SYMMETRY MCSymmetry

INVARIANTS
  TypeOK
  WireConserved
  RecordingHonest

CHECK_DEADLOCK FALSE
