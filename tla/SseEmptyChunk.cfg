\* Violated by the code: an empty chunk between a CR and its LF.
SPECIFICATION Spec
CONSTANTS
  MinChunk = 0
  MaxText = 5
INVARIANT EventsInOrder
