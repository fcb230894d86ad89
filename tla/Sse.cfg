\* The events of every text of up to six tokens in every cut: two blocks, or
\* one that ends in a CRLF blank line, with every line end inside a chunk and
\* across two, and blanks at either end of lines and blocks.
SPECIFICATION Spec
CONSTANTS
  MinChunk = 1
  MaxText = 6
INVARIANTS
  TypeOK
  EventsInOrder
  EventsOnTime
  StreamEqualsBuffer
