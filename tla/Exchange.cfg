CONSTANTS
  Reserved <- MCReserved
  Hostless <- MCHostless
  Malformed <- MCMalformed
  Numerals <- MCNumerals
  NotJson <- MCNotJson
  Shaped <- MCShaped
  Valid <- MCValid
  ErrorShaped <- MCErrorShaped
  Unprintable <- MCUnprintable
  Parsers <- MCParsers
  Programs <- MCPrograms

SPECIFICATION Spec

INVARIANTS
  TypeOK
  UrlFaithful
  LastWriteSent
  RegisteredValidated
  EndpointComplete
  ReadsChecked

CHECK_DEADLOCK FALSE
