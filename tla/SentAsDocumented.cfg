CONSTANTS
  Reserved <- MCReserved
  Hostless <- MCHostless
  Malformed <- MCMalformed
  Numerals <- MCNumerals
  NotJson <- MCNotJson
  Shaped <- MCShaped
  Valid <- MCValid
  ErrorShaped <- MCErrorShaped
  Unprintable <- MCUnprintable
  Parsers <- MCParsers
  Programs <- DocumentedPrograms

SPECIFICATION Spec

INVARIANT SentAsDocumented

CHECK_DEADLOCK FALSE
