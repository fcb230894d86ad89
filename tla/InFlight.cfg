CONSTANTS
  Requests <- MCRequests
  Asks <- MCAsks
  Permits = 2
  MaxRetries = 1
SPECIFICATION FairSpec
INVARIANTS
  TypeOK
  PermitsConserved
  NoneIdleWhileQueued
PROPERTIES
  KeepsRoom
  EveryRequestEnds
