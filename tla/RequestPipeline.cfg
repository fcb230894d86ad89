\* The retry loop for every configuration of MCRequests: safety, the contract,
\* and termination under timeouts and cancellation.
SPECIFICATION FairSpec
CONSTANTS
  Requests <- MCRequests
  BodySizes <- MCBodySizes
INVARIANTS
  TypeOK
  RetryBudget
  BodySentWhole
  ExhaustedCountExact
  SettledOnce
  BufferedFailureReported
  RetryableNotSurrendered
PROPERTIES
  RetryAnnounced
  KeepsContract
  TimedRequestsEnd
  CancelEndsBuffered
