\* Violated by the code: see CancelEndsStreaming in RequestPipeline.
SPECIFICATION FairSpec
CONSTANTS
  Requests <- MCPlainRequests
  BodySizes <- MCBodySizes
PROPERTY CancelEndsStreaming
