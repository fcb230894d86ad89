\* Violated by the code: see StreamFailureReported in RequestPipeline.
SPECIFICATION Spec
CONSTANTS
  Requests <- MCPlainRequests
  BodySizes <- MCBodySizes
INVARIANT StreamFailureReported
