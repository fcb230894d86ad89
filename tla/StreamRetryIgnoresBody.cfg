\* Violated by the code: see StreamRetryIgnoresBody in RequestPipeline.
SPECIFICATION Spec
CONSTANTS
  Requests <- MCPlainRequests
  BodySizes <- MCBodySizes
INVARIANT StreamRetryIgnoresBody
