CONSTANTS
  Policies <- MCPolicies
  Second = 3
  PowMax = 7
  DurationMax = 12
  NanosMax = 10
  Afters = {0, 1, 2}
  Slack = 1
SPECIFICATION Spec
INVARIANTS
  TypeOK
  RetryAfterExact
  
PROPERTY BackoffGrows
