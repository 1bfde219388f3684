\* A good and a refused change over both transports; one failure, which can cost two instances that
\* handle deliveries of one message at once an attempt each, and a third attempt.
SPECIFICATION FairSpec
CONSTANTS
  None = None
  Instances = {a, b}
  Changes = {c, r}
  Rejected = {r}
  Workflows = {w1, w2, w3}
  MaxDeliveries = 3
  MaxSubmissions = 1
  MaxFailures = 1
INVARIANTS
  AcceptedOnce
  AnsweredIsDurable
  DuplicatesResolve
PROPERTIES
  Settles
\* When every message is settled nothing is left to deliver.
CHECK_DEADLOCK FALSE
