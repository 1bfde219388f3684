\* Two racing requests, an upload at the same time, one death and one failing store call.
SPECIFICATION Spec
CONSTANTS
  None = None
  Generators = {G1, G2}
  MaxRequests = 2
  MaxEvents = 2
  MaxDispatches = 2
  MaxCrashes = 1
  MaxFaults = 1
INVARIANTS
  ProofTellsTruth
  CompleteIsProven
PROPERTIES
  RacersComplete
\* A workflow at the review gate, and a complete one, may have nothing left to do.
CHECK_DEADLOCK FALSE
