\* Three attempts with one repair, two artifacts and a stranger, up to two candidates.
SPECIFICATION Spec
CONSTANTS
  None = None
  Artifacts = {p, q}
  Strangers = {s}
  Catalogs <- AllButOne
  MaxAttempts = 3
  AllowRepair = TRUE
  MaxCandidates = 2
INVARIANTS
  SpendBounded
  DecisionJustified
PROPERTIES
  Concludes
\* An analysis ends with its decision.
CHECK_DEADLOCK FALSE
