\* Three callers at once, every fault, crashes, and other writers that set any value.
SPECIFICATION Spec
CONSTANTS
  Callers = {c1, c2, c3}
  WriteFaults = {"FAILED", "UNCERTAIN_LANDED", "UNCERTAIN_LOST"}
  DriftValues = {"BEFORE", "AFTER", "OTHER"}
  MayCrash = TRUE
  MaxCalls = 4
  MaxDrifts = 2
SYMMETRY CallerSymmetry
INVARIANTS
  AtMostOneWrite
  EvidenceOfOwnWrite
PROPERTIES
  ImplementsAtMostOnce
\* Calls are bounded, and an action that is done asks for no other.
CHECK_DEADLOCK FALSE
