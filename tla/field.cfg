SPECIFICATION Spec
CONSTANTS
  i1 = i1
  i2 = i2
  None = None
  Images = {i1, i2}
  Answers = {"TIMED_OUT", "OTHER_STATUS", "LATE", "OTHER_TEXT", "LEFT", "TOP_RIGHT", "INCONCLUSIVE"}
  ProviderStates = {"LIVE", "DISABLED", "BROKEN"}
  ExpectedValue = "TOP_RIGHT"
  MaxAttempts = 2
  AllowRepair = FALSE
  MaxSubmissions = 4
  MaxResumes = 2
  MaxFaults = 1
SYMMETRY ImageSymmetry
INVARIANTS
  VerdictIsObserved
  JudgedOncePerTear
  ChronologyAgrees
PROPERTIES
  DurableHistoryIsAppendOnly
\* Submissions and resumes are bounded, and the service waits for the next image.
CHECK_DEADLOCK FALSE
