\* Two request threads on one session, every answer of repository and channel,
\* and two changes by another writer.
SPECIFICATION Spec
CONSTANTS
  Threads = {t1, t2}
  WriteFaults = {"FAILED", "UNCERTAIN_LANDED", "UNCERTAIN_LOST"}
  ChannelOutcomes = {"RECEIPT", "UNCONFIRMED", "LANDED_UNCERTAIN", "LOST_UNCERTAIN", "REFUSED"}
  DriftValues = {"BEFORE", "AFTER"}
  MaxRequests = 4
  MaxReceipts = 3
  MaxDrifts = 2
  None = None
SYMMETRY ThreadSymmetry
INVARIANTS
  DeliveryIsReceipted
  AcceptedIsRecorded
  DeliveredIsTheDelta
PROPERTIES
  AcceptedHolds
\* Requests are bounded, and the session waits for the next one.
CHECK_DEADLOCK FALSE
