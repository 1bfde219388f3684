\* Two sessions, two artifacts, two images, a channel that may lose or misreport.
SPECIFICATION PageSpec
CONSTANTS
  None = None
  p = p
  d = d
  Artifacts = {p, d}
  InScope = {p, d}
  CatalogValue <- CatalogContent
  Images = {i1, i2}
  ChannelOutcomes = {"RECEIPT", "LANDED_UNCERTAIN", "LOST_UNCERTAIN"}
  MaxDispatches = 2
  MaxCalls = 2
  MaxSessions = 2
SYMMETRY ImageSymmetry
INVARIANTS
  HeadlineTellsTruth
  PanelsAgree
