\* Two artifacts that qualify one at a time, one drifted, one out of scope.
SPECIFICATION Spec
CONSTANTS
  None = None
  p = p
  q = q
  d = d
  x = x
  Artifacts = {p, q, d, x}
  InScope <- CatalogScope
  CatalogValue <- CatalogContent
  Images = {i1, i2, i3}
  ChannelOutcomes = {"RECEIPT", "LANDED_UNCERTAIN", "LOST_UNCERTAIN", "REFUSED"}
  MaxDispatches = 2
  MaxCalls = 2
SYMMETRY ImageSymmetry
INVARIANTS
  ProofSound
  ProofIffComplete
  LedgerMatchesRepository
  NoVerdictBeforeDelivery
PROPERTIES
  ImplementsLifecycle
