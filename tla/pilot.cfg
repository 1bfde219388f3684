\* Two tabs on one run, two photographs, a front whose restart kills its links.
SPECIFICATION PilotSpec
CONSTANTS
  Nothing = Nothing
  Tabs = {t1, t2}
  Workflows = {w1}
  Photos = {p1, p2}
  DurableKey = FALSE
  MaxAbandoned = 1
SYMMETRY PilotSymmetry
INVARIANTS
  PagesTellTruth
  LinkMeansDelivered
  AnalysedOnce
