\* Two instances one after the other, with crashes anywhere and, in FAULTS, a store call that raises.
SPECIFICATION Spec
CONSTANTS
  None = None
  Instances = {A, B}
  Modes = {"CRASHES", "FAULTS"}
  MaxResumes = 2
  MaxEvents = 2
  MaxFaults = 1
SYMMETRY InstanceSymmetry
INVARIANTS
  AnsweredIsStored
  ProofBacked
  RedeliveryBounded
PROPERTIES
  NeverRegresses
\* A workflow that is complete or at the review gate is never resumed.
CHECK_DEADLOCK FALSE
