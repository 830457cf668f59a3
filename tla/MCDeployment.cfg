SPECIFICATION Spec
CONSTANTS
  Managers = {m1, m2}
  MaxVersion = 1
  MaxGen = 3
  MaxFaults = 3
SYMMETRY Symmetry
INVARIANTS
  Inv
  BeforeKept
  RunsAfterFailure
CHECK_DEADLOCK FALSE
