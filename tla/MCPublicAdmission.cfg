SPECIFICATION Spec
CONSTANTS
  good = good  elsewhere = elsewhere
  r1 = r1  r2 = r2  r3 = r3
  Requests = {r1, r2, r3}
  Tokens = {good, elsewhere}
  Inputs <- MCInputs
  Verdict <- MCVerdict
  Settings <- MCSettings
  GlobalLimit = 2
  ClientLimit = 1
  Expiration = 2
  SweepInterval = 1
  attempts = 2
  MaxTime = 3
  MaxEdits = 1
  MaxFaults = 2
SYMMETRY Symmetry
INVARIANTS
  Inv
  AnswersAreTrue
  StoredOnlyVerified
  OneRowPerToken
  RepetitionHarmless
  RateHolds
CHECK_DEADLOCK FALSE
