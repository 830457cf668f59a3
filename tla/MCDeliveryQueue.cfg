SPECIFICATION Spec
CONSTANTS
  WebhookIDs = {1}
  EmailIDs = {2}
  Workers = {w1, w2}
  Lease = 2
  BatchSize = 2
  RetryLimit = 2
  RetryDelays <- MCDelaysShort
  MaxTime = 3
  MaxFaults = 1
  MaxRequeues = 1
SYMMETRY Symmetry
INVARIANTS
  Inv
  ClaimExclusive
  LostOnlyByExpiry
  AckAccounting
PROPERTY ImplementsLedger
