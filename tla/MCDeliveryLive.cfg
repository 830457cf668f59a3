SPECIFICATION LiveSpec
CONSTANTS
  WebhookIDs = {1, 2}
  EmailIDs = {}
  Workers = {w1}
  Lease = 2
  BatchSize = 1
  RetryLimit = 2
  RetryDelays <- MCDelays
  MaxTime = 2
  MaxFaults = 2
  MaxRequeues = 1
PROPERTY EventuallySettled
