SPECIFICATION RetentionSpec
CONSTANTS
  Seconds = 3
  MaxBackups = 8
INVARIANTS
  RetentionInv
CHECK_DEADLOCK FALSE
