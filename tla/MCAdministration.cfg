SPECIFICATION AdministrationSpec
CONSTANTS
  Keep = Keep  Blank = Blank  Other = Other
  Operators = {o1, o2}
  Names = {n1, n2}
  Secrets = {s1, s2}
  MaxRows = 2
  Contents <- MCContents
  MaxEntries = 2
  MaxBytes = 3
  MaxFields = 2
  MaxReceived = 3
SYMMETRY Symmetry
INVARIANTS
  Inv
  ToldTheTruth
  SecretsKept
  ExportFaithful
CHECK_DEADLOCK FALSE
