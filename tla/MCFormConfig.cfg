SPECIFICATION Spec
CONSTANTS
  Forms = {f1}
  Mailers = {m1}
  Captchas = {c1}
  None = None
  Editors = {t1}
  Requests = {r1}
  MaxNotes = 2
INVARIANTS
  Inv
  Safeguarded
  VerifiedAtCreation
CHECK_DEADLOCK FALSE
