SPECIFICATION AdminSpec
CONSTANTS
  b1 = b1  b2 = b2  p1 = p1  p2 = p2
  Emails = {e1, e2}
  Passwords = {p1, p2}
  DefaultAdminEmail = e1
  Boots = {b1, b2}
  BootPassword <- MCBootPassword
  Logins = {l1, l2}
  Changes = {c1, r1}
  Requests = {r1}
  SessionTimeout = 1
  MaxTime = 2
SYMMETRY Symmetry
INVARIANTS
  AdminInv
  SessionsMatchCredentials
  InitialPasswordKnown
  StaleTokensPowerless
  TemporaryPasswordGate
CHECK_DEADLOCK FALSE
