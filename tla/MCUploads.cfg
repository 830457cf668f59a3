SPECIFICATION FairSpec
CONSTANTS
  u1 = u1  u2 = u2  d1 = d1  d2 = d2
  f1 = f1  f2 = f2  f3 = f3
  server = server  cli = cli  cli2 = cli2  cli3 = cli3
  Procs = {server, cli, cli2, cli3}
  Server = server
  Uploads = {u1, u2}
  Deletes = {d1, d2}
  Recovery = recovery
  Files = {f1, f2, f3}
  FilesOf <- MCFilesOf
  TargetOf <- MCTargetOf
  FormDeletes = {d2}
  Deployments <- Both
  Quota = 2
  OverlapStartup = FALSE
  MaxFaults = 2
INVARIANTS
  Inv
  BytesPreserved
  NoOrphan
  SettledWhenQuiet
PROPERTY
  TasksEnd
CHECK_DEADLOCK FALSE
