SPECIFICATION Spec
CONSTANTS
  u1 = u1  u2 = u2  d1 = d1  d2 = d2
  f1 = f1  f2 = f2  f3 = f3
  server = server  cli = cli  cli2 = cli2  cli3 = cli3
  Procs = {server, cli, cli2, cli3}
  Server = server
  Uploads = {u1, u2}
  Deletes = {d1}
  Recovery = recovery
  Files = {f1, f3}
  FilesOf <- MCFilesOfOne
  TargetOf <- MCTargetOfOne
  FormDeletes = {}
  Deployments <- Shipped
  Quota = 2
  OverlapStartup = TRUE
  MaxFaults = 0
INVARIANT BytesPreserved
CHECK_DEADLOCK FALSE
