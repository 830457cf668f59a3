SPECIFICATION Spec
CONSTANTS
  Processes = {"server", "cli"}
  Server = "server"
  Forms = {"f1", "f2"}
  Databases <- MCDatabases
  Requests = {r1}
  Assignable = {"f1"}
  MaxEdits = 1
  MaxStarts = 2
  MaxFaults = 1
INVARIANTS
  Inv
  DatabaseOutlivesWork
  ServesPrepared
  EffectKept
  EditsSurvive
  InitialPasswordMustGo
PROPERTY SignalStops
