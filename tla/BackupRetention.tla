-------------------------- MODULE BackupRetention --------------------------
(***************************************************************************)
(* The directory of database snapshots (createDatabaseBackup): a snapshot  *)
(* is named after the second it was taken in, and after an index when that *)
(* name is taken; the directory is then pruned in the order of the names.  *)
(***************************************************************************)
EXTENDS Integers, FiniteSets, FiniteSetsExt

CONSTANTS
  Seconds,     \* bound: the clock runs over 1 .. Seconds
  MaxBackups   \* bound: snapshots taken

ASSUME RetentionAssumption == Seconds \in Nat \ {0} /\ MaxBackups \in Nat

VARIABLES
  clock,   \* the current second
  files,   \* the directory; serial is a ghost, the order of creation
  taken,   \* ghost: snapshots taken so far
  busy     \* ghost: snapshots taken in each second

retentionVars == <<clock, files, taken, busy>>

RetentionInit ==
  /\ clock = 1
  /\ files = {}
  /\ taken = 0
  /\ busy = [s \in 1 .. Seconds |-> 0]

\* The first free name of the second: no index, then _000001, _000002, ...
availableBackupPath(directory, now) ==
  LET used == {f.index : f \in {g \in directory : g.second = now}}
  IN  [second |-> now, index |-> Min((0 .. Cardinality(used)) \ used)]

\* backup_<second>.db sorts before backup_<second>_000001.db.
SortsBefore(f, g) ==
  f.second < g.second \/ (f.second = g.second /\ f.index < g.index)

\* Mutant: off by one.
removeOldBackups_Two(directory) ==
  {f \in directory : Cardinality({g \in directory : SortsBefore(f, g)}) < 2}

\* The first names go until three are left.
removeOldBackups(directory) ==
  {f \in directory : Cardinality({g \in directory : SortsBefore(f, g)}) < 3}

Snapshot ==
  LET name == availableBackupPath(files, clock)
  IN  [second |-> name.second, index |-> name.index, serial |-> taken + 1]

Taken ==
  /\ taken < MaxBackups
  /\ taken' = taken + 1
  /\ busy' = [busy EXCEPT ![clock] = @ + 1]
  /\ UNCHANGED clock

\* createDatabaseBackup, from the name on.
SnapshotAndPrune ==
  /\ Taken
  /\ files' = removeOldBackups(files \cup {Snapshot})

\* An old snapshot cannot be removed: some of those due are still there.
RemovalFails ==
  /\ Taken
  /\ LET directory == files \cup {Snapshot}
         due == directory \ removeOldBackups(directory)
     IN  \E left \in due :
           files' = directory \ {f \in due : SortsBefore(f, left)}

Tick ==
  /\ clock < Seconds
  /\ clock' = clock + 1
  /\ UNCHANGED <<files, taken, busy>>

RetentionNext == SnapshotAndPrune \/ RemovalFails \/ Tick

RetentionSpec == RetentionInit /\ [][RetentionNext]_retentionVars

\* Types: also, two snapshots never share a name, whatever was pruned in
\* between (deployment.go:640; deployment_test.go:384 tries two).
RetentionTypeOK ==
  /\ clock \in 1 .. Seconds
  /\ taken \in 0 .. MaxBackups
  /\ busy \in [1 .. Seconds -> 0 .. MaxBackups]
  /\ files \subseteq [second : 1 .. Seconds, index : 0 .. MaxBackups, serial : 1 .. MaxBackups]
  /\ \A f, g \in files : f.second = g.second /\ f.index = g.index => f = g

\* The last three taken are in the directory.
KeepsNewest ==
  \A serial \in 1 .. taken : serial > taken - 3 => \E f \in files : f.serial = serial

\* "keeps the three newest snapshots" (docs/cli.md:130), as long as no second
\* sees more than four, also when removals failed before (deployment.go:703).
\* The fifth takes the name the pruning has freed, sorts first and is pruned.
KeepsNewestUncrowded == (\A s \in 1 .. Seconds : busy[s] <= 4) => KeepsNewest

\* Names stay unique and the newest snapshots stay (deployment.go:633-720).
RetentionInv == RetentionTypeOK /\ KeepsNewestUncrowded
=============================================================================
