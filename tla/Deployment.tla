----------------------------- MODULE Deployment -----------------------------
(***************************************************************************)
(* The deployment commands of cmd/miniform (install, backup, update,       *)
(* reload, restore-db) on one host: two container names, the database      *)
(* file, the snapshots, and the compensations that follow every failing    *)
(* step.  Any step can fail; a command can also be killed between two.     *)
(*                                                                         *)
(* A container is known by its generation, a database by the version of    *)
(* its data and the generation that migrated its schema last.  Snapshots   *)
(* are kept in the order of their names, taken to be that of their times   *)
(* (module BackupRetention says when that is so).                          *)
(***************************************************************************)
EXTENDS Integers, Sequences, FiniteSets

CONSTANTS
  Managers,     \* processes that run deployment commands
  MaxVersion,   \* bound: writes of the application
  MaxGen,       \* bound: containers created
  MaxFaults     \* bound: faults in one behaviour

ASSUME DeploymentAssumption ==
  /\ MaxVersion \in Nat /\ MaxGen \in Nat /\ MaxFaults \in Nat
  /\ "nobody" \notin Managers

VARIABLES
  box,         \* the containers "base" and "next"
  db,          \* the database file
  backups,     \* snapshots, oldest first
  configured,  \* the Matcha configuration knows the application
  lock,        \* the manager that holds deployment.lock
  job,         \* each manager: command, step and local variables
  made,        \* containers created so far
  before,      \* ghost: the database when the running command stopped the application
  faults       \* ghost: the faults so far, their kinds numbered as they repeat

vars == <<box, db, backups, configured, lock, job, made, before, faults>>

Names == {"base", "next"}
Commands == {"install", "backup", "update", "reload", "restore-db"}
Nobody == "nobody"
NoBox == [gen |-> 0, state |-> "none"]
Missing == [version |-> -1, schema |-> 0]
Invalid == [version |-> -2, schema |-> 0]
Valid(content) == content.version >= 0
NoJob == [cmd |-> "none", pc |-> "idle", original |-> "none",
          staged |-> Missing, safety |-> Missing, data |-> FALSE]

Init ==
  /\ box = [n \in Names |-> NoBox]
  /\ db = Missing
  /\ backups = << >>
  /\ configured = FALSE
  /\ lock = Nobody
  /\ job = [m \in Managers |-> NoJob]
  /\ made = 0
  /\ before = Missing
  /\ faults = {}

Running == {n \in Names : box[n].state = "running"}
At(m, label) == job[m].pc = label
Goto(m, label) == job' = [job EXCEPT ![m].pc = label]
Failed == {f[1] : f \in faults}
Fault(kind) ==
  /\ Cardinality(faults) < MaxFaults
  /\ faults' = faults \cup {<<kind, Cardinality({f \in faults : f[1] = kind})>>}

\* The command returns: its deferred function releases the lock.
End(m) ==
  /\ job' = [job EXCEPT ![m] = NoJob]
  /\ lock' = Nobody
  /\ before' = Missing

(***************************************************************************)
(* Snapshots.                                                              *)
(***************************************************************************)

\* Mutant: the newest goes instead of the oldest.
Retained_DropsNewest(snapshots) ==
  IF Len(snapshots) > 3 THEN SubSeq(snapshots, 1, 3) ELSE snapshots

\* removeOldBackups keeps three.
Retained(snapshots) ==
  IF Len(snapshots) > 3
  THEN SubSeq(snapshots, Len(snapshots) - 2, Len(snapshots)) ELSE snapshots

createDatabaseBackup ==
  /\ Valid(db)
  /\ backups' = Retained(Append(backups, db))

(***************************************************************************)
(* runDeploymentCommand: the lock, and the first step of each command.     *)
(***************************************************************************)
FirstStep(cmd) ==
  CASE cmd = "install" -> "install"
    [] cmd = "backup" -> "snapshot"
    [] cmd = "update" -> "pull"
    [] cmd = "reload" -> "stop"
    [] cmd = "restore-db" -> "select"

\* A second command is refused while one runs; update, reload and restore-db
\* end at once without a configured application.
lockDeployment(m, cmd) ==
  /\ At(m, "idle") /\ lock = Nobody
  /\ cmd \in {"update", "reload", "restore-db"} => configured
  /\ lock' = m
  /\ job' = [job EXCEPT ![m].cmd = cmd, ![m].pc = FirstStep(cmd)]
  /\ UNCHANGED <<box, db, backups, configured, made, before, faults>>

\* The command gives up before it has changed anything: failed pull, no
\* backup to select or an invalid one, no working Docker, no room to back up.
Refuse(m) ==
  /\ \/ job[m].pc \in {"pull", "select", "install", "snapshot"} /\ Fault("refused")
     \/ At(m, "select") /\ backups = << >> /\ UNCHANGED faults
     \/ /\ At(m, "install") /\ UNCHANGED faults
        /\ IF configured THEN Running # {} \/ db = Invalid ELSE db # Missing
     \/ At(m, "snapshot") /\ ~Valid(db) /\ UNCHANGED faults
  /\ End(m)
  /\ UNCHANGED <<box, db, backups, configured, made>>

Pull(m) ==
  /\ At(m, "pull")
  /\ Goto(m, "stop")
  /\ UNCHANGED <<box, db, backups, configured, lock, made, before, faults>>

\* selectDatabaseBackup and prepareDatabaseRestore: a verified copy.
SelectBackup(m) ==
  /\ At(m, "select")
  /\ \E i \in DOMAIN backups :
       job' = [job EXCEPT ![m].staged = backups[i], ![m].pc = "stop"]
  /\ UNCHANGED <<box, db, backups, configured, lock, made, before, faults>>

\* The backup command, with the application running or not.
Backup(m) ==
  /\ At(m, "snapshot")
  /\ createDatabaseBackup
  /\ End(m)
  /\ UNCHANGED <<box, db, configured, made, faults>>

\* The application in a new container migrates the database, or creates it.
NewBox(state) == [gen |-> made + 1, state |-> state]
Migrated == [version |-> IF Valid(db) THEN db.version ELSE 0, schema |-> made + 1]
CanMake == made < MaxGen /\ made' = made + 1

InstallGuard(m) ==
  /\ At(m, "install")
  /\ IF configured THEN Running = {} /\ db # Invalid ELSE db = Missing
  /\ IF Valid(db) THEN createDatabaseBackup ELSE UNCHANGED backups

\* manager.Install (Matcha), after the pre-install backup.
Install(m) ==
  /\ InstallGuard(m)
  /\ CanMake
  /\ box' = [n \in Names |-> IF n = "base" THEN NewBox("running") ELSE NoBox]
  /\ db' = Migrated
  /\ configured' = TRUE
  /\ End(m)
  /\ UNCHANGED faults

InstallFails(m) ==
  /\ InstallGuard(m)
  /\ Fault("install")
  /\ configured' \in {configured, TRUE}
  /\ End(m)
  /\ UNCHANGED <<box, db, made>>

(***************************************************************************)
(* stopApplication.                                                        *)
(***************************************************************************)
NothingRunning(m) ==
  /\ At(m, "stop") /\ Running = {}
  /\ before' = db
  /\ Goto(m, "backup")
  /\ UNCHANGED <<box, db, backups, configured, lock, made, faults>>

StopContainer(m) ==
  /\ At(m, "stop")
  /\ \E n \in Running :
       /\ Running = {n}
       /\ box' = [box EXCEPT ![n].state = "stopped"]
       /\ job' = [job EXCEPT ![m].original = n,
                             ![m].pc = IF n = "next" THEN "clear" ELSE "backup"]
  /\ before' = db
  /\ UNCHANGED <<db, backups, configured, lock, made, faults>>

\* docker ps or stop fails or times out: no compensation, and the container
\* may have stopped all the same.
StopFails(m) ==
  /\ At(m, "stop")
  /\ Fault("stop")
  /\ \/ UNCHANGED box
     \/ \E n \in Running : box' = [box EXCEPT ![n].state = "stopped"]
  /\ End(m)
  /\ UNCHANGED <<db, backups, configured, made>>

\* The stopped container was "next": a stale "base" goes, "next" takes its
\* name.
ClearStale(m) ==
  /\ At(m, "clear")
  /\ box' = [box EXCEPT !["base"] = NoBox]
  /\ Goto(m, "rename")
  /\ UNCHANGED <<db, backups, configured, lock, made, before, faults>>

RenameContainer(m) ==
  /\ At(m, "rename")
  /\ box' = [n \in Names |-> IF n = "base" THEN box["next"] ELSE NoBox]
  /\ Goto(m, "backup")
  /\ UNCHANGED <<db, backups, configured, lock, made, before, faults>>

\* Either fails: restartPreviousApplication.
RenameFails(m) ==
  /\ job[m].pc \in {"clear", "rename"}
  /\ Fault("rename")
  /\ Goto(m, "restart")
  /\ UNCHANGED <<box, db, backups, configured, lock, made, before>>

(***************************************************************************)
(* After the stop: safety backup, replacement of the database, start.      *)
(***************************************************************************)
AfterBackup(m) == IF job[m].cmd = "restore-db" THEN "replace" ELSE "start"

SafetyBackup(m) ==
  /\ At(m, "backup")
  /\ createDatabaseBackup
  /\ job' = [job EXCEPT ![m].safety = db, ![m].pc = AfterBackup(m)]
  /\ UNCHANGED <<box, db, configured, lock, made, before, faults>>

\* backupDatabaseForRestore: nothing usable to save.
SkipBackup(m) ==
  /\ At(m, "backup") /\ job[m].cmd = "restore-db" /\ ~Valid(db)
  /\ Goto(m, AfterBackup(m))
  /\ UNCHANGED <<box, db, backups, configured, lock, made, before, faults>>

\* restartStoppedApplication: undo the stop, the database is untouched.  The
\* snapshot is there when only the removal of old ones failed.
BackupFails(m) ==
  /\ At(m, "backup")
  /\ IF Valid(db)
     THEN Fault("backup") /\ backups' \in {backups, Append(backups, db)}
     ELSE job[m].cmd # "restore-db" /\ UNCHANGED <<backups, faults>>
  /\ job' = [job EXCEPT ![m].pc = "remove", ![m].data = FALSE]
  /\ UNCHANGED <<box, db, configured, lock, made, before>>

replaceDatabase(m) ==
  /\ At(m, "replace")
  /\ db' = job[m].staged
  /\ Goto(m, "start")
  /\ UNCHANGED <<box, backups, configured, lock, made, before, faults>>

\* It fails before the rename, or after it.
ReplaceFails(m) ==
  /\ At(m, "replace")
  /\ Fault("replace")
  /\ db' \in {db, job[m].staged}
  /\ job' = [job EXCEPT ![m].pc = "remove", ![m].data = TRUE]
  /\ UNCHANGED <<box, backups, configured, lock, made, before>>

\* Reload (Matcha): a replacement runs under either name, the old one is gone.
startDeployment(m) ==
  /\ At(m, "start")
  /\ CanMake
  /\ \E n \in Names : box' = [o \in Names |-> IF o = n THEN NewBox("running") ELSE NoBox]
  /\ db' = Migrated
  /\ End(m)
  /\ UNCHANGED <<backups, configured, faults>>

\* Reload fails: perhaps with a replacement under "next" that has run, or
\* still runs; the previous container keeps its place.
StartFails(m) ==
  /\ At(m, "start")
  /\ Fault("start")
  /\ \/ UNCHANGED <<box, db, made>>
     \/ /\ CanMake
        /\ \E state \in {"stopped", "running"} : box' = [box EXCEPT !["next"] = NewBox(state)]
        /\ db' = Migrated
  /\ job' = [job EXCEPT ![m].pc = "remove", ![m].data = TRUE]
  /\ UNCHANGED <<backups, configured, lock, before>>

(***************************************************************************)
(* rollbackRestore and restartStoppedApplication.                          *)
(***************************************************************************)
AfterRemove(m) == IF job[m].data THEN "restore" ELSE "restart"

\* Mutant: the failed replacement stays.
RemoveReplacement_Keeps(m) ==
  /\ At(m, "remove")
  /\ Goto(m, IF job[m].original = "next" THEN "renameback" ELSE AfterRemove(m))
  /\ UNCHANGED <<box, db, backups, configured, lock, made, before, faults>>

\* prepareApplicationRollback: first remove what is under "next".
RemoveReplacement(m) ==
  /\ At(m, "remove")
  /\ box' = [box EXCEPT !["next"] = NoBox]
  /\ Goto(m, IF job[m].original = "next" THEN "renameback" ELSE AfterRemove(m))
  /\ UNCHANGED <<db, backups, configured, lock, made, before, faults>>

RenameBack(m) ==
  /\ At(m, "renameback")
  /\ box' = [n \in Names |-> IF n = "next" THEN box["base"] ELSE NoBox]
  /\ Goto(m, AfterRemove(m))
  /\ UNCHANGED <<db, backups, configured, lock, made, before, faults>>

RestoreSafety(m) ==
  /\ At(m, "restore") /\ Valid(job[m].safety)
  /\ db' = job[m].safety
  /\ Goto(m, "restart")
  /\ UNCHANGED <<box, backups, configured, lock, made, before, faults>>

\* "previous database was not valid; application remains stopped"
GiveUp(m) ==
  /\ At(m, "restore") /\ ~Valid(job[m].safety)
  /\ End(m)
  /\ UNCHANGED <<box, db, backups, configured, made, faults>>

\* Mutant: an application that ran as "next" is forgotten.
restartPreviousApplication_BaseOnly(m) ==
  /\ At(m, "restart")
  /\ box' = IF job[m].original # "base" THEN box
            ELSE [box EXCEPT !["base"].state = "running"]
  /\ End(m)
  /\ UNCHANGED <<db, backups, configured, made, faults>>

restartPreviousApplication(m) ==
  /\ At(m, "restart")
  /\ box' = IF job[m].original = "none" THEN box
            ELSE [box EXCEPT ![job[m].original].state = "running"]
  /\ End(m)
  /\ UNCHANGED <<db, backups, configured, made, faults>>

\* A compensating step fails: the rest of the rollback is given up.
RollbackFails(m) ==
  /\ job[m].pc \in {"remove", "renameback", "restore", "restart"}
  /\ Fault("rollback")
  /\ IF At(m, "restore") /\ Valid(job[m].safety)
     THEN db' \in {db, job[m].safety} ELSE UNCHANGED db
  /\ End(m)
  /\ UNCHANGED <<box, backups, configured, made>>

(***************************************************************************)
(* Environment.                                                            *)
(***************************************************************************)

\* The application stores something.
AppWrites ==
  /\ Running # {} /\ Valid(db) /\ db.version < MaxVersion
  /\ db' = [db EXCEPT !.version = @ + 1]
  /\ UNCHANGED <<box, backups, configured, lock, job, made, before, faults>>

\* The database disappears or is damaged, up to the safety backup.
LoseDatabase ==
  /\ \A m \in Managers : job[m].pc \in {"idle", "select", "stop", "backup"}
  /\ Fault("database")
  /\ db' \in {Missing, Invalid}
  /\ UNCHANGED <<box, backups, configured, lock, job, made, before>>

\* The manager is killed; the kernel releases its lock.
Kill(m) ==
  /\ ~At(m, "idle")
  /\ Fault("kill")
  /\ End(m)
  /\ UNCHANGED <<box, db, backups, configured, made>>

Stop(m) ==
  \/ NothingRunning(m) \/ StopContainer(m) \/ StopFails(m)
  \/ ClearStale(m) \/ RenameContainer(m) \/ RenameFails(m)

Replace(m) ==
  \/ SafetyBackup(m) \/ SkipBackup(m) \/ BackupFails(m)
  \/ replaceDatabase(m) \/ ReplaceFails(m)
  \/ startDeployment(m) \/ StartFails(m)

Rollback(m) ==
  \/ RemoveReplacement(m) \/ RenameBack(m) \/ RestoreSafety(m) \/ GiveUp(m)
  \/ restartPreviousApplication(m) \/ RollbackFails(m)

Next ==
  \/ \E m \in Managers :
       \/ \E cmd \in Commands : lockDeployment(m, cmd)
       \/ Refuse(m) \/ Pull(m) \/ SelectBackup(m) \/ Backup(m)
       \/ Install(m) \/ InstallFails(m)
       \/ Stop(m) \/ Replace(m) \/ Rollback(m)
       \/ Kill(m)
  \/ AppWrites \/ LoseDatabase

Spec == Init /\ [][Next]_vars

(***************************************************************************)
(* Properties.                                                             *)
(***************************************************************************)
Contents == [version : Nat \cup {-1, -2}, schema : Nat]
Labels == {"idle", "install", "snapshot", "pull", "select", "stop", "clear", "rename",
           "backup", "replace", "start", "remove", "renameback", "restore", "restart"}

\* Types: also, exactly the manager that holds the lock has a command, so two
\* commands never run their steps at the same time (deployment.go:28).
TypeOK ==
  /\ box \in [Names -> [gen : Nat, state : {"none", "stopped", "running"}]]
  /\ db \in Contents
  /\ backups \in Seq(Contents)
  /\ configured \in BOOLEAN
  /\ lock \in Managers \cup {Nobody}
  /\ job \in [Managers -> [cmd : Commands \cup {"none"}, pc : Labels,
                          original : Names \cup {"none"}, staged : Contents,
                          safety : Contents, data : BOOLEAN]]
  /\ \A m \in Managers : At(m, "idle") <=> lock # m
  /\ made \in Nat
  /\ before \in Contents

\* Two application processes never share the database: a failed replacement
\* is gone before its predecessor starts, across killed commands too
\* (docs/cli.md:130, deployment.go:306).
OneProcess == \A n, o \in Running : n = o

\* An application never runs on a database that a later one migrated: after a
\* failed update the old container is started only on the snapshot taken when
\* it was stopped (deployment.go:343).
SchemaNotAhead == \A n \in Running : db.schema <= box[n].gen

\* What holds between any two steps of a command, killed commands included:
\* types, one process, and a schema that process knows (deployment.go:236-347).
Inv == TypeOK /\ OneProcess /\ SchemaNotAhead

\* What the application had stored when a command stopped it is in the
\* database or in a snapshot until the command ends, whichever steps fail:
\* neither the retention nor a half-done restore loses it.
BeforeKept ==
  "database" \notin Failed =>
    \A m \in Managers :
      job[m].pc \in {"backup", "replace", "start", "remove", "renameback", "restore", "restart"}
        => before = db \/ \E i \in DOMAIN backups : backups[i] = before

\* A failed pull, safety backup, replacement or start is always compensated:
\* when the command is over the installed application runs again, under
\* whichever of its names (docs/installation.md:132).
RunsAfterFailure ==
  /\ lock = Nobody /\ configured
  /\ Failed \subseteq {"refused", "backup", "replace", "start"}
  => Running # {}
=============================================================================
