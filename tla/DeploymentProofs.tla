-------------------------- MODULE DeploymentProofs --------------------------
(***************************************************************************)
(* Proofs about Deployment, for any number of managers, containers and     *)
(* versions of the data.                                                   *)
(***************************************************************************)
EXTENDS Deployment, BackupRetention, SequenceTheorems, FiniteSetTheorems,
        WellFoundedInduction, TLAPS

(***************************************************************************)
(* The inductive invariant: the snapshots, the installation, and where the *)
(* command that holds the lock is.                                         *)
(***************************************************************************)
Early == {"install", "snapshot", "pull", "select", "stop"}
Stopped == {"clear", "rename", "backup", "replace", "start", "renameback", "restore", "restart"}

\* What RunsAfterFailure allows to fail, and BeforeKept.
Benign == \A f \in faults : f[1] \in {"refused", "backup", "replace", "start"}
DatabaseKept == \A f \in faults : f[1] # "database"

BackupsInv ==
  /\ \A i \in DOMAIN backups : Valid(backups[i])
  /\ DatabaseKept /\ backups # <<>> => Valid(db)

Installed ==
  /\ Benign /\ configured /\ lock = Nobody => Running # {}

\* Where the container is that the command stopped.
Old(m) ==
  IF /\ job[m].original = "next"
     /\ job[m].pc \in {"backup", "replace", "start", "remove", "renameback"}
  THEN "base" ELSE job[m].original

InBackups == \E i \in DOMAIN backups : backups[i] = before

\* What is there before the application was stopped.
EarlyInv(m) ==
  LET j == job[m] IN
  j.pc \in Early =>
    /\ j.original = "none" /\ j.safety = Missing /\ ~j.data
    /\ j.pc \in {"pull", "select", "stop"} => configured
    /\ Benign /\ configured => Running # {}

\* What runs afterwards: nothing, or a replacement that is to go.
StoppedInv(m) ==
  LET j == job[m] IN
  /\ j.pc \in Stopped => Running = {}
  /\ j.pc = "remove" => Running \subseteq IF j.data THEN {"next"} ELSE {}
  /\ j.pc \in {"clear", "rename", "renameback"} => j.original = "next"
  /\ j.pc = "restore" => j.data
  /\ j.pc \in Stopped \cup {"remove"} /\ Benign => j.original # "none"

\* The stopped container knows the schema of what it is to be started on.
SchemaInv(m) ==
  LET j == job[m] IN
  j.pc \in Stopped \cup {"remove"} /\ j.original # "none" =>
    /\ j.safety.schema <= box[Old(m)].gen
    /\ \/ j.pc \in {"clear", "rename", "backup", "restart"}
       \/ j.pc \in {"remove", "renameback"} /\ ~j.data
       => db.schema <= box[Old(m)].gen

\* What was there is in the database or in a snapshot.
BeforeInv(m) ==
  LET j == job[m] IN
  DatabaseKept =>
    /\ j.cmd = "restore-db" /\ j.pc # "select" => Valid(j.staged) /\ backups # <<>>
    /\ j.pc = "replace" => j.cmd = "restore-db"
    /\ j.pc \in {"clear", "rename", "backup"} => before = db
    /\ \/ j.pc \in {"replace", "start"}
       \/ j.pc \in {"remove", "renameback", "restore"} /\ j.data
       => InBackups /\ Valid(j.safety)
    /\ j.pc \in {"remove", "renameback", "restart"} => before = db \/ InBackups

JobInv(m) ==
  IF At(m, "idle") THEN job[m] = NoJob
  ELSE EarlyInv(m) /\ StoppedInv(m) /\ SchemaInv(m) /\ BeforeInv(m)

IInv ==
  /\ TypeOK /\ BackupsInv /\ Installed /\ OneProcess /\ SchemaNotAhead
  /\ \A m \in Managers : JobInv(m)

(***************************************************************************)
(* Types.                                                                  *)
(***************************************************************************)
JobType == [cmd : Commands \cup {"none"}, pc : Labels, original : Names \cup {"none"},
            staged : Contents, safety : Contents, data : BOOLEAN]

LEMMA Constants ==
  /\ Missing \in Contents /\ Invalid \in Contents /\ ~Valid(Missing) /\ ~Valid(Invalid)
  /\ NoJob \in JobType /\ NoJob.pc = "idle" /\ NoJob.cmd = "none"
  /\ NoBox \in [gen : Nat, state : {"none", "stopped", "running"}]
  /\ Missing.schema = 0 /\ Invalid.schema = 0 /\ Nobody \notin Managers
BY DeploymentAssumption
   DEF Missing, Invalid, Contents, Valid, NoJob, JobType, Labels, Names, NoBox, Nobody

LEMMA ThreeLong ==
  ASSUME NEW S, NEW u \in Seq(S), Len(u) = 3
  PROVE  DOMAIN u = 1 .. 3 /\ u # << >>
<1>1. DOMAIN u = 1 .. Len(u)
  BY LenProperties
<1>2. Len(<< >>) = 0
  BY EmptySeq
<1> QED
  BY <1>1, <1>2

\* The snapshot just taken is there, and nothing new but it.
LEMMA RetainedIs ==
  ASSUME NEW s \in Seq(Contents), NEW c \in Contents
  PROVE  LET r == Retained(Append(s, c)) IN
         /\ r \in Seq(Contents) /\ r # << >>
         /\ \E i \in DOMAIN r : r[i] = c
         /\ \A i \in DOMAIN r : r[i] = c \/ \E k \in DOMAIN s : r[i] = s[k]
<1> DEFINE t == Append(s, c)
           Fine(r) == /\ r \in Seq(Contents) /\ r # << >>
                      /\ \E i \in DOMAIN r : r[i] = c
                      /\ \A i \in DOMAIN r : r[i] = c \/ \E k \in DOMAIN s : r[i] = s[k]
<1> SUFFICES Fine(Retained(t))
  OBVIOUS
<1>1. /\ t \in Seq(Contents) /\ Len(t) = Len(s) + 1 /\ Len(s) \in Nat
      /\ t[Len(t)] = c /\ \A i \in 1 .. Len(s) : t[i] = s[i]
  BY AppendProperties, LenProperties
<1>2. /\ DOMAIN t = 1 .. Len(t) /\ DOMAIN s = 1 .. Len(s) /\ t # << >>
  BY <1>1, AppendProperties, LenProperties
<1> HIDE DEF t
<1>3. \A i \in 1 .. Len(t) : t[i] = c \/ \E k \in DOMAIN s : t[i] = s[k]
  BY <1>1, <1>2
<1>4. CASE ~(Len(t) > 3)
  BY <1>1, <1>2, <1>3, <1>4 DEF Retained
<1>5. CASE Len(t) > 3
  <2> DEFINE low == Len(t) - 2
             u == SubSeq(t, low, Len(t))
  <2>1. low \in Int /\ Len(t) \in Int /\ Len(t) - low + 1 = 3 /\ low <= Len(t)
    BY <1>1, <1>5
  <2>2. \A i \in low .. Len(t) : i \in 1 .. Len(t) /\ t[i] \in Contents
    BY <1>1, <1>5, <2>1, ElementOfSeq
  <2>3. /\ u \in Seq(Contents) /\ Len(u) = 3
        /\ \A i \in 1 .. 3 : u[i] = t[low + i - 1]
    <3> HIDE DEF low
    <3> QED
      BY <2>1, <2>2, SubSeqProperties
  <2>4. Retained(t) = u
    BY <1>5 DEF Retained
  <2> HIDE DEF u
  <2>5. DOMAIN u = 1 .. 3 /\ u # << >>
    BY <2>3, ThreeLong
  <2>6. \A i \in 1 .. 3 : low + i - 1 \in 1 .. Len(t)
    BY <1>1, <1>5
  <2>7. u[3] = c
    BY <1>1, <2>1, <2>3
  <2> HIDE DEF low
  <2> QED
    BY <1>3, <2>3, <2>4, <2>5, <2>6, <2>7
<1> QED
  BY <1>4, <1>5

LEMMA Holder ==
  ASSUME TypeOK, NEW m \in Managers, ~At(m, "idle")
  PROVE  /\ lock = m /\ \A o \in Managers \ {m} : At(o, "idle")
         /\ job[m] \in JobType /\ job = [o \in Managers |-> job[o]]
BY DEF TypeOK, JobType

\* The rest of the state, as a step leaves it.
WorldType ==
  /\ box \in [Names -> [gen : Nat, state : {"none", "stopped", "running"}]]
  /\ db \in Contents /\ backups \in Seq(Contents) /\ configured \in BOOLEAN
  /\ made \in Nat /\ before \in Contents

\* A step of the command that goes on, and the last one.
LEMMA MoveTyped ==
  ASSUME TypeOK, WorldType', NEW m \in Managers, ~At(m, "idle"), UNCHANGED lock,
         NEW j \in JobType, j.pc # "idle", job' = [job EXCEPT ![m] = j]
  PROVE  TypeOK'
<1>1. job' \in [Managers -> JobType] /\ job'[m] = j /\ \A o \in Managers \ {m} : job'[o] = job[o]
  BY DEF TypeOK, JobType
<1>2. \A o \in Managers : At(o, "idle")' <=> lock' # o
  BY <1>1, Holder DEF TypeOK, At
<1> QED
  BY <1>1, <1>2 DEF TypeOK, WorldType, JobType

LEMMA EndTyped ==
  ASSUME TypeOK, WorldType', NEW m \in Managers, ~At(m, "idle"), End(m)
  PROVE  /\ TypeOK'
         /\ \A o \in Managers : job'[o] = NoJob \/ (job'[o] = job[o] /\ At(o, "idle"))
<1>1. /\ job' = [job EXCEPT ![m] = NoJob] /\ lock' = Nobody
      /\ lock = m /\ \A o \in Managers \ {m} : At(o, "idle")
  BY Holder DEF End
<1>2. /\ job' \in [Managers -> JobType] /\ job'[m] = NoJob
      /\ \A o \in Managers \ {m} : job'[o] = job[o]
  BY <1>1, Constants DEF TypeOK, JobType
<1>3. \A o \in Managers : At(o, "idle")' <=> lock' # o
  BY <1>1, <1>2, Constants DEF At
<1> QED
  BY <1>1, <1>2, <1>3, Constants DEF TypeOK, WorldType, JobType

(***************************************************************************)
(* What a step has to show.  The steps of a command leave the jobs of the  *)
(* other managers alone: none of them has one.                             *)
(***************************************************************************)
Moves(m) ==
  /\ UNCHANGED lock
  /\ job' = [job EXCEPT ![m] = job'[m]] /\ job'[m] \in JobType /\ ~At(m, "idle")'

Here(m) ==
  /\ TypeOK /\ BackupsInv /\ OneProcess /\ SchemaNotAhead
  /\ ~At(m, "idle") /\ job[m] \in JobType
  /\ EarlyInv(m) /\ StoppedInv(m) /\ SchemaInv(m) /\ BeforeInv(m)

LEMMA HereIs ==
  ASSUME IInv, NEW m \in Managers, ~At(m, "idle")
  PROVE  Here(m)
BY Holder DEF IInv, JobInv, Here

LEMMA MoveKeeps ==
  ASSUME IInv, NEW m \in Managers, ~At(m, "idle"), Moves(m), WorldType',
         BackupsInv', OneProcess', SchemaNotAhead',
         EarlyInv(m)', StoppedInv(m)', SchemaInv(m)', BeforeInv(m)'
  PROVE  IInv'
<1>1. lock = m /\ lock # Nobody /\ \A o \in Managers \ {m} : At(o, "idle")
  BY Holder, Constants DEF IInv
<1>2. TypeOK'
  BY MoveTyped DEF IInv, Moves, At
<1>3. Installed'
  BY <1>1 DEF Installed, Moves
<1>4. ASSUME NEW o \in Managers PROVE JobInv(o)'
  <2>1. CASE o = m
    BY <2>1 DEF JobInv, Moves
  <2>2. CASE o # m
    <3>1. job'[o] = job[o] /\ At(o, "idle") /\ At(o, "idle")'
      BY <1>1, <2>2 DEF Moves, IInv, TypeOK, At
    <3> QED
      BY <3>1 DEF JobInv, IInv
  <2> QED
    BY <2>1, <2>2
<1> QED
  BY <1>2, <1>3, <1>4 DEF IInv

LEMMA EndKeeps ==
  ASSUME IInv, NEW m \in Managers, ~At(m, "idle"), End(m), WorldType',
         BackupsInv', Installed', OneProcess', SchemaNotAhead'
  PROVE  IInv'
<1>1. /\ TypeOK'
      /\ \A o \in Managers : job'[o] = NoJob \/ (job'[o] = job[o] /\ At(o, "idle"))
  BY EndTyped DEF IInv
<1>2. ASSUME NEW o \in Managers PROVE JobInv(o)'
  <2>1. CASE job'[o] = NoJob
    BY <2>1, Constants DEF JobInv, At
  <2>2. CASE job'[o] = job[o] /\ At(o, "idle")
    BY <2>2 DEF JobInv, At, IInv
  <2> QED
    BY <1>1, <2>1, <2>2
<1> QED
  BY <1>1, <1>2 DEF IInv

\* The program counter moves, nothing else of the job does.
LEMMA GotoMoves ==
  ASSUME TypeOK, NEW m \in Managers, ~At(m, "idle"), NEW label \in Labels, label # "idle",
         Goto(m, label), UNCHANGED lock
  PROVE  /\ Moves(m) /\ job'[m] = [job[m] EXCEPT !.pc = label]
         /\ job'[m].pc = label /\ job'[m].cmd = job[m].cmd
         /\ job'[m].original = job[m].original /\ job'[m].staged = job[m].staged
         /\ job'[m].safety = job[m].safety /\ job'[m].data = job[m].data
<1>1. job[m] \in JobType /\ job \in [Managers -> JobType]
  BY DEF TypeOK, JobType
<1>2. job'[m] = [job[m] EXCEPT !.pc = label] /\ job' = [job EXCEPT ![m] = job'[m]]
  BY <1>1 DEF Goto
<1> QED
  BY <1>1, <1>2 DEF Moves, JobType, At

LEMMA FaultIs ==
  ASSUME NEW kind, Fault(kind)
  PROVE  /\ Benign' => Benign
         /\ DatabaseKept' => DatabaseKept
         /\ kind \notin {"refused", "backup", "replace", "start"} => ~Benign'
         /\ kind = "database" => ~DatabaseKept'
<1>1. PICK k : faults' = faults \cup {<<kind, k>>}
  BY DEF Fault
<1>2. <<kind, k>>[1] = kind /\ <<kind, k>> \in faults'
  BY <1>1
<1> QED
  BY <1>1, <1>2 DEF Benign, DatabaseKept

LEMMA WorldKept ==
  ASSUME TypeOK, UNCHANGED <<box, db, backups, configured, made>>, before' \in Contents
  PROVE  WorldType'
BY DEF TypeOK, WorldType

LEMMA SnapshotTaken ==
  ASSUME TypeOK, BackupsInv, createDatabaseBackup, UNCHANGED db, DatabaseKept' => DatabaseKept
  PROVE  /\ backups' \in Seq(Contents) /\ BackupsInv'
         /\ Valid(db) /\ \E i \in DOMAIN backups' : backups'[i] = db
<1>1. /\ Valid(db) /\ backups' = Retained(Append(backups, db))
      /\ db \in Contents /\ backups \in Seq(Contents)
  BY DEF createDatabaseBackup, TypeOK
<1> QED
  BY <1>1, RetainedIs DEF BackupsInv

LEMMA MigratedIs ==
  ASSUME TypeOK
  PROVE  Migrated \in Contents /\ Valid(Migrated) /\ Migrated.schema = made + 1
BY DEF Migrated, Contents, Valid, TypeOK

(***************************************************************************)
(* The first steps of a command, and those that end it at once.            *)
(***************************************************************************)
LEMMA LockKeeps ==
  ASSUME IInv, NEW m \in Managers, NEW cmd \in Commands, lockDeployment(m, cmd)
  PROVE  IInv'
<1>1. /\ TypeOK /\ lock = Nobody /\ lock' = m /\ job[m] = NoJob
      /\ \A o \in Managers : At(o, "idle") /\ job[o] = NoJob
      /\ UNCHANGED <<box, db, backups, configured, made, before, faults>>
  BY Constants DEF lockDeployment, IInv, TypeOK, JobInv
<1>2. FirstStep(cmd) \in {"install", "snapshot", "pull", "stop", "select"}
  BY DEF FirstStep, Commands
<1>3. /\ job' = [job EXCEPT ![m] = job'[m]]
      /\ job'[m] = [NoJob EXCEPT !.cmd = cmd, !.pc = FirstStep(cmd)]
      /\ \A o \in Managers \ {m} : job'[o] = NoJob
  BY <1>1 DEF lockDeployment, TypeOK
<1>4. /\ job'[m] \in JobType
      /\ job'[m].cmd = cmd /\ job'[m].pc = FirstStep(cmd) /\ job'[m].original = "none"
      /\ job'[m].safety = Missing /\ job'[m].data = FALSE
  BY <1>2, <1>3, Constants DEF NoJob, JobType, Labels
<1>5. TypeOK'
  <2>1. \A o \in Managers : At(o, "idle")' <=> lock' # o
    BY <1>1, <1>2, <1>3, <1>4, Constants DEF At
  <2>2. job' \in [Managers -> JobType]
    BY <1>1, <1>3, <1>4, Constants DEF TypeOK, JobType
  <2> QED
    BY <1>1, <2>1, <2>2 DEF TypeOK, JobType
<1>6. BackupsInv' /\ OneProcess' /\ SchemaNotAhead' /\ Installed'
  BY <1>1, Constants
     DEF IInv, BackupsInv, OneProcess, SchemaNotAhead, Installed, Running, DatabaseKept
<1>7. JobInv(m)'
  <2>1. EarlyInv(m)'
    <3>1. (Benign /\ configured => Running # {})'
      BY <1>1 DEF IInv, Installed, Benign, Running
    <3>2. cmd \in {"update", "reload", "restore-db"} => configured'
      BY <1>1 DEF lockDeployment
    <3>3. FirstStep(cmd) \in {"pull", "stop", "select"} =>
            cmd \in {"update", "reload", "restore-db"}
      BY DEF FirstStep, Commands
    <3> QED
      BY <1>4, <3>1, <3>2, <3>3 DEF EarlyInv
  <2>2. StoppedInv(m)' /\ SchemaInv(m)'
    BY <1>2, <1>4 DEF StoppedInv, SchemaInv, Stopped
  <2>3. BeforeInv(m)'
    <3>1. cmd = "restore-db" => FirstStep(cmd) = "select"
      BY DEF FirstStep
    <3> QED
      BY <1>2, <1>4, <3>1 DEF BeforeInv
  <2> QED
    BY <1>2, <1>4, <2>1, <2>2, <2>3 DEF JobInv, At
<1>8. ASSUME NEW o \in Managers \ {m} PROVE JobInv(o)'
  BY <1>3, Constants DEF JobInv, At
<1> QED
  BY <1>5, <1>6, <1>7, <1>8 DEF IInv

\* An end that changes neither a container nor the database.
LEMMA QuietEnd ==
  ASSUME IInv, NEW m \in Managers, ~At(m, "idle"), End(m),
         UNCHANGED <<box, db, made>>, configured' \in BOOLEAN,
         backups' \in Seq(Contents), BackupsInv', Installed'
  PROVE  IInv'
<1>1. WorldType'
  BY Constants DEF End, IInv, TypeOK, WorldType
<1>2. OneProcess' /\ SchemaNotAhead'
  BY DEF IInv, OneProcess, SchemaNotAhead, Running
<1> QED
  BY <1>1, <1>2, EndKeeps

LEMMA RefuseKeeps ==
  ASSUME IInv, NEW m \in Managers, Refuse(m)
  PROVE  IInv'
<1>1. job[m].pc \in {"pull", "select", "install", "snapshot"} /\ End(m)
  BY DEF Refuse, At
<1>2. ~At(m, "idle") /\ EarlyInv(m)
  BY <1>1, HereIs DEF At, Here
<1>3. (Benign' => Benign) /\ (DatabaseKept' => DatabaseKept)
  BY FaultIs DEF Refuse, Benign, DatabaseKept
<1>4. Installed'
  BY <1>1, <1>2, <1>3 DEF EarlyInv, Early, Installed, Refuse, Running
<1>5. BackupsInv'
  BY <1>3 DEF IInv, BackupsInv, Refuse
<1> QED
  BY <1>1, <1>2, <1>4, <1>5, QuietEnd DEF Refuse, IInv, TypeOK

LEMMA KillKeeps ==
  ASSUME IInv, NEW m \in Managers, Kill(m)
  PROVE  IInv'
<1>1. ~Benign' /\ (DatabaseKept' => DatabaseKept)
  BY FaultIs DEF Kill
<1>2. Installed' /\ BackupsInv'
  BY <1>1 DEF Installed, Kill, IInv, BackupsInv
<1> QED
  BY <1>2, QuietEnd DEF Kill, IInv, TypeOK

LEMMA BackupKeeps ==
  ASSUME IInv, NEW m \in Managers, Backup(m)
  PROVE  IInv'
<1>1. ~At(m, "idle") /\ EarlyInv(m) /\ job[m].pc = "snapshot"
  BY HereIs DEF Backup, At, Here
<1>2. backups' \in Seq(Contents) /\ BackupsInv'
  BY SnapshotTaken DEF Backup, IInv, DatabaseKept
<1>3. Installed'
  BY <1>1 DEF EarlyInv, Early, Installed, Backup, Running, Benign
<1> QED
  BY <1>1, <1>2, <1>3, QuietEnd DEF Backup, IInv, TypeOK

\* The pre-install backup, if there is anything to save.
LEMMA PreInstall ==
  ASSUME IInv, NEW m \in Managers, InstallGuard(m), UNCHANGED db, DatabaseKept' => DatabaseKept
  PROVE  backups' \in Seq(Contents) /\ BackupsInv'
<1>1. CASE Valid(db)
  BY <1>1, SnapshotTaken DEF InstallGuard, IInv
<1>2. CASE ~Valid(db)
  BY <1>2 DEF InstallGuard, IInv, BackupsInv, TypeOK
<1> QED
  BY <1>1, <1>2

LEMMA InstallFailsKeeps ==
  ASSUME IInv, NEW m \in Managers, InstallFails(m)
  PROVE  IInv'
<1>1. ~At(m, "idle") /\ End(m)
  BY DEF InstallFails, InstallGuard, At
<1>2. ~Benign' /\ (DatabaseKept' => DatabaseKept)
  BY FaultIs DEF InstallFails
<1>3. backups' \in Seq(Contents) /\ BackupsInv'
  BY <1>2, PreInstall DEF InstallFails
<1>4. Installed' /\ configured' \in BOOLEAN
  BY <1>2 DEF Installed, InstallFails, IInv, TypeOK
<1> QED
  BY <1>1, <1>3, <1>4, QuietEnd DEF InstallFails

\* A new container runs alone, on the database it has migrated.
LEMMA RunsNew ==
  ASSUME IInv, NEW m \in Managers, ~At(m, "idle"), End(m), NEW n \in Names,
         box' = [o \in Names |-> IF o = n THEN NewBox("running") ELSE NoBox],
         db' = Migrated, made' = made + 1, configured' \in BOOLEAN,
         backups' \in Seq(Contents), \A i \in DOMAIN backups' : Valid(backups'[i])
  PROVE  IInv'
<1>1. /\ \A o \in Names : box'[o] = IF o = n THEN NewBox("running") ELSE NoBox
      /\ NewBox("running").gen = made + 1 /\ NewBox("running").state = "running"
      /\ NoBox.state = "none" /\ made \in Nat
      /\ db' \in Contents /\ Valid(db)' /\ db'.schema = made + 1
  BY MigratedIs DEF NewBox, NoBox, IInv, TypeOK, Valid
<1>2. WorldType'
  <2>1. NewBox("running") \in [gen : Nat, state : {"none", "stopped", "running"}]
    BY <1>1 DEF NewBox
  <2>2. box' \in [Names -> [gen : Nat, state : {"none", "stopped", "running"}]]
    BY <2>1, Constants
  <2> QED
    BY <1>1, <2>2, Constants DEF WorldType, End
<1>3. Running' = {n}
  BY <1>1 DEF Running
<1>4. BackupsInv' /\ Installed' /\ OneProcess' /\ SchemaNotAhead'
  BY <1>1, <1>3 DEF BackupsInv, Installed, OneProcess, SchemaNotAhead
<1> QED
  BY <1>2, <1>4, EndKeeps

LEMMA InstallKeeps ==
  ASSUME IInv, NEW m \in Managers, Install(m)
  PROVE  IInv'
<1>1. ~At(m, "idle") /\ End(m) /\ made' = made + 1 /\ configured' \in BOOLEAN
  BY DEF Install, InstallGuard, At, CanMake
<1>2. backups' \in Seq(Contents) /\ \A i \in DOMAIN backups' : Valid(backups'[i])
  <2>1. CASE Valid(db)
    <3>1. /\ backups' = Retained(Append(backups, db)) /\ db \in Contents
          /\ backups \in Seq(Contents) /\ \A i \in DOMAIN backups : Valid(backups[i])
      BY <2>1 DEF Install, InstallGuard, createDatabaseBackup, IInv, TypeOK, BackupsInv
    <3> QED
      BY <2>1, <3>1, RetainedIs
  <2>2. CASE ~Valid(db)
    BY <2>2 DEF Install, InstallGuard, IInv, TypeOK, BackupsInv
  <2> QED
    BY <2>1, <2>2
<1> QED
  BY <1>1, <1>2, RunsNew DEF Install, Names

(***************************************************************************)
(* stopApplication.                                                        *)
(***************************************************************************)
LEMMA PullKeeps ==
  ASSUME IInv, NEW m \in Managers, Pull(m)
  PROVE  IInv'
<1>1. Here(m) /\ job[m].pc = "pull"
  BY HereIs DEF Pull, At
<1>2. Moves(m) /\ job'[m] = [job[m] EXCEPT !.pc = "stop"]
  BY <1>1, GotoMoves DEF Pull, Here, Labels
<1>3. /\ job'[m].pc = "stop" /\ job'[m].cmd = job[m].cmd
      /\ job'[m].original = job[m].original /\ job'[m].staged = job[m].staged
      /\ job'[m].safety = job[m].safety /\ job'[m].data = job[m].data
  BY <1>1, <1>2 DEF Here, JobType
<1>4. WorldType' /\ BackupsInv' /\ OneProcess' /\ SchemaNotAhead'
  BY <1>1 DEF Pull, Here, TypeOK, WorldType, BackupsInv, DatabaseKept, OneProcess,
              SchemaNotAhead, Running
<1>5. EarlyInv(m)'
  BY <1>1, <1>3 DEF Pull, Here, EarlyInv, Early, Benign, Running
<1>6. StoppedInv(m)' /\ SchemaInv(m)'
  BY <1>3 DEF StoppedInv, SchemaInv, Stopped
<1>7. BeforeInv(m)'
  BY <1>1, <1>3 DEF Pull, Here, BeforeInv, DatabaseKept
<1> QED
  BY <1>1, <1>2, <1>4, <1>5, <1>6, <1>7, MoveKeeps DEF Here

LEMMA SelectKeeps ==
  ASSUME IInv, NEW m \in Managers, SelectBackup(m)
  PROVE  IInv'
<1>1. Here(m) /\ job[m].pc = "select"
  BY HereIs DEF SelectBackup, At
<1>2. PICK i \in DOMAIN backups :
        job' = [job EXCEPT ![m].staged = backups[i], ![m].pc = "stop"]
  BY DEF SelectBackup
<1>3. backups \in Seq(Contents) /\ backups[i] \in Contents /\ Valid(backups[i]) /\ backups # << >>
  BY <1>1, <1>2, LenProperties, ElementOfSeq, EmptySeq DEF Here, TypeOK, BackupsInv
<1>4. job'[m] = [job[m] EXCEPT !.staged = backups[i], !.pc = "stop"]
  BY <1>2 DEF IInv, TypeOK
<1>5. /\ job'[m].pc = "stop" /\ job'[m].cmd = job[m].cmd
      /\ job'[m].original = job[m].original /\ job'[m].staged = backups[i]
      /\ job'[m].safety = job[m].safety /\ job'[m].data = job[m].data
      /\ job'[m] \in JobType
  BY <1>1, <1>3, <1>4 DEF Here, JobType, Labels
<1>6. Moves(m)
  BY <1>2, <1>4, <1>5 DEF Moves, SelectBackup, IInv, TypeOK, At
<1>7. WorldType' /\ BackupsInv' /\ OneProcess' /\ SchemaNotAhead'
  BY <1>1 DEF SelectBackup, Here, TypeOK, WorldType, BackupsInv, DatabaseKept, OneProcess,
              SchemaNotAhead, Running
<1>8. EarlyInv(m)'
  BY <1>1, <1>5 DEF SelectBackup, Here, EarlyInv, Early, Benign, Running
<1>9. StoppedInv(m)' /\ SchemaInv(m)'
  BY <1>5 DEF StoppedInv, SchemaInv, Stopped
<1>10. BeforeInv(m)'
  BY <1>3, <1>5 DEF SelectBackup, BeforeInv
<1> QED
  BY <1>1, <1>6, <1>7, <1>8, <1>9, <1>10, MoveKeeps DEF Here

LEMMA NothingRunningKeeps ==
  ASSUME IInv, NEW m \in Managers, NothingRunning(m)
  PROVE  IInv'
<1>1. Here(m) /\ job[m].pc = "stop" /\ Running = {} /\ before' = db
  BY HereIs DEF NothingRunning, At
<1>2. /\ Moves(m) /\ job'[m].pc = "backup" /\ job'[m].cmd = job[m].cmd
      /\ job'[m].original = job[m].original /\ job'[m].staged = job[m].staged
      /\ job'[m].safety = job[m].safety /\ job'[m].data = job[m].data
  BY <1>1, GotoMoves DEF NothingRunning, Here, Labels
<1>3. WorldType' /\ BackupsInv' /\ OneProcess' /\ SchemaNotAhead' /\ Running' = {}
  BY <1>1 DEF NothingRunning, Here, TypeOK, WorldType, BackupsInv, DatabaseKept, OneProcess,
              SchemaNotAhead, Running
<1>4. job[m].original = "none" /\ ~Benign
  BY <1>1 DEF Here, EarlyInv, Early
<1>5. EarlyInv(m)' /\ SchemaInv(m)'
  BY <1>2, <1>4 DEF EarlyInv, Early, SchemaInv
<1>6. StoppedInv(m)'
  BY <1>2, <1>3, <1>4 DEF StoppedInv, Stopped, Benign, NothingRunning
<1>7. BeforeInv(m)'
  BY <1>1, <1>2 DEF NothingRunning, Here, BeforeInv, DatabaseKept
<1> QED
  BY <1>1, <1>2, <1>3, <1>5, <1>6, <1>7, MoveKeeps DEF Here

LEMMA StopContainerKeeps ==
  ASSUME IInv, NEW m \in Managers, StopContainer(m)
  PROVE  IInv'
<1>1. Here(m) /\ job[m].pc = "stop" /\ before' = db
  BY HereIs DEF StopContainer, At
<1>2. PICK n \in Names :
        /\ Running = {n} /\ box' = [box EXCEPT ![n].state = "stopped"]
        /\ job' = [job EXCEPT ![m].original = n,
                              ![m].pc = IF n = "next" THEN "clear" ELSE "backup"]
  BY DEF StopContainer, Running
<1> DEFINE label == IF n = "next" THEN "clear" ELSE "backup"
<1>3. job'[m] = [job[m] EXCEPT !.original = n, !.pc = label] /\ label \in {"clear", "backup"}
  BY <1>2 DEF IInv, TypeOK
<1>4. /\ job'[m].pc = label /\ job'[m].cmd = job[m].cmd
      /\ job'[m].original = n /\ job'[m].staged = job[m].staged
      /\ job'[m].safety = job[m].safety /\ job'[m].data = job[m].data
      /\ job'[m] \in JobType
  BY <1>1, <1>3 DEF Here, JobType, Labels
<1>5. Moves(m)
  BY <1>2, <1>3, <1>4 DEF Moves, StopContainer, IInv, TypeOK, At
<1>6. /\ box' \in [Names -> [gen : Nat, state : {"none", "stopped", "running"}]]
      /\ \A o \in Names : box'[o].gen = box[o].gen
      /\ Running' = {}
  BY <1>1, <1>2 DEF Here, TypeOK, Running
<1>7. WorldType' /\ BackupsInv' /\ OneProcess' /\ SchemaNotAhead'
  BY <1>1, <1>6 DEF StopContainer, Here, TypeOK, WorldType, BackupsInv, DatabaseKept, OneProcess,
              SchemaNotAhead
<1>8. EarlyInv(m)' /\ StoppedInv(m)'
  BY <1>3, <1>4, <1>6 DEF EarlyInv, Early, StoppedInv, Stopped, Names
<1>9. SchemaInv(m)'
  <2>1. Old(m)' = n
    BY <1>2, <1>3, <1>4 DEF Old, Names
  <2>2. job[m].safety.schema = 0 /\ db.schema <= box[n].gen /\ box[n].gen \in Nat
    BY <1>1, <1>2, Constants DEF Here, EarlyInv, Early, SchemaNotAhead, TypeOK
  <2> QED
    BY <1>3, <1>4, <1>6, <2>1, <2>2 DEF SchemaInv, StopContainer
<1>10. BeforeInv(m)'
  BY <1>1, <1>3, <1>4 DEF StopContainer, Here, BeforeInv, DatabaseKept
<1> QED
  BY <1>1, <1>5, <1>7, <1>8, <1>9, <1>10, MoveKeeps DEF Here

LEMMA StopFailsKeeps ==
  ASSUME IInv, NEW m \in Managers, StopFails(m)
  PROVE  IInv'
<1>1. Here(m) /\ End(m)
  BY HereIs DEF StopFails, At
<1>2. ~Benign' /\ (DatabaseKept' => DatabaseKept)
  BY FaultIs DEF StopFails
<1>3. /\ box' \in [Names -> [gen : Nat, state : {"none", "stopped", "running"}]]
      /\ \A o \in Names : box'[o].gen = box[o].gen
      /\ Running' \subseteq Running
  <2>1. CASE UNCHANGED box
    BY <1>1, <2>1 DEF Here, TypeOK, Running
  <2>2. CASE \E n \in Running : box' = [box EXCEPT ![n].state = "stopped"]
    <3>1. PICK n \in Names : box' = [box EXCEPT ![n].state = "stopped"]
      BY <2>2 DEF Running
    <3>2. box \in [Names -> [gen : Nat, state : {"none", "stopped", "running"}]]
      BY <1>1 DEF Here, TypeOK
    <3>3. /\ \A o \in Names : box'[o].gen = box[o].gen
          /\ \A o \in Names : box'[o].state = IF o = n THEN "stopped" ELSE box[o].state
      BY <3>1, <3>2
    <3>4. Running' \subseteq Running
      BY <3>3 DEF Running
    <3> QED
      BY <3>1, <3>2, <3>3, <3>4
  <2> QED
    BY <2>1, <2>2 DEF StopFails
<1>4. WorldType'
  BY <1>1, <1>3, Constants DEF StopFails, Here, TypeOK, WorldType, End
<1>5. BackupsInv' /\ Installed' /\ OneProcess' /\ SchemaNotAhead'
  BY <1>1, <1>2, <1>3
     DEF StopFails, Here, BackupsInv, Installed, OneProcess, SchemaNotAhead, Running
<1> QED
  BY <1>1, <1>4, <1>5, EndKeeps DEF Here

LEMMA ClearKeeps ==
  ASSUME IInv, NEW m \in Managers, ClearStale(m)
  PROVE  IInv'
<1>1. Here(m) /\ job[m].pc = "clear" /\ job[m].original = "next" /\ Running = {}
  BY HereIs DEF ClearStale, At, Here, StoppedInv, Stopped
<1>2. /\ Moves(m) /\ job'[m].pc = "rename" /\ job'[m].cmd = job[m].cmd
      /\ job'[m].original = job[m].original /\ job'[m].staged = job[m].staged
      /\ job'[m].safety = job[m].safety /\ job'[m].data = job[m].data
  BY <1>1, GotoMoves DEF ClearStale, Here, Labels
<1>3. /\ box' \in [Names -> [gen : Nat, state : {"none", "stopped", "running"}]]
      /\ box'["next"] = box["next"] /\ box'["base"] = NoBox
  BY <1>1, Constants DEF ClearStale, Here, TypeOK, Names
<1>4. Running' = {}
  BY <1>1, <1>3 DEF Running, Names, NoBox
<1>5. WorldType' /\ BackupsInv' /\ OneProcess' /\ SchemaNotAhead'
  BY <1>1, <1>3, <1>4 DEF ClearStale, Here, TypeOK, WorldType, BackupsInv, DatabaseKept,
                          OneProcess, SchemaNotAhead
<1>6. EarlyInv(m)' /\ StoppedInv(m)'
  BY <1>1, <1>2, <1>4 DEF EarlyInv, Early, StoppedInv, Stopped
<1>7. SchemaInv(m)'
  BY <1>1, <1>2, <1>3 DEF Here, SchemaInv, Stopped, Old, ClearStale
<1>8. BeforeInv(m)'
  BY <1>1, <1>2 DEF ClearStale, Here, BeforeInv, DatabaseKept
<1> QED
  BY <1>1, <1>2, <1>5, <1>6, <1>7, <1>8, MoveKeeps DEF Here

LEMMA RenameKeeps ==
  ASSUME IInv, NEW m \in Managers, RenameContainer(m)
  PROVE  IInv'
<1>1. Here(m) /\ job[m].pc = "rename" /\ job[m].original = "next" /\ Running = {}
  BY HereIs DEF RenameContainer, At, Here, StoppedInv, Stopped
<1>2. /\ Moves(m) /\ job'[m].pc = "backup" /\ job'[m].cmd = job[m].cmd
      /\ job'[m].original = job[m].original /\ job'[m].staged = job[m].staged
      /\ job'[m].safety = job[m].safety /\ job'[m].data = job[m].data
  BY <1>1, GotoMoves DEF RenameContainer, Here, Labels
<1>3. /\ box' \in [Names -> [gen : Nat, state : {"none", "stopped", "running"}]]
      /\ box'["base"] = box["next"] /\ box'["next"] = NoBox
  BY <1>1, Constants DEF RenameContainer, Here, TypeOK, Names
<1>4. Running' = {}
  BY <1>1, <1>3 DEF Running, Names, NoBox
<1>5. WorldType' /\ BackupsInv' /\ OneProcess' /\ SchemaNotAhead'
  BY <1>1, <1>3, <1>4 DEF RenameContainer, Here, TypeOK, WorldType, BackupsInv, DatabaseKept,
                          OneProcess, SchemaNotAhead
<1>6. EarlyInv(m)' /\ StoppedInv(m)'
  BY <1>1, <1>2, <1>4 DEF EarlyInv, Early, StoppedInv, Stopped
<1>7. SchemaInv(m)'
  BY <1>1, <1>2, <1>3 DEF Here, SchemaInv, Stopped, Old, RenameContainer
<1>8. BeforeInv(m)'
  BY <1>1, <1>2 DEF RenameContainer, Here, BeforeInv, DatabaseKept
<1> QED
  BY <1>1, <1>2, <1>5, <1>6, <1>7, <1>8, MoveKeeps DEF Here

LEMMA RenameFailsKeeps ==
  ASSUME IInv, NEW m \in Managers, RenameFails(m)
  PROVE  IInv'
<1>1. Here(m) /\ job[m].pc \in {"clear", "rename"} /\ job[m].original = "next" /\ Running = {}
  BY HereIs DEF RenameFails, At, Here, StoppedInv, Stopped
<1>2. /\ Moves(m) /\ job'[m].pc = "restart" /\ job'[m].cmd = job[m].cmd
      /\ job'[m].original = job[m].original /\ job'[m].staged = job[m].staged
      /\ job'[m].safety = job[m].safety /\ job'[m].data = job[m].data
  BY <1>1, GotoMoves DEF RenameFails, Here, Labels
<1>3. DatabaseKept' => DatabaseKept
  BY FaultIs DEF RenameFails
<1>4. WorldType' /\ BackupsInv' /\ OneProcess' /\ SchemaNotAhead' /\ Running' = {}
  BY <1>1, <1>3 DEF RenameFails, Here, TypeOK, WorldType, BackupsInv, OneProcess,
                    SchemaNotAhead, Running
<1>5. EarlyInv(m)' /\ StoppedInv(m)'
  BY <1>1, <1>2, <1>4 DEF EarlyInv, Early, StoppedInv, Stopped
<1>6. SchemaInv(m)'
  BY <1>1, <1>2 DEF Here, SchemaInv, Stopped, Old, RenameFails
<1>7. BeforeInv(m)'
  BY <1>1, <1>2, <1>3 DEF RenameFails, Here, BeforeInv, InBackups
<1> QED
  BY <1>1, <1>2, <1>4, <1>5, <1>6, <1>7, MoveKeeps DEF Here

(***************************************************************************)
(* After the stop.                                                         *)
(***************************************************************************)
LEMMA SafetyBackupKeeps ==
  ASSUME IInv, NEW m \in Managers, SafetyBackup(m)
  PROVE  IInv'
<1> DEFINE label == AfterBackup(m)
<1>1. Here(m) /\ job[m].pc = "backup" /\ Running = {}
  BY HereIs DEF SafetyBackup, At, Here, StoppedInv, Stopped
<1>2. label \in {"replace", "start"} /\ (label = "replace" => job[m].cmd = "restore-db")
  BY DEF AfterBackup
<1>3. job'[m] = [job[m] EXCEPT !.safety = db, !.pc = label]
  BY DEF SafetyBackup, IInv, TypeOK
<1> HIDE DEF label
<1>4. /\ job'[m].pc = label /\ job'[m].cmd = job[m].cmd
      /\ job'[m].original = job[m].original /\ job'[m].staged = job[m].staged
      /\ job'[m].safety = db /\ job'[m].data = job[m].data
      /\ job'[m] \in JobType
  BY <1>1, <1>2, <1>3 DEF Here, JobType, Labels, TypeOK
<1>5. Moves(m)
  BY <1>2, <1>3, <1>4 DEF Moves, SafetyBackup, IInv, TypeOK, At, label
<1>6. /\ backups' \in Seq(Contents) /\ BackupsInv'
      /\ Valid(db) /\ \E i \in DOMAIN backups' : backups'[i] = db
  BY <1>1, SnapshotTaken DEF SafetyBackup, Here, DatabaseKept
<1>7. WorldType' /\ OneProcess' /\ SchemaNotAhead' /\ Running' = {}
  BY <1>1, <1>6 DEF SafetyBackup, Here, TypeOK, WorldType, OneProcess, SchemaNotAhead, Running
<1>8. EarlyInv(m)' /\ StoppedInv(m)'
  BY <1>1, <1>2, <1>4, <1>7 DEF Here, EarlyInv, Early, StoppedInv, Stopped, SafetyBackup, Benign
<1>9. SchemaInv(m)'
  BY <1>1, <1>2, <1>4 DEF Here, SchemaInv, Stopped, Old, SafetyBackup
<1>10. BeforeInv(m)'
  <2>1. DatabaseKept => before' = db /\ InBackups'
    BY <1>1, <1>6 DEF Here, BeforeInv, InBackups, SafetyBackup
  <2>2. backups' # << >>
    BY <1>6, EmptySeq, LenProperties
  <2> QED
    BY <1>1, <1>2, <1>4, <1>6, <2>1, <2>2 DEF Here, BeforeInv, DatabaseKept, SafetyBackup
<1> QED
  BY <1>1, <1>5, <1>6, <1>7, <1>8, <1>9, <1>10, MoveKeeps DEF Here

LEMMA SkipBackupKeeps ==
  ASSUME IInv, NEW m \in Managers, SkipBackup(m)
  PROVE  IInv'
<1>1. /\ Here(m) /\ job[m].pc = "backup" /\ job[m].cmd = "restore-db" /\ ~Valid(db)
      /\ Running = {} /\ AfterBackup(m) = "replace"
  BY HereIs DEF SkipBackup, At, Here, StoppedInv, Stopped, AfterBackup
<1>2. /\ Moves(m) /\ job'[m].pc = "replace" /\ job'[m].cmd = job[m].cmd
      /\ job'[m].original = job[m].original /\ job'[m].staged = job[m].staged
      /\ job'[m].safety = job[m].safety /\ job'[m].data = job[m].data
  BY <1>1, GotoMoves DEF SkipBackup, Here, Labels
<1>3. WorldType' /\ BackupsInv' /\ OneProcess' /\ SchemaNotAhead' /\ Running' = {}
  BY <1>1 DEF SkipBackup, Here, TypeOK, WorldType, BackupsInv, DatabaseKept, OneProcess,
              SchemaNotAhead, Running
<1>4. EarlyInv(m)' /\ StoppedInv(m)'
  BY <1>1, <1>2, <1>3 DEF Here, EarlyInv, Early, StoppedInv, Stopped, SkipBackup, Benign
<1>5. SchemaInv(m)'
  BY <1>1, <1>2 DEF Here, SchemaInv, Stopped, Old, SkipBackup
<1>6. ~DatabaseKept
  BY <1>1 DEF Here, BeforeInv, BackupsInv
<1>7. BeforeInv(m)'
  BY <1>6 DEF BeforeInv, DatabaseKept, SkipBackup
<1> QED
  BY <1>1, <1>2, <1>3, <1>4, <1>5, <1>7, MoveKeeps DEF Here

LEMMA BackupFailsKeeps ==
  ASSUME IInv, NEW m \in Managers, BackupFails(m)
  PROVE  IInv'
<1>1. Here(m) /\ job[m].pc = "backup" /\ Running = {}
  BY HereIs DEF BackupFails, At, Here, StoppedInv, Stopped
<1>2. job'[m] = [job[m] EXCEPT !.pc = "remove", !.data = FALSE]
  BY DEF BackupFails, IInv, TypeOK
<1>3. /\ job'[m].pc = "remove" /\ job'[m].cmd = job[m].cmd
      /\ job'[m].original = job[m].original /\ job'[m].staged = job[m].staged
      /\ job'[m].safety = job[m].safety /\ job'[m].data = FALSE
      /\ job'[m] \in JobType
  BY <1>1, <1>2 DEF Here, JobType, Labels
<1>4. Moves(m)
  BY <1>2, <1>3 DEF Moves, BackupFails, IInv, TypeOK, At
<1>5. /\ Benign' => Benign
      /\ DatabaseKept' => DatabaseKept
  <2>1. CASE Valid(db)
    BY <2>1, FaultIs DEF BackupFails
  <2>2. CASE ~Valid(db)
    BY <2>2 DEF BackupFails, Benign, DatabaseKept
  <2> QED
    BY <2>1, <2>2
<1>6. /\ backups' \in Seq(Contents) /\ (backups # << >> => backups' # << >>)
      /\ \A i \in DOMAIN backups' : Valid(backups'[i])
      /\ backups' # << >> /\ backups = << >> => Valid(db)
  <2>1. CASE UNCHANGED backups
    BY <1>1, <2>1 DEF Here, TypeOK, BackupsInv
  <2>2. CASE backups' = Append(backups, db) /\ Valid(db)
    <3>1. db \in Contents /\ backups \in Seq(Contents)
      BY <1>1 DEF Here, TypeOK
    <3>2. /\ backups' \in Seq(Contents) /\ backups' # << >> /\ Len(backups') = Len(backups) + 1
          /\ \A i \in 1 .. Len(backups) : backups'[i] = backups[i]
          /\ backups'[Len(backups) + 1] = db
      BY <2>2, <3>1, AppendProperties
    <3>3. /\ DOMAIN backups' = 1 .. Len(backups') /\ DOMAIN backups = 1 .. Len(backups)
          /\ Len(backups) \in Nat
      BY <3>1, <3>2, LenProperties
    <3>4. \A i \in 1 .. Len(backups) : Valid(backups'[i])
      BY <1>1, <3>2, <3>3 DEF Here, BackupsInv
    <3> QED
      BY <2>2, <3>2, <3>3, <3>4
  <2> QED
    BY <2>1, <2>2 DEF BackupFails
<1>7. WorldType' /\ BackupsInv' /\ OneProcess' /\ SchemaNotAhead' /\ Running' = {}
  BY <1>1, <1>5, <1>6 DEF BackupFails, Here, TypeOK, WorldType, BackupsInv, OneProcess,
                          SchemaNotAhead, Running
<1>8. EarlyInv(m)' /\ StoppedInv(m)'
  BY <1>1, <1>3, <1>5, <1>7 DEF Here, EarlyInv, Early, StoppedInv, Stopped
<1>9. SchemaInv(m)'
  BY <1>1, <1>3 DEF Here, SchemaInv, Stopped, Old, BackupFails
<1>10. BeforeInv(m)'
  BY <1>1, <1>3, <1>5, <1>6 DEF Here, BeforeInv, BackupFails
<1> QED
  BY <1>1, <1>4, <1>7, <1>8, <1>9, <1>10, MoveKeeps DEF Here

LEMMA ReplaceKeeps ==
  ASSUME IInv, NEW m \in Managers, replaceDatabase(m)
  PROVE  IInv'
<1>1. Here(m) /\ job[m].pc = "replace" /\ Running = {} /\ job[m].staged \in Contents
  BY HereIs DEF replaceDatabase, At, Here, StoppedInv, Stopped, JobType
<1>2. /\ Moves(m) /\ job'[m].pc = "start" /\ job'[m].cmd = job[m].cmd
      /\ job'[m].original = job[m].original /\ job'[m].staged = job[m].staged
      /\ job'[m].safety = job[m].safety /\ job'[m].data = job[m].data
  BY <1>1, GotoMoves DEF replaceDatabase, Here, Labels
<1>3. DatabaseKept => Valid(job[m].staged) /\ InBackups /\ Valid(job[m].safety)
  BY <1>1 DEF Here, BeforeInv
<1>4. WorldType' /\ BackupsInv' /\ OneProcess' /\ SchemaNotAhead' /\ Running' = {}
  BY <1>1, <1>3 DEF replaceDatabase, Here, TypeOK, WorldType, BackupsInv, DatabaseKept,
                    OneProcess, SchemaNotAhead, Running, Valid
<1>5. EarlyInv(m)' /\ StoppedInv(m)'
  BY <1>1, <1>2, <1>4 DEF Here, EarlyInv, Early, StoppedInv, Stopped, replaceDatabase, Benign
<1>6. SchemaInv(m)'
  BY <1>1, <1>2 DEF Here, SchemaInv, Stopped, Old, replaceDatabase
<1>7. BeforeInv(m)'
  BY <1>1, <1>2, <1>3 DEF Here, BeforeInv, DatabaseKept, InBackups, replaceDatabase
<1> QED
  BY <1>1, <1>2, <1>4, <1>5, <1>6, <1>7, MoveKeeps DEF Here

LEMMA ReplaceFailsKeeps ==
  ASSUME IInv, NEW m \in Managers, ReplaceFails(m)
  PROVE  IInv'
<1>1. Here(m) /\ job[m].pc = "replace" /\ Running = {} /\ job[m].staged \in Contents
  BY HereIs DEF ReplaceFails, At, Here, StoppedInv, Stopped, JobType
<1>2. job'[m] = [job[m] EXCEPT !.pc = "remove", !.data = TRUE]
  BY DEF ReplaceFails, IInv, TypeOK
<1>3. /\ job'[m].pc = "remove" /\ job'[m].cmd = job[m].cmd
      /\ job'[m].original = job[m].original /\ job'[m].staged = job[m].staged
      /\ job'[m].safety = job[m].safety /\ job'[m].data = TRUE
      /\ job'[m] \in JobType
  BY <1>1, <1>2 DEF Here, JobType, Labels
<1>4. Moves(m)
  BY <1>2, <1>3 DEF Moves, ReplaceFails, IInv, TypeOK, At
<1>5. (Benign' => Benign) /\ (DatabaseKept' => DatabaseKept)
  BY FaultIs DEF ReplaceFails
<1>6. DatabaseKept => Valid(job[m].staged) /\ InBackups /\ Valid(job[m].safety)
  BY <1>1 DEF Here, BeforeInv
<1>7. WorldType' /\ BackupsInv' /\ OneProcess' /\ SchemaNotAhead' /\ Running' = {}
  BY <1>1, <1>5, <1>6 DEF ReplaceFails, Here, TypeOK, WorldType, BackupsInv, OneProcess,
                          SchemaNotAhead, Running, Valid
<1>8. EarlyInv(m)' /\ StoppedInv(m)'
  BY <1>1, <1>3, <1>5, <1>7 DEF Here, EarlyInv, Early, StoppedInv, Stopped
<1>9. SchemaInv(m)'
  BY <1>1, <1>3 DEF Here, SchemaInv, Stopped, Old, ReplaceFails
<1>10. BeforeInv(m)'
  BY <1>1, <1>3, <1>5, <1>6 DEF Here, BeforeInv, InBackups, ReplaceFails
<1> QED
  BY <1>1, <1>4, <1>7, <1>8, <1>9, <1>10, MoveKeeps DEF Here

LEMMA StartKeeps ==
  ASSUME IInv, NEW m \in Managers, startDeployment(m)
  PROVE  IInv'
<1>1. ~At(m, "idle") /\ End(m) /\ made' = made + 1
  BY DEF startDeployment, At, CanMake
<1>2. /\ configured' \in BOOLEAN /\ backups' \in Seq(Contents)
      /\ \A i \in DOMAIN backups' : Valid(backups'[i])
  BY DEF startDeployment, IInv, TypeOK, BackupsInv
<1>3. PICK n \in Names : box' = [o \in Names |-> IF o = n THEN NewBox("running") ELSE NoBox]
  BY DEF startDeployment
<1> QED
  BY <1>1, <1>2, <1>3, RunsNew DEF startDeployment

LEMMA StartFailsKeeps ==
  ASSUME IInv, NEW m \in Managers, StartFails(m)
  PROVE  IInv'
<1>1. Here(m) /\ job[m].pc = "start" /\ Running = {}
  BY HereIs DEF StartFails, At, Here, StoppedInv, Stopped
<1>2. job'[m] = [job[m] EXCEPT !.pc = "remove", !.data = TRUE]
  BY DEF StartFails, IInv, TypeOK
<1>3. /\ job'[m].pc = "remove" /\ job'[m].cmd = job[m].cmd
      /\ job'[m].original = job[m].original /\ job'[m].staged = job[m].staged
      /\ job'[m].safety = job[m].safety /\ job'[m].data = TRUE
      /\ job'[m] \in JobType
  BY <1>1, <1>2 DEF Here, JobType, Labels
<1>4. Moves(m)
  BY <1>2, <1>3 DEF Moves, StartFails, IInv, TypeOK, At
<1>5. (Benign' => Benign) /\ (DatabaseKept' => DatabaseKept)
  BY FaultIs DEF StartFails
<1>6. /\ box' \in [Names -> [gen : Nat, state : {"none", "stopped", "running"}]]
      /\ box'["base"] = box["base"] /\ Running' \subseteq {"next"}
      /\ Running' # {} => db'.schema = box'["next"].gen
      /\ db' \in Contents /\ made' \in Nat /\ (Valid(db) => Valid(db)')
  <2>1. CASE UNCHANGED <<box, db, made>>
    BY <1>1, <2>1 DEF Here, TypeOK, Running, Valid
  <2>2. CASE CanMake /\ db' = Migrated
             /\ \E state \in {"stopped", "running"} : box' = [box EXCEPT !["next"] = NewBox(state)]
    <3>1. PICK state \in {"stopped", "running"} : box' = [box EXCEPT !["next"] = NewBox(state)]
      BY <2>2
    <3>2. /\ box \in [Names -> [gen : Nat, state : {"none", "stopped", "running"}]]
          /\ made \in Nat /\ made' = made + 1
      BY <1>1, <2>2 DEF Here, TypeOK, CanMake
    <3>3. /\ NewBox(state).gen = made + 1
          /\ NewBox(state) \in [gen : Nat, state : {"none", "stopped", "running"}]
      BY <3>2 DEF NewBox
    <3>4. /\ box'["base"] = box["base"] /\ box'["next"] = NewBox(state)
          /\ box' \in [Names -> [gen : Nat, state : {"none", "stopped", "running"}]]
      BY <3>1, <3>2, <3>3 DEF Names
    <3>5. Running' \subseteq {"next"}
      BY <1>1, <3>4 DEF Running, Names
    <3>6. db' \in Contents /\ Valid(db)' /\ db'.schema = made + 1
      BY <1>1, <2>2, MigratedIs DEF Here, Valid
    <3> QED
      BY <3>2, <3>3, <3>4, <3>5, <3>6
  <2> QED
    BY <2>1, <2>2 DEF StartFails
<1>7. WorldType' /\ BackupsInv' /\ OneProcess' /\ SchemaNotAhead'
  <2>1. WorldType' /\ BackupsInv'
    BY <1>1, <1>5, <1>6 DEF StartFails, Here, TypeOK, WorldType, BackupsInv
  <2>2. OneProcess' /\ SchemaNotAhead'
    BY <1>6 DEF OneProcess, SchemaNotAhead, WorldType, Contents, Names
  <2> QED
    BY <2>1, <2>2
<1>8. EarlyInv(m)' /\ StoppedInv(m)'
  BY <1>1, <1>3, <1>5, <1>6 DEF Here, EarlyInv, Early, StoppedInv, Stopped
<1>9. SchemaInv(m)'
  <2>1. job[m].original # "none" => Old(m) = "base" /\ Old(m)' = "base"
    BY <1>1, <1>3 DEF Old, Here, JobType, Names
  <2> QED
    BY <1>1, <1>3, <1>6, <2>1 DEF Here, SchemaInv, Stopped
<1>10. BeforeInv(m)'
  BY <1>1, <1>3, <1>5 DEF Here, BeforeInv, InBackups, StartFails
<1> QED
  BY <1>1, <1>4, <1>7, <1>8, <1>9, <1>10, MoveKeeps DEF Here

(***************************************************************************)
(* rollbackRestore and restartStoppedApplication.                          *)
(***************************************************************************)
LEMMA RemoveKeeps ==
  ASSUME IInv, NEW m \in Managers, RemoveReplacement(m)
  PROVE  IInv'
<1> DEFINE label == IF job[m].original = "next" THEN "renameback" ELSE AfterRemove(m)
<1>1. Here(m) /\ job[m].pc = "remove" /\ Running \subseteq {"next"}
  BY HereIs DEF RemoveReplacement, At, Here, StoppedInv
<1>2. /\ label \in {"renameback", "restore", "restart"}
      /\ label = "renameback" <=> job[m].original = "next"
      /\ label = "restore" => job[m].data
      /\ label = "restart" => ~job[m].data
  BY DEF AfterRemove
<1>3. Goto(m, label)
  BY DEF RemoveReplacement
<1> HIDE DEF label
<1>4. /\ Moves(m) /\ job'[m].pc = label /\ job'[m].cmd = job[m].cmd
      /\ job'[m].original = job[m].original /\ job'[m].staged = job[m].staged
      /\ job'[m].safety = job[m].safety /\ job'[m].data = job[m].data
  BY <1>1, <1>2, <1>3, GotoMoves DEF RemoveReplacement, Here, Labels
<1>5. /\ box' \in [Names -> [gen : Nat, state : {"none", "stopped", "running"}]]
      /\ box'["next"] = NoBox /\ box'["base"] = box["base"]
  BY <1>1, Constants DEF RemoveReplacement, Here, TypeOK, Names
<1>6. Running' = {}
  BY <1>1, <1>5 DEF Running, Names, NoBox
<1>7. WorldType' /\ BackupsInv' /\ OneProcess' /\ SchemaNotAhead'
  BY <1>1, <1>5, <1>6 DEF RemoveReplacement, Here, TypeOK, WorldType, BackupsInv, DatabaseKept,
                          OneProcess, SchemaNotAhead
<1>8. EarlyInv(m)' /\ StoppedInv(m)'
  BY <1>1, <1>2, <1>4, <1>6
     DEF Here, EarlyInv, Early, StoppedInv, Stopped, RemoveReplacement, Benign
<1>9. SchemaInv(m)'
  <2>1. job[m].original # "none" => Old(m) = "base" /\ Old(m)' = "base"
    BY <1>1, <1>2, <1>4 DEF Old, Here, JobType, Names
  <2> QED
    BY <1>1, <1>2, <1>4, <1>5, <2>1 DEF Here, SchemaInv, Stopped, RemoveReplacement
<1>10. BeforeInv(m)'
  BY <1>1, <1>2, <1>4 DEF Here, BeforeInv, DatabaseKept, InBackups, RemoveReplacement
<1> QED
  BY <1>1, <1>4, <1>7, <1>8, <1>9, <1>10, MoveKeeps DEF Here

LEMMA RenameBackKeeps ==
  ASSUME IInv, NEW m \in Managers, RenameBack(m)
  PROVE  IInv'
<1> DEFINE label == AfterRemove(m)
<1>1. Here(m) /\ job[m].pc = "renameback" /\ job[m].original = "next" /\ Running = {}
  BY HereIs DEF RenameBack, At, Here, StoppedInv, Stopped
<1>2. /\ label \in {"restore", "restart"}
      /\ label = "restore" => job[m].data
      /\ label = "restart" => ~job[m].data
  BY DEF AfterRemove
<1>3. Goto(m, label)
  BY DEF RenameBack
<1> HIDE DEF label
<1>4. /\ Moves(m) /\ job'[m].pc = label /\ job'[m].cmd = job[m].cmd
      /\ job'[m].original = job[m].original /\ job'[m].staged = job[m].staged
      /\ job'[m].safety = job[m].safety /\ job'[m].data = job[m].data
  BY <1>1, <1>2, <1>3, GotoMoves DEF RenameBack, Here, Labels
<1>5. /\ box' \in [Names -> [gen : Nat, state : {"none", "stopped", "running"}]]
      /\ box'["next"] = box["base"] /\ box'["base"] = NoBox
  BY <1>1, Constants DEF RenameBack, Here, TypeOK, Names
<1>6. Running' = {}
  BY <1>1, <1>5 DEF Running, Names, NoBox
<1>7. WorldType' /\ BackupsInv' /\ OneProcess' /\ SchemaNotAhead'
  BY <1>1, <1>5, <1>6 DEF RenameBack, Here, TypeOK, WorldType, BackupsInv, DatabaseKept,
                          OneProcess, SchemaNotAhead
<1>8. EarlyInv(m)' /\ StoppedInv(m)'
  BY <1>1, <1>2, <1>4, <1>6 DEF EarlyInv, Early, StoppedInv, Stopped
<1>9. SchemaInv(m)'
  <2>1. Old(m) = "base" /\ Old(m)' = "next"
    BY <1>1, <1>2, <1>4 DEF Old
  <2> QED
    BY <1>1, <1>2, <1>4, <1>5, <2>1 DEF Here, SchemaInv, Stopped, RenameBack
<1>10. BeforeInv(m)'
  BY <1>1, <1>2, <1>4 DEF Here, BeforeInv, DatabaseKept, InBackups, RenameBack
<1> QED
  BY <1>1, <1>4, <1>7, <1>8, <1>9, <1>10, MoveKeeps DEF Here

LEMMA RestoreSafetyKeeps ==
  ASSUME IInv, NEW m \in Managers, RestoreSafety(m)
  PROVE  IInv'
<1>1. /\ Here(m) /\ job[m].pc = "restore" /\ Running = {} /\ job[m].safety \in Contents
      /\ Valid(job[m].safety)
  BY HereIs DEF RestoreSafety, At, Here, StoppedInv, Stopped, JobType
<1>2. /\ Moves(m) /\ job'[m].pc = "restart" /\ job'[m].cmd = job[m].cmd
      /\ job'[m].original = job[m].original /\ job'[m].staged = job[m].staged
      /\ job'[m].safety = job[m].safety /\ job'[m].data = job[m].data
  BY <1>1, GotoMoves DEF RestoreSafety, Here, Labels
<1>3. WorldType' /\ BackupsInv' /\ OneProcess' /\ SchemaNotAhead' /\ Running' = {}
  BY <1>1 DEF RestoreSafety, Here, TypeOK, WorldType, BackupsInv, DatabaseKept,
              OneProcess, SchemaNotAhead, Running, Valid
<1>4. EarlyInv(m)' /\ StoppedInv(m)'
  BY <1>1, <1>2, <1>3 DEF Here, EarlyInv, Early, StoppedInv, Stopped, RestoreSafety, Benign
<1>5. SchemaInv(m)'
  <2>1. Old(m) = job[m].original /\ Old(m)' = job[m].original
    BY <1>1, <1>2 DEF Old
  <2> QED
    BY <1>1, <1>2, <2>1 DEF Here, SchemaInv, Stopped, RestoreSafety
<1>6. BeforeInv(m)'
  <2>1. DatabaseKept => InBackups
    BY <1>1 DEF Here, BeforeInv, StoppedInv
  <2> QED
    BY <1>1, <1>2, <2>1 DEF Here, BeforeInv, DatabaseKept, InBackups, RestoreSafety
<1> QED
  BY <1>1, <1>2, <1>3, <1>4, <1>5, <1>6, MoveKeeps DEF Here

LEMMA GiveUpKeeps ==
  ASSUME IInv, NEW m \in Managers, GiveUp(m)
  PROVE  IInv'
<1>1. Here(m) /\ job[m].pc = "restore" /\ End(m) /\ ~Valid(job[m].safety)
  BY HereIs DEF GiveUp, At
<1>2. ~DatabaseKept
  BY <1>1 DEF Here, BeforeInv, StoppedInv
<1>3. Installed' /\ BackupsInv' /\ backups' \in Seq(Contents) /\ configured' \in BOOLEAN
  BY <1>1, <1>2 DEF Installed, Benign, DatabaseKept, GiveUp, Here, BackupsInv, TypeOK
<1> QED
  BY <1>1, <1>3, QuietEnd DEF GiveUp, Here

LEMMA RestartKeeps ==
  ASSUME IInv, NEW m \in Managers, restartPreviousApplication(m)
  PROVE  IInv'
<1> DEFINE n == job[m].original
<1>1. Here(m) /\ job[m].pc = "restart" /\ End(m) /\ Running = {} /\ n \in Names \cup {"none"}
  BY HereIs DEF restartPreviousApplication, At, Here, StoppedInv, Stopped, JobType
<1>2. (Benign => n # "none") /\ (n # "none" => db.schema <= box[n].gen)
  BY <1>1 DEF Here, StoppedInv, SchemaInv, Stopped, Old
<1>3. /\ box' \in [Names -> [gen : Nat, state : {"none", "stopped", "running"}]]
      /\ \A o \in Names : box'[o].gen = box[o].gen
      /\ Running' = IF n = "none" THEN {} ELSE {n}
  <2>1. CASE n = "none"
    BY <1>1, <2>1 DEF restartPreviousApplication, Here, TypeOK, Running
  <2>2. CASE n # "none"
    <3>1. /\ box \in [Names -> [gen : Nat, state : {"none", "stopped", "running"}]]
          /\ box' = [box EXCEPT ![n].state = "running"] /\ n \in Names
      BY <1>1, <2>2 DEF restartPreviousApplication, Here, TypeOK
    <3> HIDE DEF n
    <3>2. /\ box' \in [Names -> [gen : Nat, state : {"none", "stopped", "running"}]]
          /\ \A o \in Names : box'[o].gen = box[o].gen
          /\ \A o \in Names : box'[o].state = IF o = n THEN "running" ELSE box[o].state
      BY <3>1
    <3>3. Running' = {n}
      BY <1>1, <3>1, <3>2 DEF Running
    <3> QED
      BY <2>2, <3>2, <3>3
  <2> QED
    BY <2>1, <2>2
<1> HIDE DEF n
<1>4. WorldType'
  BY <1>1, <1>3, Constants DEF restartPreviousApplication, Here, TypeOK, WorldType, End
<1>5. BackupsInv' /\ Installed' /\ OneProcess' /\ SchemaNotAhead'
  BY <1>1, <1>2, <1>3 DEF restartPreviousApplication, Here, BackupsInv, DatabaseKept, Installed,
                          Benign, OneProcess, SchemaNotAhead
<1> QED
  BY <1>1, <1>4, <1>5, EndKeeps DEF Here

LEMMA RollbackFailsKeeps ==
  ASSUME IInv, NEW m \in Managers, RollbackFails(m)
  PROVE  IInv'
<1>1. /\ Here(m) /\ End(m) /\ job[m].safety \in Contents
      /\ job[m].pc \in {"remove", "renameback", "restore", "restart"}
  BY HereIs DEF RollbackFails, At, Here, JobType
<1>2. ~Benign' /\ (DatabaseKept' => DatabaseKept)
  BY FaultIs DEF RollbackFails
<1>3. /\ db' \in Contents /\ (Valid(db) => Valid(db)')
      /\ db' = db \/ Running = {}
  <2>1. CASE At(m, "restore") /\ Valid(job[m].safety)
    BY <1>1, <2>1 DEF RollbackFails, Here, TypeOK, StoppedInv, Stopped, At, Valid
  <2>2. CASE ~(At(m, "restore") /\ Valid(job[m].safety))
    BY <1>1, <2>2 DEF RollbackFails, Here, TypeOK, Valid
  <2> QED
    BY <2>1, <2>2
<1>4. WorldType'
  BY <1>1, <1>3, Constants DEF RollbackFails, Here, TypeOK, WorldType, End
<1>5. BackupsInv' /\ Installed' /\ OneProcess' /\ SchemaNotAhead'
  BY <1>1, <1>2, <1>3
     DEF RollbackFails, Here, BackupsInv, Installed, OneProcess, SchemaNotAhead, Running
<1> QED
  BY <1>1, <1>4, <1>5, EndKeeps DEF Here

(***************************************************************************)
(* The application and the host.                                           *)
(***************************************************************************)
\* A step of nobody: what it has to leave to the running command.
LEMMA OutsideKeeps ==
  ASSUME IInv, UNCHANGED <<box, backups, configured, lock, job, made, before>>,
         db' \in Contents, BackupsInv', SchemaNotAhead', Benign' => Benign,
         \A m \in Managers : ~At(m, "idle") => (SchemaInv(m) /\ BeforeInv(m))'
  PROVE  IInv'
<1>1. TypeOK'
  BY DEF IInv, TypeOK, At
<1>2. OneProcess' /\ Installed'
  BY DEF IInv, OneProcess, Installed, Running
<1>3. ASSUME NEW m \in Managers PROVE JobInv(m)'
  <2>1. CASE At(m, "idle")
    BY <2>1 DEF IInv, JobInv, At
  <2>2. CASE ~At(m, "idle")
    <3>1. EarlyInv(m)' /\ StoppedInv(m)'
      BY <2>2, HereIs DEF Here, EarlyInv, StoppedInv, Running
    <3> QED
      BY <2>2, <3>1 DEF JobInv, At
  <2> QED
    BY <2>1, <2>2
<1> QED
  BY <1>1, <1>2, <1>3 DEF IInv

LEMMA AppWritesKeeps ==
  ASSUME IInv, AppWrites
  PROVE  IInv'
<1>1. /\ Running # {} /\ db \in Contents /\ Valid(db) /\ db' = [db EXCEPT !.version = @ + 1]
      /\ UNCHANGED <<box, backups, configured, lock, job, made, before, faults>>
  BY DEF AppWrites, IInv, TypeOK
<1>2. db' \in Contents /\ Valid(db)' /\ db'.schema = db.schema
  BY <1>1 DEF Contents, Valid
<1>3. BackupsInv' /\ SchemaNotAhead'
  BY <1>1, <1>2 DEF IInv, BackupsInv, SchemaNotAhead, Running, DatabaseKept, Valid
<1>4. ASSUME NEW m \in Managers, ~At(m, "idle") PROVE (SchemaInv(m) /\ BeforeInv(m))'
  <2>1. Here(m) /\ job[m].pc \notin Stopped /\ (job[m].pc = "remove" => job[m].data)
    BY <1>1, <1>4, HereIs DEF Here, StoppedInv
  <2>2. SchemaInv(m)'
    BY <1>1, <1>2, <2>1 DEF Here, SchemaInv, Old
  <2>3. BeforeInv(m)'
    BY <1>1, <2>1 DEF Here, BeforeInv, DatabaseKept, InBackups, Stopped, Valid
  <2> QED
    BY <2>2, <2>3
<1> QED
  BY <1>1, <1>2, <1>3, <1>4, OutsideKeeps DEF Benign

LEMMA LoseKeeps ==
  ASSUME IInv, LoseDatabase
  PROVE  IInv'
<1>1. /\ db' \in Contents /\ db'.schema = 0 /\ ~DatabaseKept' /\ (Benign' => Benign)
      /\ UNCHANGED <<box, backups, configured, lock, job, made, before>>
  BY Constants, FaultIs DEF LoseDatabase
<1>2. box \in [Names -> [gen : Nat, state : {"none", "stopped", "running"}]]
  BY DEF IInv, TypeOK
<1>3. BackupsInv' /\ SchemaNotAhead'
  BY <1>1, <1>2 DEF IInv, BackupsInv, SchemaNotAhead, Running
<1>4. ASSUME NEW m \in Managers, ~At(m, "idle") PROVE (SchemaInv(m) /\ BeforeInv(m))'
  <2>1. Here(m)
    BY <1>4, HereIs
  <2>2. SchemaInv(m)'
    <3>1. job[m].original # "none" => Old(m) \in Names /\ box[Old(m)].gen \in Nat
      BY <1>2, <2>1 DEF Here, JobType, Old, Names
    <3> QED
      BY <1>1, <2>1, <3>1 DEF Here, SchemaInv, Old
  <2>3. BeforeInv(m)'
    BY <1>1 DEF BeforeInv
  <2> QED
    BY <2>2, <2>3
<1> QED
  BY <1>1, <1>3, <1>4, OutsideKeeps

(***************************************************************************)
(* The theorems.                                                           *)
(***************************************************************************)
LEMMA DeploymentInit == Init => IInv
<1> SUFFICES ASSUME Init PROVE IInv
  OBVIOUS
<1>1. TypeOK
  <2>1. \A m \in Managers : job[m] = NoJob /\ At(m, "idle")
    BY Constants DEF Init, At
  <2>2. job \in [Managers -> JobType] /\ << >> \in Seq(Contents)
    BY Constants, EmptySeq DEF Init
  <2> QED
    BY <2>1, <2>2, Constants DEF Init, TypeOK, JobType
<1>2. Running = {}
  BY DEF Init, Running, NoBox
<1>3. DOMAIN << >> = {}
  OBVIOUS
<1> QED
  BY <1>1, <1>2, <1>3, Constants
     DEF Init, IInv, BackupsInv, Installed, OneProcess, SchemaNotAhead, JobInv, At

LEMMA DeploymentStep ==
  ASSUME IInv, [Next]_vars
  PROVE  IInv'
<1>1. CASE UNCHANGED vars
  BY <1>1 DEF vars, IInv, TypeOK, BackupsInv, DatabaseKept, Installed, Benign, OneProcess,
              SchemaNotAhead, Running, JobInv, At, EarlyInv, StoppedInv, SchemaInv, Old,
              BeforeInv, InBackups
<1>2. CASE Next
  <2>1. ASSUME NEW m \in Managers, NEW cmd \in Commands, lockDeployment(m, cmd) PROVE IInv'
    BY <2>1, LockKeeps
  <2>2. ASSUME NEW m \in Managers, Stop(m) PROVE IInv'
    BY <2>2, NothingRunningKeeps, StopContainerKeeps, StopFailsKeeps, ClearKeeps, RenameKeeps,
       RenameFailsKeeps DEF Stop
  <2>3. ASSUME NEW m \in Managers, Replace(m) PROVE IInv'
    BY <2>3, SafetyBackupKeeps, SkipBackupKeeps, BackupFailsKeeps, ReplaceKeeps,
       ReplaceFailsKeeps, StartKeeps, StartFailsKeeps DEF Replace
  <2>4. ASSUME NEW m \in Managers, Rollback(m) PROVE IInv'
    BY <2>4, RemoveKeeps, RenameBackKeeps, RestoreSafetyKeeps, GiveUpKeeps, RestartKeeps,
       RollbackFailsKeeps DEF Rollback
  <2> QED
    BY <1>2, <2>1, <2>2, <2>3, <2>4, RefuseKeeps, PullKeeps, SelectKeeps, BackupKeeps,
       InstallKeeps, InstallFailsKeeps, KillKeeps, AppWritesKeeps, LoseKeeps DEF Next
<1> QED
  BY <1>1, <1>2

LEMMA DeploymentInductive == Spec => []IInv
BY DeploymentInit, DeploymentStep, PTL DEF Spec

\* At no point of any command, failing, killed or not, do two application
\* processes share the database, or does one run on a database that a later
\* one has migrated; and one command runs at a time (deployment.go:28,
\* deployment.go:236-347).
THEOREM DeploymentInvariant == Spec => []Inv
<1>1. IInv => Inv
  BY DEF IInv, Inv
<1> QED
  BY <1>1, DeploymentInductive, PTL

\* The data a command found when it stopped the application is in the
\* database or in a snapshot until the command has ended: the retention of
\* three snapshots, a failed replacement of the database and a failed
\* rollback lose nothing, because the safety backup comes before anything is
\* replaced (deployment.go:120, deployment.go:237).
THEOREM DeploymentBeforeKept == Spec => []BeforeKept
<1>1. IInv => BeforeKept
  <2> SUFFICES ASSUME IInv, DatabaseKept, NEW m \in Managers,
                      job[m].pc \in {"backup", "replace", "start", "remove", "renameback",
                                     "restore", "restart"}
               PROVE  before = db \/ InBackups
    BY DEF BeforeKept, DatabaseKept, Failed, InBackups
  <2>1. Here(m)
    BY HereIs DEF At
  <2> QED
    BY <2>1 DEF Here, BeforeInv, StoppedInv
<1> QED
  BY <1>1, DeploymentInductive, PTL

\* However a pull, a safety backup, a replacement or a start fails, the
\* installed application runs again when the command is over, under whichever
\* of its names (docs/installation.md:132, deployment.go:306).
THEOREM DeploymentRunsAfterFailure == Spec => []RunsAfterFailure
<1>1. IInv => RunsAfterFailure
  BY DEF IInv, Installed, Benign, Failed, RunsAfterFailure
<1> QED
  BY <1>1, DeploymentInductive, PTL

(***************************************************************************)
(* The directory of snapshots.  The order of the names is the order of     *)
(* creation as long as the last snapshots of the current second are        *)
(* numbered from where it began, which four in a second preserve: then the *)
(* three newest are never among the first names.                           *)
(***************************************************************************)

\* No second saw more than four snapshots.
Uncrowded == \A s \in 1 .. Seconds : busy[s] <= 4

\* The directory is finite, its snapshots carry the serials given out so far,
\* and the seconds to come have seen none.
SerialsGiven ==
  /\ IsFiniteSet(files) /\ Cardinality(files) <= taken
  /\ \A f \in files : f.serial <= taken /\ f.second <= clock
  /\ \A f, g \in files : f.serial = g.serial => f = g
  /\ \A s \in 1 .. Seconds : busy[s] <= taken /\ (s > clock => busy[s] = 0)

\* The snapshots of the current second are numbered from where it began.
SecondNumbered ==
  \A f \in files :
    /\ f.second = clock =>
         f.index < busy[clock] /\ f.serial = taken - busy[clock] + f.index + 1
    /\ f.second < clock => f.serial <= taken - busy[clock]

\* The order of the names is the order of creation.
NamesInOrder == \A f, g \in files : f.serial < g.serial => SortsBefore(f, g)

RetentionIInv ==
  /\ RetentionTypeOK
  /\ SerialsGiven
  /\ Uncrowded => SecondNumbered /\ NamesInOrder /\ KeepsNewest

\* The least of a set of naturals is one of them.
LEMMA LeastIsMember ==
  ASSUME NEW S \in SUBSET Nat, S # {}
  PROVE  Min(S) \in S
<1>1. PICK x \in S : \A y \in S : ~(<<y, x>> \in OpToRel(<, Nat))
  BY NatLessThanWellFounded, WFMin
<1>2. ASSUME NEW y \in S
      PROVE  x <= y
  <2>1. y < x => <<y, x>> \in OpToRel(<, Nat)
    BY Zenon DEF OpToRel
  <2>2. ~(y < x)
    BY Zenon, <1>1, <2>1
  <2> QED
    BY <2>2
<1> QED
  BY <1>2 DEF Min

\* The indices in use in the current second.
InUse == {f.index : f \in {g \in files : g.second = clock}}

\* The name of a new snapshot is free, and its index bounded by their number.
LEMMA NameIsFree ==
  ASSUME RetentionIInv
  PROVE  /\ Snapshot = [second |-> clock, serial |-> taken + 1, index |->
              Min((0 .. Cardinality(InUse)) \ InUse)]
         /\ Snapshot.index \in 0 .. taken
         /\ Snapshot.index \notin InUse
<1> DEFINE current == {g \in files : g.second = clock}
           number == [f \in current |-> f.index]
           free == (0 .. Cardinality(InUse)) \ InUse
<1>1. Snapshot = [second |-> clock, serial |-> taken + 1, index |-> Min(free)]
  BY DEF Snapshot, availableBackupPath, InUse
<1>2. IsFiniteSet(current) /\ Cardinality(current) <= Cardinality(files)
  BY FS_Subset DEF RetentionIInv, SerialsGiven
<1>3. number \in Surjection(current, InUse)
  BY DEF Surjection, InUse
<1>4. IsFiniteSet(InUse) /\ Cardinality(InUse) <= Cardinality(current)
  BY <1>2, <1>3, FS_Surjection
<1>5. /\ Cardinality(InUse) \in Nat /\ Cardinality(current) \in Nat
      /\ Cardinality(files) \in Nat /\ taken \in Nat
  BY <1>2, <1>4, FS_CardinalityType DEF RetentionIInv, SerialsGiven, RetentionTypeOK
<1>6. Cardinality(InUse) <= taken
  BY <1>2, <1>4, <1>5 DEF RetentionIInv, SerialsGiven
<1>7. free # {}
  <2>1. SUFFICES ASSUME (0 .. Cardinality(InUse)) \subseteq InUse
                 PROVE  FALSE
    OBVIOUS
  <2>2. Cardinality(0 .. Cardinality(InUse)) <= Cardinality(InUse)
    BY <2>1, <1>4, FS_Subset
  <2>3. Cardinality(0 .. Cardinality(InUse)) = Cardinality(InUse) + 1
    BY <1>5, FS_Interval
  <2> QED
    BY <2>2, <2>3, <1>5
<1>8. Min(free) \in free
  BY <1>7, LeastIsMember
<1> QED
  BY <1>1, <1>5, <1>6, <1>8

\* While no second is crowded, the last of the current second are all there,
\* and the new one continues their numbers.
LEMMA NameIsNext ==
  ASSUME RetentionIInv, SecondNumbered, KeepsNewest, busy[clock] <= 3
  PROVE  Snapshot = [second |-> clock, serial |-> taken + 1, index |-> busy[clock]]
<1> DEFINE b == busy[clock]
<1>1. clock \in 1 .. Seconds /\ b \in 0 .. 3 /\ taken \in Nat /\ b <= taken
  BY DEF RetentionIInv, RetentionTypeOK, SerialsGiven
<1>2. files \subseteq [second : 1 .. Seconds, index : 0 .. MaxBackups, serial : 1 .. MaxBackups]
  BY DEF RetentionIInv, RetentionTypeOK
<1>3. InUse \subseteq 0 .. b - 1
  BY <1>1, <1>2 DEF InUse, SecondNumbered
<1>4. ASSUME NEW i \in 0 .. b - 1
      PROVE  i \in InUse
  <2>1. PICK f \in files : f.serial = taken - b + i + 1
    <3>1. taken - b + i + 1 \in 1 .. taken /\ taken - b + i + 1 > taken - 3
      BY <1>1
    <3> QED
      BY <3>1 DEF KeepsNewest
  <2>2. f.second <= clock /\ f.second \in Nat /\ f.index \in Nat
    BY <1>2 DEF RetentionIInv, SerialsGiven
  <2>3. f.second = clock
    BY <2>1, <2>2, <1>1 DEF SecondNumbered
  <2>4. f.index = i
    BY <2>1, <2>2, <2>3, <1>1 DEF SecondNumbered
  <2> QED
    BY <2>3, <2>4 DEF InUse
<1>5. InUse = 0 .. b - 1
  BY <1>3, <1>4
<1>6. Cardinality(InUse) = b
  <2>1. 0 \in Int /\ b - 1 \in Int
    BY <1>1
  <2>2. Cardinality(0 .. b - 1) = IF 0 > b - 1 THEN 0 ELSE b - 1 - 0 + 1
    BY <2>1, FS_Interval, Zenon
  <2> QED
    BY <2>2, <1>1, <1>5
<1>7. (0 .. b) \ (0 .. b - 1) = {b}
  BY <1>1
<1>8. Min({b}) = b
  BY <1>1 DEF Min
<1> QED
  BY <1>5, <1>6, <1>7, <1>8, NameIsFree

\* Fewer than three names come after that of one of the last three snapshots.
LEMMA NewestSurvive ==
  ASSUME NEW directory, IsFiniteSet(directory), NEW last \in Nat,
         directory \subseteq [second : Nat, index : Nat, serial : 1 .. last],
         \A f, g \in directory : f.serial = g.serial => f = g,
         \A f, g \in directory : f.serial < g.serial => SortsBefore(f, g),
         NEW f \in directory, f.serial > last - 3
  PROVE  f \in removeOldBackups(directory)
<1> DEFINE later == {g \in directory : SortsBefore(f, g)}
           number == [g \in later |-> g.serial]
           room == f.serial + 1 .. last
<1>1. f.second \in Nat /\ f.index \in Nat /\ f.serial \in 1 .. last
  OBVIOUS
<1>2. ASSUME NEW g \in later
      PROVE  g.serial \in room
  <2>1. g.second \in Nat /\ g.index \in Nat /\ g.serial \in 1 .. last
    OBVIOUS
  <2>2. g.serial # f.serial
    BY <1>1, <2>1 DEF SortsBefore
  <2>3. ~(g.serial < f.serial)
    BY <1>1, <2>1 DEF SortsBefore
  <2> QED
    BY <1>1, <2>1, <2>2, <2>3
<1>3. number \in Injection(later, room)
  BY <1>2 DEF Injection, IsInjective
<1>4. IsFiniteSet(room) /\ Cardinality(room) <= 2
  <2>1. f.serial + 1 \in Int /\ last \in Int
    BY <1>1
  <2>2. /\ IsFiniteSet(room)
        /\ Cardinality(room) = IF f.serial + 1 > last THEN 0 ELSE last - (f.serial + 1) + 1
    BY <2>1, FS_Interval, Zenon
  <2> QED
    BY <2>2, <1>1
<1>5. IsFiniteSet(later) /\ Cardinality(later) <= Cardinality(room)
  BY <1>3, <1>4, FS_Injection
<1>6. Cardinality(later) \in Nat /\ Cardinality(room) \in Nat
  BY <1>4, <1>5, FS_CardinalityType
<1>7. Cardinality(later) < 3
  BY <1>4, <1>5, <1>6
<1> QED
  BY <1>7 DEF removeOldBackups

\* A snapshot is taken, and what must stay when the directory is pruned stays.
LEMMA SnapshotKeeps ==
  ASSUME RetentionIInv, Taken,
         removeOldBackups(files \cup {Snapshot}) \subseteq files',
         files' \subseteq files \cup {Snapshot}
  PROVE  RetentionIInv'
<1> DEFINE directory == files \cup {Snapshot}
<1> USE RetentionAssumption
<1>1. /\ clock \in 1 .. Seconds /\ clock' = clock
      /\ taken \in Nat /\ taken < MaxBackups /\ taken' = taken + 1
      /\ busy \in [1 .. Seconds -> 0 .. MaxBackups]
      /\ busy' = [busy EXCEPT ![clock] = @ + 1]
      /\ \A s \in 1 .. Seconds : busy[s] \in Nat /\ busy[s] <= taken
  BY DEF RetentionIInv, RetentionTypeOK, SerialsGiven, Taken
<1>2. /\ Snapshot.second = clock /\ Snapshot.serial = taken + 1
      /\ Snapshot = [second |-> Snapshot.second, index |-> Snapshot.index,
                     serial |-> Snapshot.serial]
      /\ Snapshot.index \in 0 .. taken /\ Snapshot.index \notin InUse
  BY NameIsFree
<1>3. \A f \in files :
        /\ f \in [second : 1 .. Seconds, index : 0 .. MaxBackups, serial : 1 .. MaxBackups]
        /\ f.serial <= taken /\ f.second <= clock
  BY DEF RetentionIInv, RetentionTypeOK, SerialsGiven
<1>4. \A f \in directory :
        /\ f \in [second : 1 .. Seconds, index : 0 .. MaxBackups, serial : 1 .. taken + 1]
        /\ f.second <= clock
  <2>1. Snapshot \in [second : 1 .. Seconds, index : 0 .. MaxBackups, serial : 1 .. taken + 1]
    BY <1>1, <1>2
  <2> QED
    BY <1>1, <1>2, <1>3, <2>1
<1>5. \A f, g \in directory : f.second = g.second /\ f.index = g.index => f = g
  BY <1>2 DEF InUse, RetentionIInv, RetentionTypeOK
<1>6. RetentionTypeOK'
  <2>1. busy' \in [1 .. Seconds -> 0 .. MaxBackups]
    BY <1>1
  <2>2. \A f \in directory :
          f \in [second : 1 .. Seconds, index : 0 .. MaxBackups, serial : 1 .. MaxBackups]
    BY <1>1, <1>4
  <2> QED
    BY <2>1, <2>2, <1>1, <1>5 DEF RetentionTypeOK
<1>7. /\ IsFiniteSet(directory) /\ Cardinality(directory) <= taken + 1
      /\ \A f, g \in directory : f.serial = g.serial => f = g
  <2>1. IsFiniteSet(files) /\ Cardinality(files) \in Nat /\ Cardinality(files) <= taken
    BY FS_CardinalityType DEF RetentionIInv, SerialsGiven
  <2>2. /\ IsFiniteSet(directory)
        /\ Cardinality(directory) =
             IF Snapshot \in files THEN Cardinality(files) ELSE Cardinality(files) + 1
    BY <2>1, FS_AddElement
  <2>3. \A f \in files : f.serial # Snapshot.serial
    BY <1>1, <1>2, <1>3
  <2>4. \A f, g \in files : f.serial = g.serial => f = g
    BY DEF RetentionIInv, SerialsGiven
  <2> QED
    BY <2>1, <2>2, <2>3, <2>4, <1>1
<1>8. SerialsGiven'
  <2>1. IsFiniteSet(files') /\ Cardinality(files') <= Cardinality(directory)
    BY <1>7, FS_Subset
  <2>2. Cardinality(files') \in Nat /\ Cardinality(directory) \in Nat
    BY <2>1, <1>7, FS_CardinalityType
  <2>3. Cardinality(files') <= taken'
    BY <2>1, <2>2, <1>1, <1>7
  <2>4. \A f \in files' : f.serial <= taken' /\ f.second <= clock'
    BY <1>1, <1>4
  <2>5. \A s \in 1 .. Seconds : busy'[s] <= taken' /\ (s > clock' => busy'[s] = 0)
    BY <1>1 DEF RetentionIInv, SerialsGiven
  <2> QED
    BY <2>1, <2>3, <2>4, <2>5, <1>7 DEF SerialsGiven
<1>9. ASSUME Uncrowded'
      PROVE  SecondNumbered' /\ NamesInOrder' /\ KeepsNewest'
  <2>1. Uncrowded /\ busy[clock] <= 3
    BY <1>1, <1>9 DEF Uncrowded
  <2>2. SecondNumbered /\ NamesInOrder /\ KeepsNewest
    BY <2>1 DEF RetentionIInv
  <2>3. Snapshot.index = busy[clock]
    BY <2>1, <2>2, NameIsNext
  <2>4. \A f \in directory :
          /\ f.second = clock =>
               f.index < busy[clock] + 1 /\ f.serial = taken - busy[clock] + f.index + 1
          /\ f.second < clock => f.serial <= taken - busy[clock]
    BY <2>2, <2>3, <1>1, <1>2, <1>3 DEF SecondNumbered
  <2>5. SecondNumbered'
    <3>1. busy'[clock'] = busy[clock] + 1
      BY <1>1
    <3>2. taken' - busy'[clock'] = taken - busy[clock]
      BY <3>1, <1>1
    <3> QED
      BY <2>4, <3>1, <3>2, <1>1 DEF SecondNumbered
  <2>6. \A f, g \in directory : f.serial < g.serial => SortsBefore(f, g)
    <3>1. \A f \in files : SortsBefore(f, Snapshot)
      BY <2>2, <2>3, <1>1, <1>2, <1>3 DEF SecondNumbered, SortsBefore
    <3>2. \A f \in directory : ~(Snapshot.serial < f.serial)
      BY <1>1, <1>2, <1>4
    <3> QED
      BY <2>2, <3>1, <3>2, <1>1, <1>2 DEF NamesInOrder
  <2>7. NamesInOrder'
    BY <2>6 DEF NamesInOrder, SortsBefore
  <2>8. ASSUME NEW s \in 1 .. taken', s > taken' - 3
        PROVE  \E f \in files' : f.serial = s
    <3>1. PICK f \in directory : f.serial = s
      <4>1. CASE s = taken + 1
        BY <4>1, <1>2
      <4>2. CASE s # taken + 1
        <5>1. s \in 1 .. taken /\ s > taken - 3
          BY <4>2, <2>8, <1>1
        <5> QED
          BY <5>1, <2>2 DEF KeepsNewest
      <4> QED
        BY <4>1, <4>2
    <3>2. directory \subseteq [second : Nat, index : Nat, serial : 1 .. taken + 1]
      BY <1>4
    <3>3. f \in removeOldBackups(directory)
      <4> DEFINE last == taken + 1
      <4>1. last \in Nat /\ f.serial > last - 3
        BY <3>1, <2>8, <1>1
      <4>2. IsFiniteSet(directory)
        BY <1>7
      <4>3. \A g, h \in directory : g.serial = h.serial => g = h
        BY <1>7
      <4>4. directory \subseteq [second : Nat, index : Nat, serial : 1 .. last]
        BY <3>2
      <4> HIDE DEF directory, last
      <4> QED
        BY <4>1, <4>2, <4>3, <4>4, <2>6, NewestSurvive, Zenon
    <3> QED
      BY <3>1, <3>3
  <2> QED
    BY <2>5, <2>7, <2>8 DEF KeepsNewest
<1> QED
  BY <1>6, <1>8, <1>9 DEF RetentionIInv

LEMMA NextKeepsRetention ==
  ASSUME RetentionIInv, [RetentionNext]_retentionVars
  PROVE  RetentionIInv'
<1>1. CASE SnapshotAndPrune
  BY <1>1, SnapshotKeeps DEF SnapshotAndPrune, removeOldBackups
<1>2. CASE RemovalFails
  <2>1. removeOldBackups(files \cup {Snapshot}) \subseteq files'
    BY <1>2 DEF RemovalFails, removeOldBackups
  <2>2. files' \subseteq files \cup {Snapshot}
    BY <1>2 DEF RemovalFails
  <2> QED
    BY <1>2, <2>1, <2>2, SnapshotKeeps DEF RemovalFails
<1>3. CASE Tick
  <2>1. /\ clock \in 1 .. Seconds /\ clock' = clock + 1 /\ clock' \in 1 .. Seconds
        /\ files' = files /\ taken' = taken /\ busy' = busy
        /\ taken \in Nat /\ busy[clock'] = 0
    BY <1>3, RetentionAssumption DEF Tick, RetentionIInv, RetentionTypeOK, SerialsGiven
  <2>2. RetentionTypeOK'
    BY <2>1 DEF RetentionIInv, RetentionTypeOK
  <2>3. \A f \in files : f.serial <= taken /\ f.second <= clock /\ f.second \in Nat
                         /\ f.serial \in Nat
    BY DEF RetentionIInv, RetentionTypeOK, SerialsGiven
  <2>4. SerialsGiven'
    <3>1. \A f \in files' : f.serial <= taken' /\ f.second <= clock'
      BY <2>1, <2>3
    <3>2. \A s \in 1 .. Seconds : busy'[s] <= taken' /\ (s > clock' => busy'[s] = 0)
      BY <2>1 DEF RetentionIInv, SerialsGiven
    <3> QED
      BY <2>1, <3>1, <3>2 DEF RetentionIInv, SerialsGiven
  <2>5. SecondNumbered'
    BY <2>1, <2>3 DEF SecondNumbered
  <2> QED
    BY <2>1, <2>2, <2>4, <2>5
       DEF RetentionIInv, Uncrowded, NamesInOrder, SortsBefore, KeepsNewest
<1>4. CASE UNCHANGED retentionVars
  BY <1>4 DEF retentionVars, RetentionIInv, RetentionTypeOK, SerialsGiven, Uncrowded,
              SecondNumbered, NamesInOrder, SortsBefore, KeepsNewest
<1> QED
  BY <1>1, <1>2, <1>3, <1>4 DEF RetentionNext

LEMMA InitRetention == RetentionInit => RetentionIInv
<1> SUFFICES ASSUME RetentionInit
             PROVE  RetentionIInv
  OBVIOUS
<1>1. IsFiniteSet(files) /\ Cardinality(files) = 0
  BY FS_EmptySet DEF RetentionInit
<1> QED
  BY <1>1, RetentionAssumption DEF RetentionInit, RetentionIInv, RetentionTypeOK, SerialsGiven,
     SecondNumbered, NamesInOrder, KeepsNewest

\* Two snapshots never share a name, and the last three taken are in the
\* directory as long as no second saw more than four, whatever removals
\* failed (createDatabaseBackup, availableBackupPath and removeOldBackups).
THEOREM RetentionInvariant == RetentionSpec => []RetentionInv
<1>1. RetentionIInv => RetentionInv
  BY DEF RetentionIInv, RetentionInv, KeepsNewestUncrowded, Uncrowded
<1> QED
  BY <1>1, InitRetention, NextKeepsRetention, PTL DEF RetentionSpec

\* A pruning that succeeds leaves the last three taken and nothing else, which
\* is what Retained says of the snapshots of Deployment.
LastThreeRemain ==
  SnapshotAndPrune /\ Uncrowded' =>
    {f.serial : f \in files'} = {serial \in 1 .. taken' : serial > taken' - 3}

LEMMA PruningIsExact ==
  ASSUME RetentionIInv, SnapshotAndPrune, Uncrowded'
  PROVE  {f.serial : f \in files'} = {serial \in 1 .. taken' : serial > taken' - 3}
<1> DEFINE directory == files \cup {Snapshot}
<1>1. /\ taken \in Nat /\ taken' = taken + 1
      /\ files' = removeOldBackups(directory)
      /\ files' \subseteq directory
  BY DEF RetentionIInv, RetentionTypeOK, SnapshotAndPrune, Taken, removeOldBackups
<1>2. RetentionIInv'
  BY <1>1, SnapshotKeeps DEF SnapshotAndPrune
<1>3. /\ Uncrowded /\ KeepsNewest /\ SecondNumbered /\ NamesInOrder
      /\ Snapshot = [second |-> clock, serial |-> taken + 1, index |-> busy[clock]]
  <2>1. Uncrowded /\ busy[clock] <= 3
    <3>1. /\ clock \in 1 .. Seconds /\ busy \in [1 .. Seconds -> 0 .. MaxBackups]
          /\ busy' = [busy EXCEPT ![clock] = @ + 1]
      BY RetentionAssumption DEF RetentionIInv, RetentionTypeOK, SnapshotAndPrune, Taken
    <3> QED
      BY <3>1, RetentionAssumption DEF Uncrowded
  <2> QED
    BY <2>1, NameIsNext DEF RetentionIInv
<1>4. \A f \in files :
        f.second \in Nat /\ f.index \in Nat /\ f.serial \in 1 .. taken /\ f.second <= clock
  BY <1>1 DEF RetentionIInv, RetentionTypeOK, SerialsGiven
<1>5. \A f \in files' : f.serial \in 1 .. taken'
  BY <1>1, <1>3, <1>4
<1>6. ASSUME NEW f \in files', ~(f.serial > taken' - 3)
      PROVE  FALSE
  <2> DEFINE later == {g \in directory : SortsBefore(f, g)}
  <2>1. f \in files /\ f.serial \in 1 .. taken /\ f.serial <= taken - 2
    <3>1. Snapshot.serial = taken + 1
      BY <1>3
    <3>2. f # Snapshot
      BY <3>1, <1>1, <1>6
    <3> QED
      BY <3>2, <1>1, <1>4, <1>6
  <2>2. PICK a \in files : a.serial = taken - 1
    <3>1. taken - 1 \in 1 .. taken /\ taken - 1 > taken - 3
      BY <2>1, <1>1, <1>6
    <3> QED
      BY <3>1, <1>3 DEF KeepsNewest
  <2>3. PICK b \in files : b.serial = taken
    <3>1. taken \in 1 .. taken /\ taken > taken - 3
      BY <2>1, <1>1, <1>6
    <3> QED
      BY <3>1, <1>3 DEF KeepsNewest
  <2>4. a \in later /\ b \in later
    <3>1. f.serial < a.serial /\ f.serial < b.serial
      BY <2>1, <2>2, <2>3, <1>1, <1>6
    <3> QED
      BY <2>1, <3>1, <1>3 DEF NamesInOrder
  <2>5. Snapshot \in later
    <3>1. clock \in Nat /\ busy[clock] \in Nat
      BY RetentionAssumption DEF RetentionIInv, RetentionTypeOK
    <3> QED
      BY <2>1, <1>3, <1>4, <3>1 DEF SecondNumbered, SortsBefore
  <2>6. a # b /\ Snapshot # a /\ Snapshot # b
    BY <2>2, <2>3, <1>1, <1>3
  <2>7. IsFiniteSet(later)
    BY FS_AddElement, FS_Subset DEF RetentionIInv, SerialsGiven
  <2>8. IsFiniteSet({a, b}) /\ Cardinality({a, b}) = 2
    <3>1. IsFiniteSet({a}) /\ Cardinality({a}) = 1
      BY FS_Singleton
    <3>2. {a, b} = {a} \cup {b} /\ b \notin {a}
      BY <2>6
    <3> QED
      BY <3>1, <3>2, FS_AddElement
  <2>9. IsFiniteSet({a, b, Snapshot}) /\ Cardinality({a, b, Snapshot}) = 3
    <3>1. {a, b, Snapshot} = {a, b} \cup {Snapshot} /\ Snapshot \notin {a, b}
      BY <2>6
    <3> QED
      BY <2>8, <3>1, FS_AddElement
  <2>10. Cardinality({a, b, Snapshot}) <= Cardinality(later)
    BY <2>4, <2>5, <2>7, FS_Subset
  <2>11. Cardinality(later) \in Nat /\ Cardinality(later) < 3
    BY <2>7, <1>1, FS_CardinalityType DEF removeOldBackups
  <2> QED
    BY <2>9, <2>10, <2>11
<1>7. \A serial \in 1 .. taken' : serial > taken' - 3 => \E f \in files' : f.serial = serial
  BY <1>2 DEF RetentionIInv, KeepsNewest
<1>8. \A f \in files' : f.serial > taken' - 3
  BY <1>6
<1> QED
  BY <1>5, <1>7, <1>8

\* While no second saw more than four snapshots, a pruning that succeeds keeps
\* the three newest and only them ("keeps the three newest snapshots",
\* docs/cli.md:130), whatever earlier removals have left behind.
THEOREM RetentionIsExact == RetentionSpec => [][LastThreeRemain]_retentionVars
<1>1. RetentionIInv /\ [RetentionNext]_retentionVars => [LastThreeRemain]_retentionVars
  BY PruningIsExact DEF LastThreeRemain
<1> QED
  BY <1>1, InitRetention, NextKeepsRetention, PTL DEF RetentionSpec
=============================================================================
