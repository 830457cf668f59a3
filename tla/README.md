# Verification of miniform

TLA+ models of miniform (a self-hosted form backend in Go over one SQLite
database), TLC runs on small instances of them, and TLAPS proofs of their
safety properties for every size. `tla/PROJECT.json` lists components, runs,
mutants, the source lines behind every definition, findings, hazards and
theorems. All paths below are relative to the repository.

## 1. The system and its parts

miniform is one binary: `serve` runs the web server and a job runner, every
other command (`form`, `submission`, `email`, `account`, ...) is a short process
that opens the same database, and `install`, `update`, `restore-db` ... manage a
Docker deployment of the server. Processes share the SQLite database and the
data directory and nothing else; SQLite serialises transactions, so a
transaction is one step in every module, and what the code reads *outside* one
is a step of its own. The interesting behaviour is between those steps.

| component | state | operations | what is hard, what makes it correct |
|---|---|---|---|
| delivery queue (`internal/jobs`) | rows of `webhook_events`, `email_events`; per server process a runner, its batch and its claim | due query, claim by conditional update, load, send, save under the lease, retry plan | several processes, a send that outlives its lease, a crash between acknowledgement and save. Claims exclude each other; a settled row stays settled; every send is accounted for; every queued row is settled |
| event management (`internal/forms/management.go`) | same rows | manual retry, deletion with submission, form | race with a late result |
| uploads (`internal/forms/files.go`, `upload_deletions.go`, `submissions.go`) | rows of `submission_files`; files in `.staging`, `uploads/`, `.deleting`; an in-process RW mutex | stage, commit, promote; quarantine, commit, remove; recovery at start | crash anywhere, a transaction retried after files moved, other processes that do not share the mutex. Committed bytes are never lost, no orphans, quota, no task stuck |
| accounts (`internal/accounts`, `internal/http/auth.go`, `settings.go`, `internal/cli/account.go`) | one user row, sessions; the cookie of a request | `EnsureAdmin`, sign-in, session registration, the two questions in front of every administrative request, sign-out, email and password change by page or command, reset | slow hashing outside transactions; a request acts after its questions were answered. One account, no session survives a credential change, the printed password is the valid one, a stale token has no effect, nothing is done behind a temporary password |
| form definitions (`internal/forms/forms.go`) | `forms` with captcha reference and webhook settings | create, update (read, load, commit), token rotation, delete | read-merge-write from pages and CLI; field-derived recipients need a captcha |
| email notifications (`internal/forms/email_deliveries.go`) | `email_deliveries` | create, update, delete | references from queued events |
| integrations (`internal/integrations`) | mailer and captcha profiles | create, update, delete | a profile in use must not disappear |
| public submission pipeline (`internal/http/public.go`) | none of its own | load form, parse, redirects, captcha with retries, upload, create | the form changes and the server stops while the request is under way, answers of Turnstile are lost. The answer tells whether a row exists; one token, one row |
| deployment manager (`cmd/miniform/deployment.go`) | containers (external), database file, snapshots, lock file | install, backup, update, reload, restore-db with compensations | failure or kill between any two Docker calls. Never two processes on a database, no data loss, the application is running again after a compensated failure |
| database (`internal/database`) | schema, migration markers, triggers | `Migrate` at every start and every CLI database command | crash between its transactions, questions about the schema that are stale in a later one, two processes at once. The conversion keeps what the older release did and does not undo later edits |
| rate limits (`internal/rate_limit_storage.go`) | counters in memory with expiry | get, set, sweep | boundaries of expiry and sweep. An open window is never reset, gone clients are forgotten |
| application lifecycle (`internal/app.go`, `cmd/miniform/main.go`) | listener, loggers, database, runner, contexts | `NewApp`, `RunMigrations`, `Run`, `Close` | a signal or a failure at any step, work that ignores its context. Everything is released, the database outlives the work on it, a signal ends the process |
| administration (pages of `internal/http`, commands of `internal/cli`) | the request or command under way: what it read, what it will write, its answer | show, create, update, rotate, delete of profiles, forms and notifications; read, delete, add, download and copy entries | what is read, checked and written is spread over several accesses, between which other pages and other processes commit. Answers are true, names stay unique, a secret that was not given stays, files are not replaced or lost |
| export (`internal/forms/export.go`) | none | count, load, load the forms | three readings without a transaction. What is sent is complete and within its limits |
| rendering, configuration, HTTP set-up | none or read-only | | see section 7 |

Interactions: a public request loads a form (FormConfig), stages its files
(UploadLifecycle) and in one transaction creates the submission, its file rows
and its events (UploadLifecycle.`CommitUpload`, FormConfig.`CreateSubmission`,
DeliveryQueue.`CreateEvent` are the three views of that transaction); the runner
of some server process claims the event (DeliveryQueue) and reads the
notification as it is then (FormConfig.`SendEmail`). What comes before that
transaction, and what the submitter is told after it, is PublicAdmission. Deleting a form or
submission removes the events under the runner's feet (`DeleteEvent`,
`DeleteForm`) and the files (`BeginDelete`). A start (AppLifecycle) runs
`Migrate` (LegacyMigration, and its repeated part in FormConfig), recovery
(UploadLifecycle) and `EnsureAdmin` (Accounts). A deployment command
stops and starts whole servers (Deployment). An administrator works through a
page, behind the questions of AdminSessions, or through a command, which asks
none; either way an operation is a few accesses to the database with others
in between (Administration).

## 2. Plan

Order: most important first. Items 1-10 and 12 are done.

1. `DeliveryQueue` with the abstract `DeliveryLedger` it implements; proofs.
2. `UploadLifecycle`: files against rows, in one process and across processes.
3. `Accounts`, and `AdminSessions` over it: requests and account commands; proofs.
4. `Deployment` and `BackupRetention`.
5. `FormConfig`: forms, notifications, profiles, submissions and events; proofs.
6. `LegacyMigration`: the conversions of `Migrate`, their marker, two processes.
7. `AppLifecycle`: start and ordered shutdown, composed with `LegacyMigration`.
8. `PublicAdmission`: limiters and their storage, the checks and answers of a
   public submission, the retried captcha verification.
9. `Console`, `Editing`: what pages and commands have in common, and the editing
   of the four kinds of configuration rows.
10. `Administration`: the inbox, downloads and copies, and the CSV export.
11. Open: pure algorithms (normalisation of allowed origins, submission filters,
    recipients) against reference definitions over bounded inputs.
12. Proofs of the safety properties of every module (section 6): done; every
    invariant and the refinement that a run checks are theorems.

Composition: DeliveryLedger is instantiated by DeliveryQueue under a refinement
mapping; AppLifecycle extends LegacyMigration, whose steps are those of the
server's preparation and of a command-line process beside it; AdminSessions
extends Accounts, whose steps its requests and commands take, and is proved to
implement it; Administration extends Editing, which extends Console. The other
modules share transactions but no control, so they are checked side by side and
not multiplied. A later step can put `CreateSubmission` of FormConfig and the
claim of DeliveryQueue into one module.

## 3. Modules and how they correspond to the code

### DeliveryQueue, DeliveryLedger

`status`, `attempts`, `nextAt` are the columns of an event row (`next_attempt_at`
doubles as the lease). Each worker is a server process: `proc` is the table it
is working on, `batch` the due ids with the sort key they had when queried,
`job` the claimed row, its lease and the state to be saved. One step each:
`StartBatch` (`dueEventIDs`), `claimEvent` (the conditional update; it uses the
time taken before the retry loop), `ClaimLost`/`SkipEvent`, `LoadEvent`, the
send (`PostWebhook`, `SendEmail` and their failures, `RefuseWebhook`,
`RefuseEmail` for missing or disabled settings), `saveClaimedState` (conditional
on the lease), `FinishBatch`, `EndBatch`, `Restart` (a crash of the process) and
`DatabaseError`. `CreateEvent`, `retryDeliveryEvent`, `DeleteEvent` come from
`internal/forms`. Message bytes, headers and errors are left out
(`last_attempt_at`, `last_attempt_err` too): a send is acknowledged or not. The
ghosts `acked` and `unrecorded` count acknowledged sends and those whose result
was lost.

`DeliveryLedger` is what an administrator may rely on: queued until recorded,
recorded delivered only after an acknowledgement, reopened only if failed.

### UploadLifecycle

Files move between places (`staging`, `stored`, `quarantine`, removed); rows
exist or not. Uploads, deletions (of a submission or of a form) and the start-up
recovery are tasks with a program counter, each in a process: `procOf` is one of
the constant `Deployments`, chosen at the start. The RW mutex
`submissionFilesMutex` is the pair `Writers`/`Readers`, *per process*.
`RetryDelete` is the rollback and repetition of the deletion transaction by
`dbtxn.WithRetry`, which runs `finish` inside the attempt and again after it.
The finish loops visit files in any order. The directory of an operation is
abstracted to the task that owns it. Failing recovery is a crash of the server.

### Accounts, AdminSessions

`users` is the table (empty or one row with email, salted hash, the
must-change flag), `sessions` the table of active sessions, and a sign-in keeps
the copy of the row it verified. Hashing and comparing happen outside
transactions, so `Authenticate`, `RecordLogin`, `RegisterSession`,
`VerifyPasswordChange`, `storePassword` ... are separate steps. `EnsureAdmin` is
`BootFindsAdmin`, `BootPrepares` (hash), `BootCreates` (recount, insert and print
in one transaction) or `BootTooLate`, with `BootFails` for a failed print or
commit.

In `AdminSessions` a request (`Requests`) arrives with the cookie of some
sign-in, passes `RequireSession` and, on the routes that have it,
`RequirePasswordChanged`, and only then acts: `Work` (any page), `ShowSettings`,
`AdminLogout`, or a change of credentials, which looks the account up
(`currentUser`), checks (`PassChecks`) and stores (`StoreChange`). An account
command starts with `GetAdmin` and goes on with the same change. Each of these
is an access to the database of its own. The signature and the expiry of a
cookie are those of its session; `sound` is history, whether the token was good
when the request arrived.

### Deployment, BackupRetention

`Deployment` models one host: up to two containers under the application's names
(Docker and Matcha are external: `NewBox`, `Migrated`), the database as a schema
version with a generation of data, the snapshots, the lock and the command of
each manager process. The guards of each step are the early returns of
`runDeploymentCommand`; every step can fail (`StopFails`, `RenameFails`,
`StartFails`, `ReplaceFails`, `BackupFails`, `InstallFails`) and the manager can
be killed between two (`Kill`). A failed Matcha reload keeps the previous
container in place, as the code in `restartDeployment` assumes. Snapshots are
ordered by time here; that their *names* are is BackupRetention's subject, where
a snapshot is (second, index) and pruning sorts as strings do. The action
`SnapshotAndPrune` is the part of `createDatabaseBackup` that names the snapshot and
prunes the directory; `RemovalFails` is the same with a removal that fails.

### FormConfig

Forms, profiles and notifications are rows with live/deleted states and ids that
are never reused (AUTOINCREMENT). An update of a form is three steps
(`ReadSettings` in the caller, `LoadPrimary`, `Update`), as in `formUpdate` and
`AdminFormsUpdate` followed by `forms.Update`; notification changes are single
steps whose settings range over everything a page can post, which includes what
the CLI merges from a stale read. A public request is `LoadForm`,
`LoadDeliveries`, `verifyCaptcha`, `CreateSubmission`; the honeypot, which
stores a submission without events, is covered by `RefuseSubmission`, which
leaves none either. Events remember their first notification and recipient
source as ghosts. `Migrate` is the backfill that runs at every start. Names, templates,
addresses and webhook settings are left out.

### LegacyMigration, AppLifecycle

`LegacyMigration` has the tables of an older release that the conversions read
and write; a database is a value of the constant `Databases`. Each process walks
through `Migrate`: `InspectConfiguration`, `InspectAccounts` (the questions, asked
outside any transaction), `MigratePasswordState`, `MigrateSchema`,
`ConvertConfiguration` (one transaction: keys of profiles, recipients, then, unless
the marker is there, captcha profiles of forms and incomplete notifications) and
`ReconcileDeliveryRecords`; `StopMigrating` ends it anywhere. The ghost `legacy`
keeps the first database, from which `Challenge` says, independently of the
conversion, what the older release asked of a submission. A value that is not given is
`Blank`, and `OrElse` is the fallback from one value to the next; the first entry of a
list that qualifies is the least of the indices that do (`FirstKey`). A cloned profile
has the id <<profile, form>>, after the name `legacyCaptchaClone` gives it. What a
database of an older release may look like is `DatabasesAssumption`: its types, the
default in a column that is missing, references that exist, and no profile with the
name of a clone.

`AppLifecycle` is one server process. `main` is the step of its main goroutine
through `NewApp`, `RunMigrations`, `App.run` and `App.Close`; `held` is what has
been acquired, `ctx` which contexts are cancelled (the jobs' context descends
from the signal's), `http` and `runner` are the other goroutines. Any step of
`NewApp`, of the preparation, the checkpoint and the server can fail, a signal
or a kill can come anywhere. The end of the preparation is one step each for
recovery and `EnsureAdmin`, whose insides are UploadLifecycle and Accounts. Fiber
is external: its shutdown closes a listener it serves and waits for the
requests; a `Serve` that comes after it is ended by the deferred close of the
listener (requests admitted in between start with a cancelled context: `late`).

### PublicAdmission

A request takes one step for the two limiters, one for the read of the form
with its checks (`LoadForm`), one for body and redirects (`CheckInput`), one per
attempt to verify its token, and one for files and transaction
(`CreateSubmission`, whose insides are UploadLifecycle and FormConfig). It keeps
the form as loaded; the administrator may edit or delete it, and the server
cancel all contexts, between any two steps. What a request brings is a record of
choices (`Inputs`): the text of fields, tokens and addresses is reduced to what
the code distinguishes; hosts are sequences of labels because `originMatches`
compares suffixes at dots. The limiters count in the storage of
`rate_limit_storage.go` (`Get`, `Set`, `sweepExpired`), each in one step because
Fiber's middleware holds a lock around its two calls; both limiters are met at one
moment. Turnstile is external: a token is spent by the first verification that
reaches it, and accepted again only under the same idempotency key. A call that
brings no verdict is repeated (`VerifyLost`: no answer, a status of the 500s) or
not (`VerifyAborted`: cancelled, another status, a body cut off). The second kind is
answered as a wrong token is, with the status `captcha`; the ghost `abandoned`
remembers which requests it met, so that `RepetitionHarmless` can say that no other
refusal of a good token comes from the network.

### Console, Editing, Administration

`Console` is what pages and commands share. `job` says for each operator how far
its operation is and what it has in hand: the values given (`ask`), the values
merged with what is stored (`put`), what it created, found or moved away, and
its answer, in which an exit code of `internal/cli/errors.go` and the HTTP status
of the corresponding page are one value. A command settles flags and files before it connects to
the database (`Parse`); any step may fail for a reason of its own (`Fails`).

`Editing` has the rows of one table, which `table` chooses: mailer profiles,
captcha profiles, forms or notifications. The operations are nearly the same,
and the guards say where they differ: what must be unique (`Taken`), what a blank
field or an omitted flag means (`Asks`, `Merged`), what is looked up again in between
(`UpdateCheck`), how a row that is gone shows (the rows affected, or the
reading after the UPDATE, `Reload`), and what stops a deletion (`ProfileUsage`
first, then the foreign keys in `Remove`). Notifications here are what one form
has; `owner` is that form. A rejected reference (`Referring`) is nondeterministic.
Transactions begin IMMEDIATE, so none commits while another is open (`Writable`).

`Administration` adds what is done to the entries of forms. The export is
`Measure`, `Find` and `Preload`, each with the limits checked in it. A deletion
is open (`erase`) from the move of the files to the commit, and its failure puts
them back, or not, when the process dies: then they stay among what it holds (`hold`),
until the recovery of a later start, which is in UploadLifecycle. `Publish` ends a copy of a file with a link to a free
name or, with `--force`, a rename. Visitors' entries arrive at any time
(`Receive`). `seen`, `wrote` and `moved` are history.

## 4. What the runs check

| run | module, cfg | result |
|---|---|---|
| `delivery_queue` | MCDeliveryQueue | `Inv` (types, `RowsConsistent`); `ClaimExclusive` (one owner per row); `LostOnlyByExpiry`; `AckAccounting` (sends = recorded + to be recorded + lost); refinement `ImplementsLedger` |
| `delivery_liveness` | MCDeliveryLive | `EventuallySettled` |
| `uploads` | MCUploads | in one process and spread over server and commands: `Inv` (types, `QuotaRespected` for uploads of the server, `NoRowsWithoutForm`); `BytesPreserved`; `NoOrphan` and `SettledWhenQuiet` in one process; `TasksEnd` |
| `uploads_startup_race` | MCUploadsStartup | violated: recovery meets an upload of a CLI process |
| `admin_sessions` | MCAdminSessions | `AdminInv` (types, `OneAccount`); `SessionsMatchCredentials`; `InitialPasswordKnown`; `StaleTokensPowerless`; `TemporaryPasswordGate` |
| `deployment` | MCDeployment | `Inv` (types, `OneProcess`, `SchemaNotAhead`); `BeforeKept`; `RunsAfterFailure` |
| `backup_retention` | MCBackupRetention | `RetentionInv`: types, names stay unique, and `KeepsNewestUncrowded`: the three newest snapshots stay unless a second sees more than four |
| `form_config` | MCFormConfig | `Inv` (types, `ReferencesExist`); `Safeguarded`; `VerifiedAtCreation` |
| `notification_redirect` | MCNotRedirected | violated: the backfill of the next start redirects events of a deleted notification |
| `app_lifecycle` | MCAppLifecycle | `Inv` (types, `ReleasedAtExit`, `SignalIsNoError`); `DatabaseOutlivesWork`; `ServesPrepared`; `SignalStops`; of the migration: `EffectKept` (`ProtectionKept`, `RoutesKept`), `EditsSurvive`, `InitialPasswordMustGo` |
| `public_admission` | MCPublicAdmission | `Inv` (types, `RedirectsStayHome`, `SweptInTime`); `AnswersAreTrue`; `StoredOnlyVerified`; `OneRowPerToken`; `RepetitionHarmless` (attempts that are repeated; what is given up is answered like a wrong token); `RateHolds` |
| `administration` | MCAdministration | `Inv` (types, `RowsSound`, `OnlyForceReplaces`, `FilesAccounted`); `ToldTheTruth`; `SecretsKept`; `ExportFaithful` |

Every property of a passing run has a mutant in PROJECT.json: a plausible error
in one mapped definition that violates it in the same run. `Inv` is the
conjunction of a module's type invariant and its plainer state invariants; its
mutant violates one of them.

## 5. Bounds and fairness

*DeliveryQueue*: a webhook and an email row, two workers, lease 2, time to 3,
limit 2, one fault, one manual retry. A lease can expire under its owner, be
taken, and expire again; both workers can hold the same row; a retry can meet a
late result. Batch size 2 with one row in each table; the batch smaller than the
queue is in the liveness instance (two rows, batch 1). Rows do not interact
except through the batch, which is why two suffice; the proofs are for any
number.

*DeliveryLive*: fairness is weak fairness of each worker's next step (the
runner's loop and Go's scheduler) and of the clock. The clock must not pass a
lease while its owner is still sending (`SendsInTime`): the webhook client gives up after 10 s and
SMTP after 15 s, the lease is one minute. Without it a row could be sent and
reclaimed for ever. Faults and manual retries are finitely many, since a
process that always crashes settles nothing. Times are shifted back when the
clock reaches its bound, which keeps every comparison.

*UploadLifecycle*: two uploads (one of two files), deletion of one submission
and of the form that holds both, two faults (crashes, failed transactions,
failed file operations), so that a recovery or a rollback can fail as well; a
quota of two files with three wanted. Two deployments: all in the server, or one
upload in the server and every other task in a process of its own. Fairness: weak fairness of every task's steps and of
the start of the server, as goroutines that can run do run, and a crashed
server is restarted. `TasksEnd` needs no strong fairness because the mutex is
granted once and for all when it is free.

*AdminSessions*: two racing starts, two sign-ins, one request and one account
command, two passwords and addresses, sessions that can expire (time to 2,
timeout 1). What a request meets between two of its steps is then the expiry of
its session, a sign-in, or the whole of a command that changes or resets the
credentials. The proofs are for any number of each.

*Deployment*: two managers, two versions, three generations of data, three
faults (of which one command needs at most two to reach its last compensation),
of any kinds, the same one again included.

*BackupRetention*: three seconds, eight snapshots, so that seconds with three, four
and five of them occur. The clock is monotone.

*FormConfig*: one form, mailer, captcha, editor and request, two notifications.
Two notifications are needed (primary and additional; the deleted and the next);
one editor is enough because
notification changes, deletions and migrations already interfere with one
editor's three steps. The proofs cover any number of each.

*AppLifecycle*: a server that starts twice, one command-line process, one request,
one fault, one edit by the administrator (of the form whose profile is cloned, or
of the password). Two databases with two forms on one captcha profile: one where
policy and overrides disagree and a form has a host of its own, so that it needs
a clone, one that a release in between has configured. A second start is needed
for interrupted migrations and for what runs again; a second process for stale
answers about the schema. Fairness: weak fairness of the main goroutine's next
step and of the shutdown deadline; none of handlers, processors or the HTTP
goroutine, so `SignalStops` holds even when they hang. The job runner's two
processors are one batch.

*PublicAdmission*: two submissions with any of six shapes and one that only uses up
the limits, two tokens (a good one and one solved for another host), two
attempts at verification with two faults, so that both attempts can be lost;
limits of two and one per window of two ticks, time to three, which is a whole
window and a sweep interval. One edit or deletion of the form. No liveness is
claimed; the attempts are bounded by `attempts`.

*Administration*: two operators, each with one operation of any kind, by page or
command, on one of the four tables; two names and secrets, two rows, so that
names collide and a row is created beside another; three entries of one or two
bytes and fields against limits of two entries, three bytes and two fields, so
that each limit of the export is met and passed between its readings. Two operations
suffice for the hazards listed, each of which is one operation that commits
between two accesses of another, next to which visitors and assignments act as
often as they like.

CHECK_DEADLOCK is off where the system stops for lack of bounded inputs (every
task done, no form left); the delivery runs and `app_lifecycle` keep it on.

## 6. What is proved

Every theorem is an invariance (or refinement) argument: `Init => Inv`,
`Inv /\ [Next]_vars => Inv'`, then PTL. The bounds of the runs are constants, so
the theorems hold for every bound. The proofs assume the ASSUMEs of
the modules, which TLC evaluates on every run:

* the default address is one, every start has a password to print, sessions last
  (AccountsAssumption), and requests are among the actors that can change the
  credentials (AdminSessionsAssumption);
* disjoint row ids that are numbers, positive lease and delays (EventsAssumption,
  QueueAssumption); a null that is no row, and forms that are no profiles
  (FormConfigAssumption);
* uploads have finitely many files each and share none, as every file is stored
  under a fresh random name in the directory of its submission; a deletion is not
  an upload, and that of a form takes all its submissions (UploadAssumption);
* positive limits and window lengths (AdmissionAssumption); a star replaces
  every other allowed origin, and the address of a client is not the key of the
  limiter for all (AdmissionData);
* a value that is kept is not a blank one, and a blank one is no secret
  (ConsoleAssumption, EditingAssumption); the program that owns a file
  beforehand is no operator (AdministrationAssumption); no manager is
  called "nobody" (DeploymentAssumption);
* databases of older releases are well-formed: typed, with the default where a column is
  missing, references kept by foreign keys, and no profile with the name of a clone
  (DatabasesAssumption); the forms the administrator edits are forms
  (MigrationAssumption); there is a first second (RetentionAssumption).

`UploadBytesPreserved`, `UploadNoOrphan` and `UploadSettledWhenQuiet` assume besides
that `OverlapStartup` is FALSE, that is, that no command uploads or deletes while a server
starts. Without it they are false: that is the finding of `uploads_startup_race`.

* **DeliveryQueueProofs** (any rows, workers, lease, faults). `QueueTypeOK`;
  `QueueClaimExclusive` and `QueueLostOnlyByExpiry` together, by `LeaseInv`: a
  worker that owns its lease has exactly the row's `next_attempt_at`, a claim
  needs that time to have passed and writes a later one, so leases of one row
  are strictly increasing and two owners cannot be equal. `QueueRowsConsistent`
  needs `RowsInv`: the copy of the attempt counter a worker carries (`seen`) is
  the row's while it owns the lease (`Fresh`), and what it is about to save is
  within the limit (`Decided`); with the types it is `QueueInv`. `QueueSettledIsStable` follows, because a settled
  row has no lease to own. `QueueImplementsLedger` needs `AckInv`: a worker about
  to record success for a row has an acknowledgement of that row.
  `QueueAckAccounting` counts the workers that have an acknowledgement in hand:
  each step moves one worker in or out of that set or none (`CountInv`). That the
  set is finite is part of the invariant, so no number of workers is assumed.
* **AdminSessionsProofs** (any number of starts, sign-ins, changes, requests and
  commands). Of Accounts: `AccountsTypeOK`, `AccountsOneAccount`,
  `AccountsSessionsMatch`, `AccountsInitialPasswordKnown`, from `AccountsInv`:
  sessions match the row (`RowsMatch`), nothing exists before the account
  (`NobodyYet`), and the hash a start carries is of the
  password it will print (`BootKnows`).
  `AdminImplementsAccounts`: a step of a request or command is a step of
  Accounts or leaves the account and the sessions alone, so that these
  theorems carry over (`AdministrationInv`,
  `AdministrationSessionsMatch`, `AdministrationPasswordKnown`).
  `AdministrationStaleTokens` and `AdministrationPasswordGate` need `RequestInv`:
  an inactive session never becomes active again (`NoResurrection`), so a request
  that finds its session active came with a good token (`TokenKnown`); and no
  step brings a temporary password back (`PasswordStaysChanged`), so what the
  second question found still holds when the handler runs (`Gated`).
* **FormConfigProofs**. `FormConfigTypeOK`, `FormConfigSafeguarded`,
  `FormConfigReferencesExist` (together `FormConfigInv`),
  `FormConfigVerifiedAtCreation`. None of the
  invariants is inductive alone: an update checks its own settings before its
  transaction (`PendingInv`), and names its primary notification by an id read
  earlier. `CarriedInv` says that such an id still means a row of the same form
  or of none, because ids only grow; with it, the check of the settings among
  themselves and the check of the *other* notifications cover the form. The
  same argument, with the foreign key, gives that an event's notification is one
  of its form's.
* **UploadLifecycleProofs** (any uploads, deletions, files and distribution over
  processes). `UploadInvariant` from `RowsInv`: an upload's rows appear with its
  commit, finitely many, and the quota counts them. The bytes
  (`UploadBytesPreserved`) need `FilesInv`: recovery runs with no other task
  (`RecoveryAlone`); until its commit the files of an upload are named by no row
  and in no other task's hands (`UploadInv`); a file counted as unreferenced
  stays so until it is removed (`CountsInv`), because its upload is over or its row is gone for good.
  One lemma (`UploadFootprint`) says what any step of a task may touch, and one more
  step per action settles the rest. In one process the mutex makes a deletion the only
  task (`Alone`); then a file counted as referenced stays so (`ReferencedInv`), what
  a deletion quarantines is what rows name (`QuarantineInv`), and every file in a
  staging root is in the hands of a task that will settle it, unless something
  failed since the last recovery (`Accounted`). Together they are `ProcessInv`, which gives
  `UploadNoOrphan` and `UploadSettledWhenQuiet`.
* **PublicAdmissionProofs** (any requests, tokens, forms, limits). Of a request,
  `SubmissionInv`: a token is spent by a request that brought it (`SpentInv`),
  and each request was told what happened (`Told`), passed its redirects before
  anything else (`RedirectsChecked`), has consent from the step `verified` on
  (`ConsentInv`), and fails a good token only where another request brought the same one
  or its own verification was given up (`Harmless`). These give `AdmissionAnswersAreTrue`, `AdmissionStoredOnlyVerified`,
  `AdmissionOneRowPerToken` and `AdmissionRepetitionHarmless`. Of the limiters,
  `SweepInv`: a storage is swept again before an entry in it has been stale for
  an interval; with it `AdmissionInvariant`. `AdmissionRateHolds` is about every interval of a
  window's length, which may meet two windows; `RateInv` says per key that an
  open window began with a pass and counts every pass since, so that of the
  window's length before it began at most the limit less one were left.
* **AdministrationProofs** (any operators, on any of the four tables).
  The invariant has a part for the rows (`RowsInv`), the entries (`MailInv`), the
  destination of copies (`DestInv`) and for each operation: what it has done and
  what that says of its target (`Done`), where the secret it is about to write
  comes from (`Merging`), what the readings of an export had in common
  (`Exporting`). The argument is what the steps of one operation leave of
  the others: ids are not used again, so what is gone stays gone; an entry never
  changes; every secret a target has had since an update began is among those
  the update has seen. An export is complete because what was measured and is
  still there was found: the reading takes one entry more than the limit allows,
  and so all, if it is not refused (`NewestIsAll`).
  `FilesAccounted` needs more than the shape of the steps: a deletion brings back
  what it moved, and this is right only if nobody else deleted the entry meanwhile.
  `FilesInv` says that at most one deletion is open (`Writable`), that its entries are
  there with none of their files in place, and that no two operations hold a file
  in common; `Steady` is what every step that moves no file leaves as it was.
  The sum of bytes is a fold over a finite set; the proofs use only that equal
  sets have equal sums.
* **DeploymentProofs** (any number of managers, commands and faults). The invariant
  says what is true at each label of the command that holds the lock. Before the
  stop the application runs if it is installed (`EarlyInv`); after it nothing
  runs, except a failed replacement under "next" while it is to be removed
  (`StoppedInv`); the container to be restarted (`Old`, which the renaming
  moves) knows the schema of the database or of the safety backup it will be
  started on (`SchemaInv`); and what was there is in the database or among
  the snapshots (`BeforeInv`), which contain the one just taken whatever else
  the retention removes (`RetainedIs`). No step of a command touches another's
  job, as `TypeOK` lets only the holder of the lock have one.
  Of BackupRetention, `RetentionInvariant` and `RetentionIsExact`. That a name is free is
  a counting argument: n names of a second cannot use n + 1 indices. That the newest
  stay needs more than the property: the snapshots of the current
  second are numbered from where it began (`SecondNumbered`), so that the first free
  index is the next one while the last three are there (`NameIsNext`), the order of names
  is that of creation (`NamesInOrder`), and at most two names come after one of the last
  three. The three facts hold each other up, and a fifth snapshot in a second
  breaks them. `RetentionIsExact` adds that a pruning that succeeds leaves nothing
  else, also what earlier failures left behind: this is what Deployment assumes
  of its snapshots (`Retained`).
* **LifecycleProofs** (any databases of older releases, processes, forms, requests,
  starts and faults). `LifecycleInv` is the invariant of the migration
  (`MigrationInv`) with that of the server's process (`ProcessInv`).
  `EffectKept` alone says nothing of a process between two transactions: `SchemaKnown`
  says that the columns of the older release stay, and what a process found out
  about them is true enough (one that does not know the new column
  has not seen it in the older release); `ConvertedOnce`, that up to the marker the
  tables are as they were and nobody has edited them, since the administrator comes
  through a process that has finished. So the one conversion reads what the
  older release wrote. `ConversionKeepsChallenge` compares what it does to a form with
  `Challenge`, case by case, and `NoNewClones` shows that a repeated conversion makes
  no clone. `MigrationEditsSurvive` follows from the marker, `MigrationInitialPasswordMustGo`
  from the column and the flag being written in one transaction.
  The process: goroutines exist from `App.Run` on (`Spawned`); what is held at each
  step of `main` (`Held`); each part of the shutdown has waited for its goroutines,
  unless it ran out of time, which the result shows (`WaitedFor`); and whoever works
  has a prepared database (`Prepared`). With them `LifecycleInvTheorem`,
  `LifecycleDatabaseOutlivesWork` and `LifecycleServesPrepared`. The steps of the server that
  migrate are those of the migration, so its invariant is proved once for the server and
  for the command beside it (`MigrateKeeps`).

Only model-checked: the liveness properties `EventuallySettled`, `TasksEnd` and
`SignalStops` (fairness and ENABLED are outside the prover's reach), and what recursion
and folds compute for every input (so is induction over data): that the sum of
sizes in `Bytes` is one.

## 7. What is not modelled, and why

Template rendering, HTML, the text of a CSV (quoting and the neutralising of
formulas), MIME building, parsing of requests and flags, help and output keep no state;
previews and the demo page only render. The HTML code a form is given to embed is text.
Configuration is read once at start and appears
as CONSTANTS. The web framework's set-up adds no
state of its own to the operations above. The limiters of the sign-in are those
of public submissions with other limits; the checkpoint of the write-ahead log
matters only as a step that can fail, since SQLite reads the log after a crash.
The lists of entries, events and rows (`list`, the inbox and its filters) are one query each, and
answer with what is there; `event retry` is `retryDeliveryEvent` of DeliveryQueue.
A transaction that fails is a step not taken; SQLite itself, Docker, Matcha, the
mail server, Turnstile and the clock are external: they answer in every way the
code distinguishes.

## 8. Disagreements between the code and its documents

Each of these is a run that must find a violation; the quoted lines are in
PROJECT.json.

1. `uploads_startup_race`: `docs/architecture.md:58` makes recovery safe by
   database references; it removes the staged bytes of a CLI upload that is
   about to commit.
2. `notification_redirect`: `docs/email-notifications.md:142` says events of a
   deleted notification fail; the backfill of the next start hands them to
   another notification of the form.

Noticed while modelling, stated here without a run:

* `docs/configuration.md:26` calls the retry limit the maximum number of
  delivery attempts; a send whose result a crash loses is not counted.
* `docs/configuration.md:22` calls the upload quota global; submissions created
  by the CLI pass no limits (`QuotaRespected` is about uploads of the server).
* `docs/cli.md:130` promises the three newest snapshots; the fifth of one second
  takes the name the pruning freed and is pruned itself.
* `docs/architecture.md:62` says field recipients always require Turnstile; a
  queued event of an unverified submission follows its notification's later
  change to a field recipient.
* `docs/cli.md:167` says `form update` preserves omitted flags; what another
  editor commits between its read and its write is overwritten.
* `docs/cli.md:340` promises that a submission is deleted with its upload
  directory; `submissionFilesMutex` is one process's, so a deletion by the CLI
  between the count and the rename of an upload in the server leaves the file
  (`NoOrphan` holds in one process only).
* `ChangePassword` stores by user id without rechecking the password it verified
  outside its transaction, unlike `RegisterSession`, so it can overwrite one that
  was set meanwhile (`storePassword` in Accounts).
* The recipient that an administrator clears on a disabled notification comes back from
  `overrides_json` with the next `Migrate`, which does that part every time.
* A Turnstile answer cut off in its body is not repeated (`turnstile.go:111`) and
  refuses a good token with the words for a wrong one (`VerifyAborted`,
  `public.go:295-313`); so do a status of the 300s or 400s and a cancelled context. The
  documents promise another attempt, and then service unavailability, for timeouts only
  (`CHANGELOG.md:60`, `docs/audit-2026-10-05.md:18`), so this has no run;
  `RepetitionHarmless` and its theorem exclude it and say so.
* An update that leaves a field out writes back the value it read, so it undoes
  a change of that field that another editor committed in between
  (`docs/cli.md:301`: "Updates preserve omitted fields"); `SecretsKept` says how
  far such a value can be out of date.
* `docs/submitting-forms.md:21` has the token of a form rotated from the admin;
  only the command `form rotate-token` does, no page.
* An entry whose form is deleted between the last two readings of an export has
  no form to take the name of, which ends the request with an internal error
  (`Preload`).
* `submission create` on a form that was deleted after it was found answers with
  an internal error (exit code 10), not with "not found" (`SubmitCommit`).
