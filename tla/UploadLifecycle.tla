-------------------------- MODULE UploadLifecycle --------------------------
(***************************************************************************)
(* Uploaded files between the file system and SQLite (internal/forms:      *)
(* submissions.go, files.go, upload_deletions.go, management.go).  An      *)
(* upload is staged, its rows are committed, and the files are promoted; a *)
(* deletion quarantines the files, commits the removal of the rows, and    *)
(* removes the files; startup recovery finishes what a crash interrupted.  *)
(* All three end in the same loop, finish, which asks the database whether *)
(* each file is still referenced.                                          *)
(*                                                                         *)
(* Tasks run in processes: submissionFilesMutex is shared by the tasks of  *)
(* one process, the database write lock by all of them.                    *)
(***************************************************************************)
EXTENDS Integers, FiniteSets

CONSTANTS
  Procs, Server,      \* processes; Server is the one that runs recovery
  Uploads,            \* upload tasks, one submission each
  Deletes,            \* deletion tasks
  Recovery,           \* the startup task of Server
  Files,
  FilesOf,            \* [Uploads -> SUBSET Files]: files of the submission
  TargetOf,           \* [Deletes -> SUBSET Uploads]: submissions removed
  FormDeletes,        \* the deletions that also remove the form
  Deployments,        \* which task runs in which process, [Tasks -> Procs] each
  Quota,              \* MINIFORM_MAX_UPLOAD_STORAGE_BYTES, in files
  OverlapStartup,     \* whether Server may start while other processes work
  MaxFaults           \* bound: crashes and I/O or database errors

Tasks == Uploads \cup Deletes
AllTasks == Tasks \cup {Recovery}
NoTask == "no task"

ASSUME UploadAssumption ==
  /\ Server \in Procs
  /\ Recovery \notin Tasks /\ NoTask \notin AllTasks
  /\ Uploads \cap Deletes = {}
  /\ FilesOf \in [Uploads -> SUBSET Files]
  /\ \A t, u \in Uploads : t # u => FilesOf[t] \cap FilesOf[u] = {}
  /\ \A t \in Uploads : IsFiniteSet(FilesOf[t])
  /\ TargetOf \in [Deletes -> SUBSET Uploads]
  /\ FormDeletes \subseteq Deletes
  /\ \A t \in FormDeletes : TargetOf[t] = Uploads
  /\ Deployments \subseteq [Tasks -> Procs]
  /\ Quota \in Nat /\ MaxFaults \in Nat
  /\ OverlapStartup \in BOOLEAN

VARIABLES
  procOf,  \* the deployment of this behaviour
  place,   \* where the bytes of a file are; renames and removals are atomic
  rows,    \* files with a committed submission_files row
  form,    \* whether the form still exists
  dbLock,  \* the task in an immediate transaction that spans several steps
  pc,      \* of every task
  todo,    \* files the current loop of the task still has to visit
  moved,   \* files the deletion has quarantined (stagedUploadDeletion.files)
  seen,    \* finish: the file being resolved and whether it is referenced
  up,      \* whether Server serves requests
  dirty,   \* ghost: something failed since the last completed recovery
  faults   \* ghost: faults so far

vars == <<procOf, place, rows, form, dbLock, pc, todo, moved, seen, up, dirty, faults>>

OneProcess == \A t \in Tasks : procOf[t] = Server

Places == {"none", "staging", "stored", "quarantine", "removed"}
Unsettled == {"staging", "quarantine"}
NoSeen == [file |-> "none", referenced |-> FALSE]
Active(t) == pc[t] \notin {"idle", "done", "failed"}
Home(t) == IF t = Recovery THEN Server ELSE procOf[t]
TargetFiles(t) == UNION {FilesOf[s] : s \in TargetOf[t]}

Writers(p) == {t \in Deletes \cup {Recovery} : Home(t) = p /\ Active(t)}
Readers(p) == {t \in Uploads : Home(t) = p /\ Active(t)}

Init ==
  /\ procOf \in Deployments
  /\ place = [f \in Files |-> "none"]
  /\ rows = {}
  /\ form = TRUE
  /\ dbLock = NoTask
  /\ pc = [t \in AllTasks |-> "idle"]
  /\ todo = [t \in AllTasks |-> {}]
  /\ moved = [t \in AllTasks |-> {}]
  /\ seen = [t \in AllTasks |-> NoSeen]
  /\ up = FALSE
  /\ dirty = FALSE
  /\ faults = 0

Goto(t, label) == pc' = [pc EXCEPT ![t] = label]
Loop(t, files) == todo' = [todo EXCEPT ![t] = files]
Fault == faults < MaxFaults /\ faults' = faults + 1
ServesTasks(p) == (p = Server => up) /\ (OverlapStartup \/ ~Active(Recovery))

(***************************************************************************)
(* CreateSubmissionWithLimits with files.                                  *)
(***************************************************************************)

\* RLock, and a fresh staging operation.
StartUpload(t) ==
  /\ pc[t] = "idle" /\ ServesTasks(Home(t))
  /\ Writers(Home(t)) = {}
  /\ Goto(t, "stage") /\ Loop(t, FilesOf[t])
  /\ UNCHANGED <<procOf, place, rows, form, dbLock, moved, seen, up, dirty, faults>>

\* saveFilesAt writes one file below the staging operation.
StageFile(t) ==
  /\ t \in Uploads /\ pc[t] = "stage"
  /\ \E f \in todo[t] :
       /\ place' = [place EXCEPT ![f] = "staging"]
       /\ Loop(t, todo[t] \ {f})
  /\ UNCHANGED <<procOf, rows, form, dbLock, pc, moved, seen, up, dirty, faults>>

\* A failed write removes the operation, as far as that works (its errors are
\* ignored), and refuses the submission.
StageFails(t) ==
  LET written == {f \in FilesOf[t] : place[f] = "staging"} IN
  /\ t \in Uploads /\ pc[t] = "stage" /\ todo[t] # {}
  /\ Fault
  /\ \E left \in SUBSET written :
       /\ place' = [f \in Files |-> IF f \in written \ left THEN "removed" ELSE place[f]]
       /\ dirty' = (dirty \/ left # {})
  /\ Goto(t, "failed") /\ Loop(t, {})
  /\ UNCHANGED <<procOf, rows, form, dbLock, moved, seen, up>>

\* A command creates its submissions without SubmissionLimits.
checkUploadQuota(t) ==
  Home(t) # Server \/ Cardinality(rows) <= Quota - Cardinality(FilesOf[t])

\* Mutant: the form is not read again.
CommitUpload_NoRecheck(t) ==
  /\ t \in Uploads /\ pc[t] = "stage" /\ todo[t] = {}
  /\ dbLock = NoTask
  /\ checkUploadQuota(t)
  /\ rows' = rows \cup FilesOf[t]
  /\ Goto(t, "finish") /\ Loop(t, FilesOf[t])
  /\ UNCHANGED <<procOf, place, form, dbLock, moved, seen, up, dirty, faults>>

\* One immediate transaction: form, quota, submission, files, events.
CommitUpload(t) ==
  /\ t \in Uploads /\ pc[t] = "stage" /\ todo[t] = {}
  /\ dbLock = NoTask
  /\ form /\ checkUploadQuota(t)
  /\ rows' = rows \cup FilesOf[t]
  /\ Goto(t, "finish") /\ Loop(t, FilesOf[t])
  /\ UNCHANGED <<procOf, place, form, dbLock, moved, seen, up, dirty, faults>>

\* The transaction refuses the submission.
RefuseUpload(t) ==
  /\ t \in Uploads /\ pc[t] = "stage" /\ todo[t] = {}
  /\ dbLock = NoTask
  /\ ~(form /\ checkUploadQuota(t))
  /\ Goto(t, "finish") /\ Loop(t, FilesOf[t])
  /\ UNCHANGED <<procOf, place, rows, form, dbLock, moved, seen, up, dirty, faults>>

\* The transaction fails (lock contention beyond the retries, disk, context).
CommitUploadFails(t) ==
  /\ t \in Uploads /\ pc[t] = "stage" /\ todo[t] = {}
  /\ Fault
  /\ Goto(t, "finish") /\ Loop(t, FilesOf[t])
  /\ UNCHANGED <<procOf, place, rows, form, dbLock, moved, seen, up, dirty>>

(***************************************************************************)
(* DeleteSubmission and DeleteForm.                                        *)
(***************************************************************************)

\* Mutant: the mutex does not wait for uploads.
StartDelete_NoWait(t) ==
  /\ pc[t] = "idle" /\ ServesTasks(Home(t))
  /\ Writers(Home(t)) = {}
  /\ Goto(t, "begin")
  /\ UNCHANGED <<procOf, place, rows, form, dbLock, todo, moved, seen, up, dirty, faults>>

\* Lock.
StartDelete(t) ==
  /\ pc[t] = "idle" /\ ServesTasks(Home(t))
  /\ Writers(Home(t)) = {} /\ Readers(Home(t)) = {}
  /\ Goto(t, "begin")
  /\ UNCHANGED <<procOf, place, rows, form, dbLock, todo, moved, seen, up, dirty, faults>>

\* The transaction begins and reads the file rows of what it deletes.
BeginDelete(t) ==
  /\ t \in Deletes /\ pc[t] = "begin"
  /\ dbLock \in {NoTask, t}
  /\ TargetFiles(t) \cap rows # {} \/ (t \in FormDeletes /\ form)
  /\ dbLock' = t
  /\ Goto(t, "quarantine") /\ Loop(t, TargetFiles(t) \cap rows)
  /\ UNCHANGED <<procOf, place, rows, form, moved, seen, up, dirty, faults>>

\* ErrRecordNotFound: nothing to delete.
DeleteMissing(t) ==
  /\ t \in Deletes /\ pc[t] = "begin"
  /\ dbLock \in {NoTask, t}
  /\ ~(TargetFiles(t) \cap rows # {} \/ (t \in FormDeletes /\ form))
  /\ dbLock' = NoTask
  /\ Goto(t, "failed")
  /\ UNCHANGED <<procOf, place, rows, form, todo, moved, seen, up, dirty, faults>>

\* stageStoredFiles: rename into the quarantine, skip a file that is not there.
QuarantineFile(t) ==
  /\ t \in Deletes /\ pc[t] = "quarantine"
  /\ \E f \in todo[t] :
       /\ Loop(t, todo[t] \ {f})
       /\ IF place[f] = "stored"
          THEN /\ place' = [place EXCEPT ![f] = "quarantine"]
               /\ moved' = [moved EXCEPT ![t] = @ \cup {f}]
          ELSE UNCHANGED <<place, moved>>
  /\ UNCHANGED <<procOf, rows, form, dbLock, pc, seen, up, dirty, faults>>

\* restoreWithRoot moves back every file it can; an error does not stop it.
RestoreMoved(t) ==
  \E left \in SUBSET moved[t] :
    /\ place' = [f \in Files |-> IF f \in moved[t] \ left /\ place[f] = "quarantine"
                                 THEN "stored" ELSE place[f]]
    /\ dirty' = (dirty \/ left # {})

\* stageStoredFiles fails: what it moved is restored, the transaction rolls
\* back.
QuarantineFails(t) ==
  /\ t \in Deletes /\ pc[t] = "quarantine" /\ todo[t] # {}
  /\ Fault
  /\ RestoreMoved(t)
  /\ moved' = [moved EXCEPT ![t] = {}]
  /\ dbLock' = NoTask
  /\ Goto(t, "failed") /\ Loop(t, {})
  /\ UNCHANGED <<procOf, rows, form, seen, up>>

CommitDelete(t) ==
  /\ t \in Deletes /\ pc[t] = "quarantine" /\ todo[t] = {}
  /\ rows' = rows \ TargetFiles(t)
  /\ form' = (form /\ t \notin FormDeletes)
  /\ dbLock' = NoTask
  /\ Goto(t, "finish") /\ Loop(t, moved[t])
  /\ UNCHANGED <<procOf, place, moved, seen, up, dirty, faults>>

Staged(t) == (pc[t] = "quarantine" /\ todo[t] = {}) \/ pc[t] = "retry"

\* Mutant: the rollback is forgotten.
CommitDeleteFails_KeepsLock(t) ==
  /\ t \in Deletes /\ Staged(t)
  /\ Fault
  /\ Goto(t, "finish") /\ Loop(t, moved[t])
  /\ UNCHANGED <<procOf, place, rows, form, dbLock, moved, seen, up, dirty>>

\* The transaction fails for good and rolls back; finish then restores the
\* files.
CommitDeleteFails(t) ==
  /\ t \in Deletes /\ Staged(t)
  /\ Fault
  /\ dbLock' = IF dbLock = t THEN NoTask ELSE dbLock
  /\ Goto(t, "finish") /\ Loop(t, moved[t])
  /\ UNCHANGED <<procOf, place, rows, form, moved, seen, up, dirty>>

\* Lock contention rolls the attempt back with its files still quarantined.
RetryDelete(t) ==
  /\ t \in Deletes /\ pc[t] = "quarantine" /\ todo[t] = {}
  /\ Fault
  /\ dbLock' = NoTask
  /\ Goto(t, "retry")
  /\ UNCHANGED <<procOf, place, rows, form, todo, moved, seen, up, dirty>>

\* The next attempt finishes them under its own write lock, by the rows it
\* finds, and then starts over.
FinishRetried(t) ==
  /\ t \in Deletes /\ pc[t] = "retry"
  /\ dbLock = NoTask
  /\ dbLock' = t
  /\ place' = [f \in Files |->
                 IF f \in moved[t] /\ place[f] = "quarantine"
                 THEN (IF f \in rows THEN "stored" ELSE "removed") ELSE place[f]]
  /\ moved' = [moved EXCEPT ![t] = {}]
  /\ Goto(t, "begin")
  /\ UNCHANGED <<procOf, rows, form, todo, seen, up, dirty, faults>>

(***************************************************************************)
(* stagedUploadDeletion.finish, shared by uploads, deletions and recovery. *)
(***************************************************************************)

\* Count the rows that refer to the file.
FinishCount(t) ==
  /\ pc[t] = "finish"
  /\ \E f \in todo[t] :
       /\ Loop(t, todo[t] \ {f})
       /\ seen' = [seen EXCEPT ![t] = [file |-> f, referenced |-> f \in rows]]
  /\ Goto(t, "resolve")
  /\ UNCHANGED <<procOf, place, rows, form, dbLock, moved, up, dirty, faults>>

\* The file is still below the operation directory the task looks in.
InOperation(t, f) ==
  /\ place[f] \in Unsettled
  /\ t \in Tasks => \A d \in Deletes \ {t} : f \notin moved[d]

\* Mutant: finish takes its operation for a completed deletion.
Outcome_AlwaysRemoves(t) == "removed"

Outcome(t) == IF seen[t].referenced THEN "stored" ELSE "removed"

\* Restore (or promote) a referenced file, remove any other; a file that is
\* no longer in the operation is left alone.
FinishFile(t) ==
  LET f == seen[t].file IN
  /\ pc[t] = "resolve"
  /\ place' = IF InOperation(t, f) THEN [place EXCEPT ![f] = Outcome(t)] ELSE place
  /\ seen' = [seen EXCEPT ![t] = NoSeen]
  /\ Goto(t, "finish")
  /\ UNCHANGED <<procOf, rows, form, dbLock, todo, moved, up, dirty, faults>>

\* The operation directory goes, the mutex is released.
FinishEnd(t) ==
  /\ t \in Tasks /\ pc[t] = "finish" /\ todo[t] = {}
  /\ Goto(t, "done")
  /\ moved' = [moved EXCEPT ![t] = {}]
  /\ UNCHANGED <<procOf, place, rows, form, dbLock, todo, seen, up, dirty, faults>>

\* finish returns an error: what is left stays where it is until recovery.
FinishFails(t) ==
  /\ t \in Tasks /\ pc[t] \in {"finish", "resolve"}
  /\ Fault
  /\ dirty' = TRUE
  /\ Goto(t, "failed") /\ Loop(t, {})
  /\ moved' = [moved EXCEPT ![t] = {}]
  /\ seen' = [seen EXCEPT ![t] = NoSeen]
  /\ UNCHANGED <<procOf, place, rows, form, dbLock, up>>

(***************************************************************************)
(* Processes.                                                              *)
(***************************************************************************)

\* Mutant: only interrupted uploads are recovered.
StartServer_StagingOnly ==
  /\ ~up /\ ~Active(Recovery)
  /\ OverlapStartup \/ \A t \in Tasks : ~Active(t)
  /\ Goto(Recovery, "finish")
  /\ Loop(Recovery, {f \in Files : place[f] = "staging"})
  /\ UNCHANGED <<procOf, place, rows, form, dbLock, moved, seen, up, dirty, faults>>

\* RecoverUploadDeletions: Lock, then every file of both staging roots.
StartServer ==
  /\ ~up /\ ~Active(Recovery)
  /\ OverlapStartup \/ \A t \in Tasks : ~Active(t)
  /\ Goto(Recovery, "finish")
  /\ Loop(Recovery, {f \in Files : place[f] \in Unsettled})
  /\ UNCHANGED <<procOf, place, rows, form, dbLock, moved, seen, up, dirty, faults>>

EndRecovery ==
  /\ pc[Recovery] = "finish" /\ todo[Recovery] = {}
  /\ Goto(Recovery, "idle")
  /\ up' = TRUE
  /\ dirty' = FALSE
  /\ UNCHANGED <<procOf, place, rows, form, dbLock, todo, moved, seen, faults>>

\* The process dies: its transaction rolls back, its mutex is gone.
Crash(p) ==
  LET dead == {t \in AllTasks : Home(t) = p /\ Active(t)} IN
  /\ dead # {} \/ (p = Server /\ up)
  /\ Fault
  /\ pc' = [t \in AllTasks |->
              IF t \in dead THEN (IF t = Recovery THEN "idle" ELSE "failed") ELSE pc[t]]
  /\ todo' = [t \in AllTasks |-> IF t \in dead THEN {} ELSE todo[t]]
  /\ moved' = [t \in AllTasks |-> IF t \in dead THEN {} ELSE moved[t]]
  /\ seen' = [t \in AllTasks |-> IF t \in dead THEN NoSeen ELSE seen[t]]
  /\ dbLock' = IF dbLock \in dead THEN NoTask ELSE dbLock
  /\ up' = (up /\ p # Server)
  /\ dirty' = TRUE
  /\ UNCHANGED <<procOf, place, rows, form>>

Upload(t) ==
  \/ StartUpload(t) \/ StageFile(t) \/ CommitUpload(t) \/ RefuseUpload(t)

Delete(t) ==
  \/ StartDelete(t) \/ BeginDelete(t) \/ DeleteMissing(t)
  \/ QuarantineFile(t) \/ CommitDelete(t) \/ FinishRetried(t)

Finish(t) == FinishCount(t) \/ FinishFile(t) \/ FinishEnd(t)

Fails(t) ==
  \/ StageFails(t) \/ CommitUploadFails(t)
  \/ QuarantineFails(t) \/ CommitDeleteFails(t) \/ RetryDelete(t)
  \/ FinishFails(t)

Next ==
  \/ \E t \in Uploads : Upload(t)
  \/ \E t \in Deletes : Delete(t)
  \/ \E t \in AllTasks : Finish(t)
  \/ \E t \in Tasks : Fails(t)
  \/ \E p \in Procs : Crash(p)
  \/ StartServer \/ EndRecovery

Spec == Init /\ [][Next]_vars

FairSpec ==
  /\ Spec
  /\ \A t \in Uploads : WF_vars(Upload(t) \/ Finish(t))
  /\ \A t \in Deletes : WF_vars(Delete(t) \/ Finish(t))
  /\ WF_vars(StartServer \/ EndRecovery \/ Finish(Recovery))

(***************************************************************************)
(* Properties.                                                             *)
(***************************************************************************)

\* Types: also, a deletion lists as moved only files it quarantined, and only
\* while it runs (the staged value is local to the call).
TypeOK ==
  /\ procOf \in Deployments
  /\ place \in [Files -> Places]
  /\ rows \subseteq Files
  /\ form \in BOOLEAN
  /\ dbLock \in Deletes \cup {NoTask}
  /\ pc \in [AllTasks -> {"idle", "stage", "begin", "quarantine", "retry", "finish",
                          "resolve", "done", "failed"}]
  /\ todo \in [AllTasks -> SUBSET Files]
  /\ moved \in [AllTasks -> SUBSET Files]
  /\ \A t \in AllTasks : moved[t] # {} => t \in Deletes /\ Active(t)
  /\ seen \in [AllTasks -> [file : Files \cup {NoSeen.file}, referenced : BOOLEAN]]
  /\ \A t \in AllTasks : IF pc[t] = "resolve" THEN seen[t].file \in Files ELSE seen[t] = NoSeen
  /\ up \in BOOLEAN /\ dirty \in BOOLEAN
  /\ faults \in 0..MaxFaults

\* The bytes of a file that a committed row refers to are never destroyed:
\* they are stored, or in a staging root where recovery finds them, through
\* any crash, rollback or failed cleanup (upload_deletions.go:158).
BytesPreserved ==
  \A f \in rows : place[f] \in {"stored"} \cup Unsettled

\* A file below uploads/ always has a row: no deletion leaves the upload of a
\* deleted submission behind, and no refused submission leaves one either
\* (management.go:16 and the order quarantine, commit, remove).  The mutex
\* this rests on is one of a process.
NoOrphan ==
  OneProcess => \A f \in Files : place[f] = "stored" => f \in rows

\* With nothing running and nothing failed since the last recovery, files and
\* rows agree exactly and both staging roots are empty: interrupted operations
\* of the process are completely resolved by one recovery.
SettledWhenQuiet ==
  OneProcess /\ up /\ ~dirty /\ (\A t \in Tasks : ~Active(t)) =>
    \A f \in Files :
      /\ place[f] \notin Unsettled
      /\ f \in rows => place[f] = "stored"

\* The files referenced by rows never exceed the storage quota, whatever
\* public uploads run at the same time (docs/configuration.md:22, "Global
\* stored-upload quota; rejected atomically before database commit").
QuotaRespected == (\A t \in Uploads : Home(t) = Server) => Cardinality(rows) <= Quota

\* A deleted form keeps no uploads: a submission that was admitted before the
\* deletion is refused in its own transaction (submissions.go:84).
NoRowsWithoutForm == ~form => rows = {}

\* What the transactions of uploads keep: types, the quota, and the reference
\* of a row to its form (submissions.go:84, 135).
Inv == TypeOK /\ QuotaRespected /\ NoRowsWithoutForm

\* Every started upload or deletion ends: the mutex and the database lock,
\* taken in either order, never leave tasks waiting for each other.
TasksEnd == \A t \in Tasks : Active(t) ~> ~Active(t)
=============================================================================
