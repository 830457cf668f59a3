----------------------- MODULE UploadLifecycleProofs -----------------------
(***************************************************************************)
(* Proofs about UploadLifecycle, for any number of uploads, deletions,     *)
(* files and processes, in any deployment.                                 *)
(***************************************************************************)
EXTENDS UploadLifecycle, FiniteSetTheorems, TLAPS

(***************************************************************************)
(* Types.                                                                  *)
(***************************************************************************)

\* Which steps a task has; nothing is in the quarantine of a deletion before
\* its transaction begins.
Roles ==
  /\ \A t \in Uploads : pc[t] \in {"idle", "stage", "finish", "resolve", "done", "failed"}
  /\ \A t \in Deletes : pc[t] \in {"idle", "begin", "quarantine", "retry", "finish",
                                   "resolve", "done", "failed"}
  /\ pc[Recovery] \in {"idle", "finish", "resolve"}
  /\ \A t \in AllTasks : pc[t] = "begin" => moved[t] = {}

Typed == TypeOK /\ Roles

\* Which task is which.
LEMMA Kinds ==
  /\ \A t \in Uploads : t \in Tasks /\ t \in AllTasks /\ t \notin Deletes /\ t # Recovery /\ t # NoTask
  /\ \A t \in Deletes : t \in Tasks /\ t \in AllTasks /\ t \notin Uploads /\ t # Recovery /\ t # NoTask
  /\ Recovery \in AllTasks /\ Recovery \notin Tasks /\ Recovery # NoTask
  /\ \A t \in AllTasks : t \in Uploads \/ t \in Deletes \/ t = Recovery
  /\ \A t \in Tasks : t \in Uploads \/ t \in Deletes
BY UploadAssumption DEF Tasks, AllTasks

LEMMA TargetsAreFiles ==
  ASSUME NEW t \in Deletes
  PROVE  TargetFiles(t) \subseteq Files
BY UploadAssumption DEF TargetFiles

LEMMA NoSeenTyped ==
  NoSeen \in [file : Files \cup {NoSeen.file}, referenced : BOOLEAN]
BY DEF NoSeen

LEMMA InitTyped == Init => Typed
<1> SUFFICES ASSUME Init PROVE Typed
  OBVIOUS
<1>1. place \in [Files -> Places] /\ dbLock \in Deletes \cup {NoTask} /\ faults \in 0..MaxFaults
  BY UploadAssumption DEF Init, Places
<1>2. /\ pc \in [AllTasks -> {"idle"}]
      /\ todo \in [AllTasks -> SUBSET Files] /\ moved \in [AllTasks -> SUBSET Files]
      /\ \A t \in AllTasks : moved[t] = {} /\ seen[t] = NoSeen
      /\ seen \in [AllTasks -> [file : Files \cup {NoSeen.file}, referenced : BOOLEAN]]
  BY NoSeenTyped DEF Init
<1> QED
  BY <1>1, <1>2, Kinds DEF Init, Typed, TypeOK, Roles

LEMMA UploadTyped ==
  ASSUME Typed, NEW t \in Uploads, Upload(t)
  PROVE  Typed'
<1> USE Kinds
<1>0. FilesOf[t] \subseteq Files
  BY UploadAssumption
<1>1. CASE StartUpload(t)
  BY <1>0, <1>1 DEF StartUpload, Typed, TypeOK, Roles, Goto, Loop, Active
<1>2. CASE StageFile(t)
  BY <1>2 DEF StageFile, Typed, TypeOK, Roles, Goto, Loop, Active, Places
<1>3. CASE CommitUpload(t)
  BY <1>0, <1>3 DEF CommitUpload, Typed, TypeOK, Roles, Goto, Loop, Active
<1>4. CASE RefuseUpload(t)
  BY <1>0, <1>4 DEF RefuseUpload, Typed, TypeOK, Roles, Goto, Loop, Active
<1> QED
  BY <1>1, <1>2, <1>3, <1>4 DEF Upload

LEMMA DeleteTyped ==
  ASSUME Typed, NEW t \in Deletes, Delete(t)
  PROVE  Typed'
<1> USE Kinds
<1>1. CASE StartDelete(t)
  BY <1>1 DEF StartDelete, Typed, TypeOK, Roles, Goto, Active
<1>2. CASE BeginDelete(t)
  BY <1>2 DEF BeginDelete, Typed, TypeOK, Roles, Goto, Loop, Active
<1>3. CASE DeleteMissing(t)
  BY <1>3 DEF DeleteMissing, Typed, TypeOK, Roles, Goto, Active
<1>4. CASE QuarantineFile(t)
  <2>1. /\ place' \in [Files -> Places] /\ moved' \in [AllTasks -> SUBSET Files]
        /\ todo' \in [AllTasks -> SUBSET Files]
        /\ \A s \in AllTasks \ {t} : moved'[s] = moved[s]
    <3>1. PICK f \in todo[t] :
            /\ Loop(t, todo[t] \ {f})
            /\ IF place[f] = "stored"
               THEN /\ place' = [place EXCEPT ![f] = "quarantine"]
                    /\ moved' = [moved EXCEPT ![t] = @ \cup {f}]
               ELSE UNCHANGED <<place, moved>>
      BY <1>4 DEF QuarantineFile
    <3>2. f \in Files /\ todo' \in [AllTasks -> SUBSET Files]
      BY <3>1 DEF Typed, TypeOK, Loop
    <3> QED
      BY <3>1, <3>2 DEF Typed, TypeOK, Places
  <2>2. Active(t)' /\ t \in Deletes /\ pc[t] # "begin"
    BY <1>4 DEF QuarantineFile, Active
  <2> QED
    BY <1>4, <2>1, <2>2 DEF QuarantineFile, Typed, TypeOK, Roles, Active
<1>5. CASE CommitDelete(t)
  BY <1>5 DEF CommitDelete, Typed, TypeOK, Roles, Goto, Loop, Active
<1>6. CASE FinishRetried(t)
  BY <1>6 DEF FinishRetried, Typed, TypeOK, Roles, Goto, Active, Places
<1> QED
  BY <1>1, <1>2, <1>3, <1>4, <1>5, <1>6 DEF Delete

LEMMA FinishTyped ==
  ASSUME Typed, NEW t \in AllTasks, Finish(t)
  PROVE  Typed'
<1> USE Kinds
<1>1. CASE FinishCount(t)
  BY <1>1 DEF FinishCount, Typed, TypeOK, Roles, Goto, Loop, Active
<1>2. CASE FinishFile(t)
  <2>1. Outcome(t) \in Places
    BY DEF Outcome, Places
  <2> QED
    BY <1>2, <2>1, NoSeenTyped DEF FinishFile, Typed, TypeOK, Roles, Goto, Active
<1>3. CASE FinishEnd(t)
  BY <1>3 DEF FinishEnd, Typed, TypeOK, Roles, Goto, Active
<1> QED
  BY <1>1, <1>2, <1>3 DEF Finish

LEMMA FailsTyped ==
  ASSUME Typed, NEW t \in Tasks, Fails(t)
  PROVE  Typed'
<1> USE Kinds, UploadAssumption
<1>1. CASE StageFails(t)
  BY <1>1 DEF StageFails, Typed, TypeOK, Roles, Goto, Loop, Active, Places, Fault
<1>2. CASE CommitUploadFails(t)
  BY <1>2 DEF CommitUploadFails, Typed, TypeOK, Roles, Goto, Loop, Active, Fault
<1>3. CASE QuarantineFails(t)
  BY <1>3 DEF QuarantineFails, RestoreMoved, Typed, TypeOK, Roles, Goto, Loop, Active, Places, Fault
<1>4. CASE CommitDeleteFails(t)
  BY <1>4 DEF CommitDeleteFails, Staged, Typed, TypeOK, Roles, Goto, Loop, Active, Fault
<1>5. CASE RetryDelete(t)
  BY <1>5 DEF RetryDelete, Typed, TypeOK, Roles, Goto, Active, Fault
<1>6. CASE FinishFails(t)
  BY <1>6, NoSeenTyped DEF FinishFails, Typed, TypeOK, Roles, Goto, Loop, Active, Fault
<1> QED
  BY <1>1, <1>2, <1>3, <1>4, <1>5, <1>6 DEF Fails

LEMMA NextTyped ==
  ASSUME Typed, [Next]_vars
  PROVE  Typed'
<1> USE Kinds
<1>1. ASSUME NEW p \in Procs, Crash(p)
      PROVE  Typed'
  BY <1>1, NoSeenTyped, UploadAssumption DEF Crash, Typed, TypeOK, Roles, Active, Fault
<1>2. CASE StartServer
  BY <1>2 DEF StartServer, Typed, TypeOK, Roles, Active, Goto, Loop
<1>3. CASE EndRecovery
  BY <1>3 DEF EndRecovery, Typed, TypeOK, Roles, Active, Goto
<1>4. CASE UNCHANGED vars
  BY <1>4 DEF vars, Typed, TypeOK, Roles, Active
<1> QED
  BY <1>1, <1>2, <1>3, <1>4, UploadTyped, DeleteTyped, FinishTyped, FailsTyped DEF Next

LEMMA AlwaysTyped == Spec => []Typed
BY InitTyped, NextTyped, PTL DEF Spec

(***************************************************************************)
(* Rows against the form and the quota.                                    *)
(***************************************************************************)

\* Rows are those of uploads, finitely many, and within what they may be.
RowsInv ==
  /\ rows \subseteq UNION {FilesOf[t] : t \in Uploads}
  /\ IsFiniteSet(rows)
  /\ QuotaRespected /\ NoRowsWithoutForm

\* Rows and the form change in two transactions, the deployment never.
LEMMA Transactions ==
  ASSUME [Next]_vars
  PROVE  /\ procOf' = procOf
         /\ \/ UNCHANGED <<rows, form>>
            \/ \E t \in Uploads : CommitUpload(t)
            \/ \E t \in Deletes : CommitDelete(t)
<1>1. ASSUME NEW t \in Uploads, Upload(t)
      PROVE  procOf' = procOf /\ (UNCHANGED <<rows, form>> \/ CommitUpload(t))
  BY <1>1 DEF Upload, StartUpload, StageFile, CommitUpload, RefuseUpload
<1>2. ASSUME NEW t \in Deletes, Delete(t)
      PROVE  procOf' = procOf /\ (UNCHANGED <<rows, form>> \/ CommitDelete(t))
  BY <1>2 DEF Delete, StartDelete, BeginDelete, DeleteMissing, QuarantineFile, CommitDelete,
              FinishRetried
<1>3. ASSUME NEW t \in AllTasks, Finish(t)
      PROVE  UNCHANGED <<procOf, rows, form>>
  BY <1>3 DEF Finish, FinishCount, FinishFile, FinishEnd
<1>4. ASSUME NEW t \in Tasks, Fails(t)
      PROVE  UNCHANGED <<procOf, rows, form>>
  BY <1>4 DEF Fails, StageFails, CommitUploadFails, QuarantineFails, CommitDeleteFails,
              RetryDelete, FinishFails
<1>5. CASE (\E p \in Procs : Crash(p)) \/ StartServer \/ EndRecovery \/ UNCHANGED vars
  BY <1>5 DEF Crash, StartServer, EndRecovery, vars
<1> QED
  BY <1>1, <1>2, <1>3, <1>4, <1>5 DEF Next

LEMMA CommitKeepsRows ==
  ASSUME RowsInv, NEW t \in Uploads, CommitUpload(t)
  PROVE  RowsInv'
<1>1. rows' = rows \cup FilesOf[t] /\ form /\ form' = form /\ procOf' = procOf
  BY DEF CommitUpload
<1>2. IsFiniteSet(rows) /\ IsFiniteSet(FilesOf[t])
  BY UploadAssumption DEF RowsInv
<1>3. /\ IsFiniteSet(rows')
      /\ Cardinality(rows') = Cardinality(rows) + Cardinality(FilesOf[t])
                                - Cardinality(rows \cap FilesOf[t])
  BY <1>1, <1>2, FS_Union
<1>4. /\ Cardinality(rows) \in Nat /\ Cardinality(FilesOf[t]) \in Nat
      /\ Cardinality(rows \cap FilesOf[t]) \in Nat
  BY <1>2, FS_CardinalityType, FS_Intersection
<1>5. QuotaRespected'
  <2> SUFFICES ASSUME (\A u \in Uploads : Home(u) = Server)'
               PROVE  Cardinality(rows') <= Quota
    BY DEF QuotaRespected
  <2>1. Home(t) = Server
    BY <1>1 DEF Home
  <2>2. Cardinality(rows) <= Quota - Cardinality(FilesOf[t])
    BY <2>1 DEF CommitUpload, checkUploadQuota
  <2> QED
    BY <1>3, <1>4, <2>2, UploadAssumption
<1>6. NoRowsWithoutForm'
  BY <1>1 DEF NoRowsWithoutForm
<1>7. rows' \subseteq UNION {FilesOf[u] : u \in Uploads}
  BY <1>1 DEF RowsInv
<1> QED
  BY <1>3, <1>5, <1>6, <1>7 DEF RowsInv

LEMMA DeleteKeepsRows ==
  ASSUME RowsInv, NEW t \in Deletes, CommitDelete(t)
  PROVE  RowsInv'
<1>1. /\ rows' = rows \ TargetFiles(t) /\ procOf' = procOf
      /\ form' = (form /\ t \notin FormDeletes)
  BY DEF CommitDelete
<1>2. /\ IsFiniteSet(rows) /\ IsFiniteSet(rows')
      /\ Cardinality(rows') <= Cardinality(rows)
      /\ Cardinality(rows) \in Nat /\ Cardinality(rows') \in Nat
  BY <1>1, FS_Subset, FS_CardinalityType DEF RowsInv
<1>3. QuotaRespected'
  BY <1>1, <1>2, UploadAssumption DEF RowsInv, QuotaRespected, Home
<1>4. NoRowsWithoutForm'
  <2>1. CASE t \in FormDeletes
    <3>1. TargetFiles(t) = UNION {FilesOf[u] : u \in Uploads}
      BY <2>1, UploadAssumption DEF TargetFiles
    <3> QED
      BY <1>1, <3>1 DEF RowsInv, NoRowsWithoutForm
  <2>2. CASE t \notin FormDeletes
    BY <1>1, <2>2 DEF RowsInv, NoRowsWithoutForm
  <2> QED
    BY <2>1, <2>2
<1> QED
  BY <1>1, <1>2, <1>3, <1>4 DEF RowsInv

LEMMA InitRows == Init => RowsInv
BY FS_EmptySet, UploadAssumption DEF Init, RowsInv, QuotaRespected, NoRowsWithoutForm

LEMMA NextRows ==
  ASSUME RowsInv, [Next]_vars
  PROVE  RowsInv'
<1>1. CASE UNCHANGED <<rows, form>>
  BY <1>1, Transactions DEF RowsInv, QuotaRespected, NoRowsWithoutForm, Home
<1> QED
  BY <1>1, Transactions, CommitKeepsRows, DeleteKeepsRows

\* Types, the storage quota and the form of every row (submissions.go:84,
\* 135), for any uploads, deletions and processes.
THEOREM UploadInvariant == Spec => []Inv
<1>1. Typed /\ RowsInv => Inv
  BY DEF Typed, RowsInv, Inv
<1> QED
  BY <1>1, InitTyped, NextTyped, InitRows, NextRows, PTL DEF Spec

(***************************************************************************)
(* Files against rows.  From here on the server starts alone.              *)
(***************************************************************************)

\* Recovery is the only task while it runs.
RecoveryAlone ==
  Active(Recovery) => ~up /\ \A t \in Tasks : ~Active(t)

NotCommitted(u) == pc[u] \in {"idle", "stage"}

\* What a task has in hand: files its loop will visit, those in its quarantine, and
\* the one it is about to resolve.
InHand(t) == todo[t] \cup moved[t] \cup (IF pc[t] = "resolve" THEN {seen[t].file} ELSE {})

\* Until its transaction the files of an upload are its own: they are staged
\* as far as it says, no row names them and no other task has them in hand.
UploadInv ==
  \A u \in Uploads :
    /\ pc[u] = "idle" => \A f \in FilesOf[u] : place[f] = "none"
    /\ pc[u] = "stage" =>
         /\ todo[u] \subseteq FilesOf[u]
         /\ \A f \in FilesOf[u] : place[f] = IF f \in todo[u] THEN "none" ELSE "staging"
    /\ NotCommitted(u) =>
         /\ FilesOf[u] \cap rows = {}
         /\ \A t \in AllTasks \ {u} : FilesOf[u] \cap InHand(t) = {}

\* A file counted as unreferenced stays so until it is removed.
CountsInv ==
  \A t \in AllTasks : pc[t] = "resolve" /\ ~seen[t].referenced => seen[t].file \notin rows

\* What a deletion moved is not staged again.
MovedInv == \A t \in AllTasks, f \in Files : f \in moved[t] => place[f] # "staging"

FilesInv == RecoveryAlone /\ UploadInv /\ CountsInv /\ MovedInv /\ BytesPreserved

\* The files an upload may touch before it has any in hand.
Own(t) == IF t \in Uploads THEN FilesOf[t] ELSE {}

\* What the step of a task touches: its own state, files it has in hand, and
\* rows of its own.
Footprint(t) ==
  /\ \A s \in AllTasks \ {t} :
       pc'[s] = pc[s] /\ todo'[s] = todo[s] /\ moved'[s] = moved[s] /\ seen'[s] = seen[s]
  /\ InHand(t)' \subseteq InHand(t) \cup Own(t) \cup rows
  /\ \A f \in Files : place'[f] # place[f] => f \in InHand(t) \cup Own(t)
  /\ rows' \subseteq rows \cup Own(t)

LEMMA UploadFootprint ==
  ASSUME Typed, NEW t \in Uploads, Upload(t)
  PROVE  Footprint(t)
<1> USE Kinds, UploadAssumption DEF Footprint, Own, InHand, Typed, TypeOK, Goto, Loop
<1>1. CASE StartUpload(t)
  BY <1>1 DEF StartUpload
<1>2. CASE StageFile(t)
  BY <1>2 DEF StageFile
<1>3. CASE CommitUpload(t)
  BY <1>3 DEF CommitUpload
<1>4. CASE RefuseUpload(t)
  BY <1>4 DEF RefuseUpload
<1> QED
  BY <1>1, <1>2, <1>3, <1>4 DEF Upload

LEMMA DeleteFootprint ==
  ASSUME Typed, NEW t \in Deletes, Delete(t)
  PROVE  Footprint(t)
<1> USE Kinds DEF Footprint, Own, InHand, Typed, TypeOK, Goto, Loop
<1>1. CASE StartDelete(t)
  BY <1>1 DEF StartDelete
<1>2. CASE BeginDelete(t)
  BY <1>2 DEF BeginDelete
<1>3. CASE DeleteMissing(t)
  BY <1>3 DEF DeleteMissing
<1>4. CASE QuarantineFile(t)
  BY <1>4 DEF QuarantineFile
<1>5. CASE CommitDelete(t)
  BY <1>5 DEF CommitDelete
<1>6. CASE FinishRetried(t)
  BY <1>6 DEF FinishRetried
<1> QED
  BY <1>1, <1>2, <1>3, <1>4, <1>5, <1>6 DEF Delete

LEMMA FinishFootprint ==
  ASSUME Typed, NEW t \in AllTasks, Finish(t)
  PROVE  Footprint(t)
<1> USE Kinds DEF Footprint, Own, InHand, Typed, TypeOK, Goto, Loop
<1>1. CASE FinishCount(t)
  BY <1>1 DEF FinishCount
<1>2. CASE FinishFile(t)
  BY <1>2 DEF FinishFile
<1>3. CASE FinishEnd(t)
  BY <1>3 DEF FinishEnd
<1> QED
  BY <1>1, <1>2, <1>3 DEF Finish

LEMMA FailsFootprint ==
  ASSUME Typed, NEW t \in Tasks, Fails(t)
  PROVE  Footprint(t)
<1> USE Kinds, UploadAssumption DEF Footprint, Own, InHand, Typed, TypeOK, Goto, Loop
<1>1. CASE StageFails(t)
  BY <1>1 DEF StageFails
<1>2. CASE CommitUploadFails(t)
  BY <1>2 DEF CommitUploadFails
<1>3. CASE QuarantineFails(t)
  BY <1>3 DEF QuarantineFails, RestoreMoved
<1>4. CASE CommitDeleteFails(t)
  BY <1>4 DEF CommitDeleteFails, Staged
<1>5. CASE RetryDelete(t)
  BY <1>5 DEF RetryDelete
<1>6. CASE FinishFails(t)
  BY <1>6 DEF FinishFails
<1> QED
  BY <1>1, <1>2, <1>3, <1>4, <1>5, <1>6 DEF Fails

\* While recovery runs, no task starts; it starts when no task runs.
LEMMA NextRecoveryAlone ==
  ASSUME OverlapStartup = FALSE, Typed, RecoveryAlone, [Next]_vars
  PROVE  RecoveryAlone'
<1> USE Kinds DEF RecoveryAlone, Active, Typed, TypeOK, Roles, Goto
<1>1. ASSUME NEW t \in Uploads, Upload(t)
      PROVE  RecoveryAlone'
  BY <1>1 DEF Upload, StartUpload, StageFile, CommitUpload, RefuseUpload, ServesTasks
<1>2. ASSUME NEW t \in Deletes, Delete(t)
      PROVE  RecoveryAlone'
  BY <1>2 DEF Delete, StartDelete, BeginDelete, DeleteMissing, QuarantineFile, CommitDelete,
              FinishRetried, ServesTasks
<1>3. ASSUME NEW t \in AllTasks, Finish(t)
      PROVE  RecoveryAlone'
  BY <1>3 DEF Finish, FinishCount, FinishFile, FinishEnd
<1>4. ASSUME NEW t \in Tasks, Fails(t)
      PROVE  RecoveryAlone'
  BY <1>4 DEF Fails, StageFails, CommitUploadFails, QuarantineFails, CommitDeleteFails,
              RetryDelete, FinishFails, Staged
<1>5. ASSUME NEW p \in Procs, Crash(p)
      PROVE  RecoveryAlone'
  BY <1>5 DEF Crash
<1>6. CASE StartServer \/ EndRecovery \/ UNCHANGED vars
  BY <1>6 DEF StartServer, EndRecovery, vars
<1> QED
  BY <1>1, <1>2, <1>3, <1>4, <1>5, <1>6 DEF Next

\* What UploadInv says of one upload.
UploadOK(u) ==
  /\ pc[u] = "idle" => \A f \in FilesOf[u] : place[f] = "none"
  /\ pc[u] = "stage" =>
       /\ todo[u] \subseteq FilesOf[u]
       /\ \A f \in FilesOf[u] : place[f] = IF f \in todo[u] THEN "none" ELSE "staging"
  /\ NotCommitted(u) =>
       /\ FilesOf[u] \cap rows = {}
       /\ \A t \in AllTasks \ {u} : FilesOf[u] \cap InHand(t) = {}

LEMMA OtherUpload ==
  ASSUME Typed, UploadInv, NEW t \in AllTasks, Footprint(t), NEW u \in Uploads, u # t
  PROVE  UploadOK(u)'
<1>1. UploadOK(u)
  BY DEF UploadInv, UploadOK
<1>2. u \in AllTasks /\ pc'[u] = pc[u] /\ todo'[u] = todo[u]
  BY Kinds DEF Footprint
<1>3. FilesOf[u] \cap Own(t) = {} /\ FilesOf[u] \subseteq Files
  BY UploadAssumption DEF Own
<1>4. CASE NotCommitted(u)
  <2>1. FilesOf[u] \cap InHand(t) = {} /\ FilesOf[u] \cap rows = {}
    BY <1>1, <1>4 DEF UploadOK
  <2>2. \A f \in FilesOf[u] : place'[f] = place[f]
    BY <1>3, <2>1 DEF Footprint
  <2>3. FilesOf[u] \cap rows' = {} /\ FilesOf[u] \cap InHand(t)' = {}
    BY <1>3, <2>1 DEF Footprint
  <2>4. \A s \in AllTasks \ {u} : FilesOf[u] \cap InHand(s)' = {}
    <3> SUFFICES ASSUME NEW s \in AllTasks \ {u}, s # t
                 PROVE  FilesOf[u] \cap InHand(s)' = {}
      BY <2>3
    <3>1. FilesOf[u] \cap InHand(s) = {}
      BY <1>1, <1>4 DEF UploadOK
    <3> QED
      BY <3>1 DEF Footprint, InHand
  <2> QED
    BY <1>1, <1>2, <2>2, <2>3, <2>4 DEF UploadOK, NotCommitted
<1>5. CASE ~NotCommitted(u)
  BY <1>2, <1>5 DEF UploadOK, NotCommitted
<1> QED
  BY <1>4, <1>5

\* The upload whose step it is.
LEMMA ThisUpload ==
  ASSUME Typed, UploadInv, NEW t \in Uploads,
         Upload(t) \/ Finish(t) \/ Fails(t), Footprint(t)
  PROVE  UploadOK(t)'
<1>0. UploadOK(t) /\ t \in AllTasks /\ FilesOf[t] \subseteq Files
  BY Kinds, UploadAssumption DEF UploadInv, UploadOK
<1>1. CASE StartUpload(t)
  BY <1>0, <1>1 DEF StartUpload, UploadOK, NotCommitted, InHand, Footprint, Typed, TypeOK, Goto, Loop
<1>2. CASE StageFile(t)
  <2>1. PICK f \in todo[t] : /\ place' = [place EXCEPT ![f] = "staging"]
                             /\ todo' = [todo EXCEPT ![t] = todo[t] \ {f}]
    BY <1>2 DEF StageFile, Loop
  <2>2. pc[t] = "stage" /\ pc' = pc /\ rows' = rows
    BY <1>2 DEF StageFile
  <2>3. todo'[t] \subseteq FilesOf[t]
    BY <1>0, <2>1, <2>2 DEF UploadOK, Typed, TypeOK
  <2>4. \A g \in FilesOf[t] : place'[g] = IF g \in todo'[t] THEN "none" ELSE "staging"
    BY <1>0, <2>1, <2>2 DEF UploadOK, Typed, TypeOK
  <2>5. \A s \in AllTasks \ {t} : InHand(s)' = InHand(s)
    BY <1>2 DEF InHand, Footprint
  <2> QED
    BY <1>0, <2>2, <2>3, <2>4, <2>5 DEF UploadOK, NotCommitted
<1>3. CASE CommitUpload(t) \/ RefuseUpload(t) \/ Finish(t) \/ Fails(t)
  <2>1. pc'[t] \notin {"idle", "stage"}
    BY <1>0, <1>3, Kinds DEF CommitUpload, RefuseUpload, Finish, FinishCount, FinishFile, FinishEnd, Fails,
       StageFails, CommitUploadFails, QuarantineFails, CommitDeleteFails, RetryDelete, FinishFails,
       Goto, Typed, TypeOK
  <2> QED
    BY <2>1 DEF UploadOK, NotCommitted
<1> QED
  BY <1>1, <1>2, <1>3 DEF Upload

LEMMA NextUploadInv ==
  ASSUME OverlapStartup = FALSE, Typed, UploadInv, RecoveryAlone, [Next]_vars
  PROVE  UploadInv'
<1> SUFFICES ASSUME NEW u \in Uploads
             PROVE  UploadOK(u)'
  BY DEF UploadInv, UploadOK
<1>0. UploadOK(u) /\ FilesOf[u] \subseteq Files /\ u \in AllTasks
  BY Kinds, UploadAssumption DEF UploadInv, UploadOK
<1>1. ASSUME NEW t \in Uploads, Upload(t)
      PROVE  UploadOK(u)'
  BY <1>1, Kinds, UploadFootprint, ThisUpload, OtherUpload
<1>2. ASSUME NEW t \in Deletes, Delete(t)
      PROVE  UploadOK(u)'
  BY <1>2, Kinds, DeleteFootprint, OtherUpload
<1>3. ASSUME NEW t \in AllTasks, Finish(t)
      PROVE  UploadOK(u)'
  BY <1>3, Kinds, FinishFootprint, ThisUpload, OtherUpload
<1>4. ASSUME NEW t \in Tasks, Fails(t)
      PROVE  UploadOK(u)'
  BY <1>4, Kinds, FailsFootprint, ThisUpload, OtherUpload
<1>5. ASSUME NEW p \in Procs, Crash(p)
      PROVE  UploadOK(u)'
  <2>1. \A t \in AllTasks : InHand(t)' \subseteq InHand(t)
    BY <1>5, NoSeenTyped DEF Crash, InHand, Typed, TypeOK
  <2>2. (pc'[u] = pc[u] /\ todo'[u] = todo[u]) \/ pc'[u] = "failed"
    BY <1>0, <1>5, Kinds DEF Crash
  <2>3. UNCHANGED <<place, rows>>
    BY <1>5 DEF Crash
  <2> QED
    BY <1>0, <2>1, <2>2, <2>3 DEF UploadOK, NotCommitted
<1>6. CASE StartServer
  <2>1. ~Active(u)
    BY <1>6, Kinds DEF StartServer
  <2>2. /\ \A s \in AllTasks \ {Recovery} : InHand(s)' = InHand(s)
        /\ InHand(Recovery)' \subseteq moved[Recovery] \cup {f \in Files : place[f] \in Unsettled}
        /\ pc'[u] = pc[u] /\ todo'[u] = todo[u] /\ UNCHANGED <<place, rows>>
    BY <1>6, Kinds DEF StartServer, InHand, Goto, Loop, Typed, TypeOK
  <2>3. moved[Recovery] = {}
    BY Kinds DEF Typed, TypeOK
  <2>4. NotCommitted(u) => FilesOf[u] \cap InHand(Recovery)' = {}
    BY <1>0, <2>1, <2>2, <2>3 DEF UploadOK, NotCommitted, Active, Unsettled
  <2> QED
    BY <1>0, <2>2, <2>4, Kinds DEF UploadOK, NotCommitted
<1>7. CASE EndRecovery
  <2>1. \A t \in AllTasks : InHand(t)' \subseteq InHand(t)
    BY <1>7 DEF EndRecovery, InHand, Goto, Typed, TypeOK
  <2> QED
    BY <1>0, <1>7, <2>1, Kinds DEF EndRecovery, Goto, Typed, TypeOK, UploadOK, NotCommitted
<1>8. CASE UNCHANGED vars
  BY <1>0, <1>8 DEF vars, UploadOK, NotCommitted, InHand
<1> QED
  BY <1>1, <1>2, <1>3, <1>4, <1>5, <1>6, <1>7, <1>8 DEF Next

\* The file a task resolves was counted before, or is counted now.
LEMMA Resolving ==
  ASSUME Typed, [Next]_vars, NEW t \in AllTasks, pc'[t] = "resolve"
  PROVE  \/ pc[t] = "resolve" /\ seen'[t] = seen[t]
         \/ FinishCount(t)
<1>1. ASSUME NEW s \in AllTasks, Footprint(s), s # t
      PROVE  pc[t] = "resolve" /\ seen'[t] = seen[t]
  BY <1>1 DEF Footprint
<1>2. CASE \E u \in Uploads : Upload(u)
  <2>1. ~ Upload(t)
    BY Kinds DEF Upload, StartUpload, StageFile, CommitUpload, RefuseUpload, Goto, Typed, TypeOK
  <2> QED
    BY <1>1, <1>2, <2>1, UploadFootprint, Kinds
<1>3. CASE \E d \in Deletes : Delete(d)
  <2>1. t \in Deletes => ~ Delete(t)
    BY DEF Delete, StartDelete, BeginDelete, DeleteMissing, QuarantineFile, CommitDelete,
           FinishRetried, Goto, Typed, TypeOK
  <2> QED
    BY <1>1, <1>3, <2>1, DeleteFootprint, Kinds
<1>4. CASE \E s \in AllTasks : Finish(s)
  <2>1. ~ FinishFile(t) /\ ~ FinishEnd(t)
    BY DEF FinishFile, FinishEnd, Goto, Typed, TypeOK
  <2> QED
    BY <1>1, <1>4, <2>1, FinishFootprint DEF Finish
<1>5. CASE \E s \in Tasks : Fails(s)
  <2>1. ~ Fails(t)
    BY DEF Fails, StageFails, CommitUploadFails, QuarantineFails, CommitDeleteFails, RetryDelete,
           FinishFails, Goto, Typed, TypeOK
  <2> QED
    BY <1>1, <1>5, <2>1, FailsFootprint, Kinds
<1>6. CASE \E p \in Procs : Crash(p)
  BY <1>6 DEF Crash, Typed, TypeOK
<1>7. CASE StartServer \/ EndRecovery \/ UNCHANGED vars
  BY <1>7 DEF StartServer, EndRecovery, vars, Goto, Typed, TypeOK
<1> QED
  BY <1>2, <1>3, <1>4, <1>5, <1>6, <1>7 DEF Next

LEMMA Counted ==
  ASSUME Typed, NEW t \in AllTasks, FinishCount(t)
  PROVE  rows' = rows /\ seen'[t].referenced = (seen'[t].file \in rows)
<1>1. PICK f \in todo[t] : seen' = [seen EXCEPT ![t] = [file |-> f, referenced |-> f \in rows]]
  BY DEF FinishCount
<1>2. seen'[t] = [file |-> f, referenced |-> f \in rows]
  BY <1>1 DEF Typed, TypeOK
<1>3. seen'[t].file = f /\ seen'[t].referenced = (f \in rows)
  BY <1>2
<1> QED
  BY <1>3 DEF FinishCount

LEMMA NextCounts ==
  ASSUME Typed, UploadInv, CountsInv, [Next]_vars
  PROVE  CountsInv'
<1> SUFFICES ASSUME NEW t \in AllTasks, pc'[t] = "resolve", ~seen'[t].referenced
             PROVE  seen'[t].file \notin rows'
  BY DEF CountsInv
<1>1. \/ pc[t] = "resolve" /\ seen'[t] = seen[t]
      \/ FinishCount(t)
  BY Resolving
<1>2. CASE FinishCount(t)
  <2>1. rows' = rows /\ seen'[t].referenced = (seen'[t].file \in rows)
    BY <1>2, Counted
  <2> QED
    BY <2>1, Zenon
<1>3. CASE pc[t] = "resolve" /\ seen'[t] = seen[t]
  <2>1. seen[t].file \notin rows
    BY <1>3 DEF CountsInv
  <2>2. ASSUME NEW u \in Uploads, CommitUpload(u)
        PROVE  seen[t].file \notin FilesOf[u]
    <3>1. NotCommitted(u) /\ u # t
      BY <1>3, <2>2 DEF CommitUpload, NotCommitted
    <3>2. FilesOf[u] \cap InHand(t) = {}
      BY <3>1, Kinds DEF UploadInv
    <3> QED
      BY <1>3, <3>2 DEF InHand
  <2>3. \A d \in Deletes : CommitDelete(d) => rows' \subseteq rows
    BY DEF CommitDelete
  <2>4. \A u \in Uploads : CommitUpload(u) => rows' = rows \cup FilesOf[u]
    BY DEF CommitUpload
  <2> QED
    BY <1>3, <2>1, <2>2, <2>3, <2>4, Transactions
<1> QED
  BY <1>1, <1>2, <1>3

\* Files are only staged by their own upload.
LEMMA StagingIsOwn ==
  ASSUME Typed, UploadInv, [Next]_vars, NEW f \in Files, place'[f] = "staging"
  PROVE  \/ place[f] = "staging"
         \/ \E u \in Uploads : f \in FilesOf[u] /\ NotCommitted(u) /\ StageFile(u)
<1> USE Kinds DEF Typed, TypeOK
<1>1. ASSUME NEW u \in Uploads, Upload(u)
      PROVE  place[f] = "staging" \/ (f \in FilesOf[u] /\ NotCommitted(u) /\ StageFile(u))
  <2>1. CASE StageFile(u)
    <3>1. PICK g \in todo[u] : place' = [place EXCEPT ![g] = "staging"]
      BY <2>1 DEF StageFile
    <3>2. todo[u] \subseteq FilesOf[u] /\ NotCommitted(u)
      BY <2>1 DEF StageFile, UploadInv, NotCommitted
    <3>3. f = g \/ place[f] = "staging"
      BY <3>1
    <3> QED
      BY <2>1, <3>2, <3>3
  <2>2. CASE ~StageFile(u)
    BY <1>1, <2>2 DEF Upload, StartUpload, CommitUpload, RefuseUpload
  <2> QED
    BY <2>1, <2>2
<1>2. CASE \E d \in Deletes : Delete(d)
  BY <1>2 DEF Delete, StartDelete, BeginDelete, DeleteMissing, QuarantineFile, CommitDelete,
              FinishRetried
<1>3. CASE \E s \in AllTasks : Finish(s)
  BY <1>3 DEF Finish, FinishCount, FinishFile, FinishEnd, Outcome
<1>4. CASE \E s \in Tasks : Fails(s)
  BY <1>4 DEF Fails, StageFails, CommitUploadFails, QuarantineFails, RestoreMoved,
              CommitDeleteFails, RetryDelete, FinishFails
<1>5. CASE (\E p \in Procs : Crash(p)) \/ StartServer \/ EndRecovery \/ UNCHANGED vars
  BY <1>5 DEF Crash, StartServer, EndRecovery, vars
<1> QED
  BY <1>1, <1>2, <1>3, <1>4, <1>5 DEF Next

\* A deletion only adds files to its quarantine that it renamed into it.
LEMMA MovedGrows ==
  ASSUME Typed, [Next]_vars, NEW t \in AllTasks
  PROVE  \A f \in moved'[t] : f \in moved[t] \/ place'[f] = "quarantine"
<1> USE Kinds DEF Typed, TypeOK
<1>1. CASE \E u \in Uploads : Upload(u)
  BY <1>1 DEF Upload, StartUpload, StageFile, CommitUpload, RefuseUpload
<1>2. ASSUME NEW d \in Deletes, Delete(d)
      PROVE  \A f \in moved'[t] : f \in moved[t] \/ place'[f] = "quarantine"
  <2>1. CASE QuarantineFile(d)
    BY <2>1 DEF QuarantineFile
  <2>2. CASE ~QuarantineFile(d)
    BY <1>2, <2>2 DEF Delete, StartDelete, BeginDelete, DeleteMissing, CommitDelete, FinishRetried
  <2> QED
    BY <2>1, <2>2
<1>3. CASE \E s \in AllTasks : Finish(s)
  BY <1>3 DEF Finish, FinishCount, FinishFile, FinishEnd
<1>4. CASE \E s \in Tasks : Fails(s)
  BY <1>4 DEF Fails, StageFails, CommitUploadFails, QuarantineFails,
              CommitDeleteFails, RetryDelete, FinishFails
<1>5. CASE (\E p \in Procs : Crash(p)) \/ StartServer \/ EndRecovery \/ UNCHANGED vars
  BY <1>5 DEF Crash, StartServer, EndRecovery, vars
<1> QED
  BY <1>1, <1>2, <1>3, <1>4, <1>5 DEF Next

LEMMA NextMoved ==
  ASSUME Typed, UploadInv, MovedInv, [Next]_vars
  PROVE  MovedInv'
<1> SUFFICES ASSUME NEW t \in AllTasks, NEW f \in Files, f \in moved'[t], place'[f] = "staging"
             PROVE  FALSE
  BY DEF MovedInv
<1>1. f \in moved[t]
  BY MovedGrows
<1>2. PICK u \in Uploads : f \in FilesOf[u] /\ NotCommitted(u)
  BY <1>1, StagingIsOwn DEF MovedInv
<1>3. t # u
  BY <1>1, Kinds DEF Typed, TypeOK
<1>4. FilesOf[u] \cap InHand(t) = {}
  BY <1>2, <1>3 DEF UploadInv
<1> QED
  BY <1>1, <1>2, <1>4 DEF InHand

Safe(f) == place[f] \in {"stored"} \cup Unsettled

\* What a step does to a referenced file.
LEMMA NextBytes ==
  ASSUME Typed, UploadInv, CountsInv, BytesPreserved, [Next]_vars
  PROVE  BytesPreserved'
<1> SUFFICES ASSUME NEW f \in Files, f \in rows'
             PROVE  Safe(f)'
  <2>1. rows' \subseteq Files
    BY NextTyped DEF Typed, TypeOK
  <2> QED
    BY <2>1 DEF BytesPreserved, Safe
<1> USE DEF Safe, Unsettled
<1>0. f \in rows => Safe(f)
  BY DEF BytesPreserved
<1>1. ASSUME NEW t \in Uploads, Upload(t)
      PROVE  Safe(f)'
  <2>1. CASE StartUpload(t) \/ RefuseUpload(t)
    BY <1>0, <2>1 DEF StartUpload, RefuseUpload
  <2>2. CASE StageFile(t)
    BY <1>0, <2>2 DEF StageFile, Typed, TypeOK
  <2>3. CASE CommitUpload(t)
    BY <1>0, <2>3, Kinds DEF CommitUpload, UploadInv
  <2> QED
    BY <1>1, <2>1, <2>2, <2>3 DEF Upload
<1>2. ASSUME NEW t \in Deletes, Delete(t)
      PROVE  Safe(f)'
  <2>1. CASE StartDelete(t) \/ BeginDelete(t) \/ DeleteMissing(t) \/ CommitDelete(t)
    BY <1>0, <2>1 DEF StartDelete, BeginDelete, DeleteMissing, CommitDelete
  <2>2. CASE QuarantineFile(t)
    BY <1>0, <2>2 DEF QuarantineFile, Typed, TypeOK
  <2>3. CASE FinishRetried(t)
    BY <1>0, <2>3 DEF FinishRetried
  <2> QED
    BY <1>2, <2>1, <2>2, <2>3 DEF Delete
<1>3. ASSUME NEW t \in AllTasks, Finish(t)
      PROVE  Safe(f)'
  <2>1. CASE FinishCount(t) \/ FinishEnd(t)
    BY <1>0, <2>1 DEF FinishCount, FinishEnd
  <2>2. CASE FinishFile(t)
    BY <1>0, <2>2 DEF FinishFile, Outcome, CountsInv, Typed, TypeOK
  <2> QED
    BY <1>3, <2>1, <2>2 DEF Finish
<1>4. ASSUME NEW t \in Tasks, Fails(t)
      PROVE  Safe(f)'
  <2>1. CASE StageFails(t)
    <3>1. rows' = rows /\ FilesOf[t] \cap rows = {}
      BY <2>1 DEF StageFails, UploadInv, NotCommitted
    <3> QED
      BY <1>0, <2>1, <3>1 DEF StageFails
  <2>2. CASE QuarantineFails(t)
    BY <1>0, <2>2 DEF QuarantineFails, RestoreMoved
  <2>3. CASE CommitUploadFails(t) \/ CommitDeleteFails(t) \/ RetryDelete(t) \/ FinishFails(t)
    BY <1>0, <2>3 DEF CommitUploadFails, CommitDeleteFails, RetryDelete, FinishFails
  <2> QED
    BY <1>4, <2>1, <2>2, <2>3 DEF Fails
<1>5. CASE (\E p \in Procs : Crash(p)) \/ StartServer \/ EndRecovery \/ UNCHANGED vars
  BY <1>0, <1>5 DEF Crash, StartServer, EndRecovery, vars
<1> QED
  BY <1>1, <1>2, <1>3, <1>4, <1>5 DEF Next

LEMMA InitFiles == Init => FilesInv
<1> SUFFICES ASSUME Init PROVE FilesInv
  OBVIOUS
<1>1. RecoveryAlone /\ CountsInv /\ BytesPreserved /\ MovedInv
  BY Kinds DEF Init, RecoveryAlone, Active, CountsInv, BytesPreserved, MovedInv
<1>2. UploadInv
  BY Kinds, UploadAssumption DEF Init, UploadInv, NotCommitted, InHand
<1> QED
  BY <1>1, <1>2 DEF FilesInv

LEMMA NextFiles ==
  ASSUME OverlapStartup = FALSE, Typed, FilesInv, [Next]_vars
  PROVE  FilesInv'
BY NextRecoveryAlone, NextUploadInv, NextCounts, NextMoved, NextBytes DEF FilesInv

\* The bytes of referenced files survive every interleaving, crash and failed
\* cleanup (upload_deletions.go:158), provided that no other process has an
\* upload or a deletion under way when the server recovers.
THEOREM UploadBytesPreserved ==
  ASSUME OverlapStartup = FALSE
  PROVE  Spec => []BytesPreserved
<1>1. FilesInv => BytesPreserved
  BY DEF FilesInv
<1> QED
  BY <1>1, InitTyped, NextTyped, InitFiles, NextFiles, PTL DEF Spec

(***************************************************************************)
(* Files against rows in one process.                                      *)
(***************************************************************************)

\* The mutex: a deletion is the only task.
Alone ==
  \A t \in Deletes : Active(t) => \A s \in AllTasks \ {t} : ~Active(s)

\* A file counted as referenced stays so until it is restored.
ReferencedInv ==
  \A t \in AllTasks : pc[t] = "resolve" /\ seen[t].referenced => seen[t].file \in rows

\* A deletion in its transaction has in hand what rows name, and everything
\* of its target that is stored.
QuarantineInv ==
  \A t \in Deletes : pc[t] = "quarantine" =>
    /\ todo[t] \cup moved[t] \subseteq rows
    /\ \A f \in TargetFiles(t) \cap rows : f \in todo[t] \/ place[f] # "stored"

\* A file in a staging root that its task will promote, restore or remove.
Pending(t, f) ==
  \/ pc[t] = "stage" /\ f \in FilesOf[t]
  \/ pc[t] \in {"quarantine", "retry"} /\ f \in moved[t]
  \/ pc[t] \in {"finish", "resolve"} /\ f \in todo[t]
  \/ pc[t] = "resolve" /\ f = seen[t].file

\* Nothing is in a staging root without a task that has it in hand, unless
\* something failed; recovery has everything in hand even then.
Accounted ==
  /\ Active(Recovery) =>
       \A f \in Files : place[f] \in Unsettled => Pending(Recovery, f)
  /\ ~dirty => \A f \in Files : place[f] \in Unsettled => \E t \in AllTasks : Pending(t, f)

ProcessInv == OneProcess => Alone /\ ReferencedInv /\ QuarantineInv /\ Accounted /\ NoOrphan

\* In one process a running deletion is interrupted by its crash only.
LEMMA DeletionStep ==
  ASSUME OverlapStartup = FALSE, Typed, OneProcess, Alone, [Next]_vars,
         NEW t \in Deletes, Active(t)
  PROVE  \/ Delete(t) \/ Finish(t) \/ Fails(t)
         \/ UNCHANGED vars
         \/ ~Active(t)'
<1> USE Kinds
<1>0. \A s \in AllTasks \ {t} : ~Active(s)
  BY DEF Alone
<1>1. t \in Writers(Server)
  BY DEF Writers, Home, OneProcess
<1>2. \A s \in AllTasks : Home(s) = Server
  BY DEF Home, OneProcess
<1>3. ASSUME NEW s \in Tasks, s # t
      PROVE  ~Fails(s)
  BY <1>0, <1>3 DEF Fails, StageFails, CommitUploadFails, QuarantineFails, CommitDeleteFails,
                    RetryDelete, FinishFails, Staged, Active, Tasks, AllTasks
<1>4. ASSUME NEW s \in AllTasks, s # t
      PROVE  ~Finish(s)
  BY <1>0, <1>4 DEF Finish, FinishCount, FinishFile, FinishEnd, Active
<1>5. ASSUME NEW s \in Deletes, s # t
      PROVE  ~Delete(s)
  BY <1>0, <1>1, <1>2, <1>5 DEF Delete, StartDelete, BeginDelete, DeleteMissing, QuarantineFile,
                    CommitDelete, FinishRetried, Active
<1>6. ASSUME NEW s \in Uploads
      PROVE  ~Upload(s)
  BY <1>0, <1>1, <1>2, <1>6 DEF Upload, StartUpload, StageFile, CommitUpload, RefuseUpload, Active
<1>7. ASSUME NEW p \in Procs, Crash(p)
      PROVE  ~Active(t)'
  <2>1. p = Server
    BY <1>2, <1>7 DEF Crash
  <2> QED
    BY <1>2, <1>7, <2>1 DEF Crash, Active
<1>8. ~StartServer /\ ~EndRecovery
  BY <1>0 DEF StartServer, EndRecovery, Active
<1> QED
  BY <1>3, <1>4, <1>5, <1>6, <1>7, <1>8 DEF Next

\* Only the start of a task makes it active.
LEMMA Starts ==
  ASSUME Typed, [Next]_vars, NEW t \in AllTasks, Active(t)', ~Active(t)
  PROVE  \/ t \in Uploads /\ StartUpload(t)
         \/ t \in Deletes /\ StartDelete(t)
         \/ t = Recovery /\ StartServer
<1> USE Kinds DEF Active
<1>0. ASSUME NEW s \in AllTasks, Footprint(s)
      PROVE  s = t
  BY <1>0 DEF Footprint
<1>1. ASSUME NEW u \in Uploads, Upload(u)
      PROVE  u = t /\ StartUpload(t)
  <2>1. u = t
    BY <1>0, <1>1, UploadFootprint
  <2> QED
    BY <1>1, <2>1 DEF Upload, StageFile, CommitUpload, RefuseUpload
<1>2. ASSUME NEW d \in Deletes, Delete(d)
      PROVE  d = t /\ StartDelete(t)
  <2>1. d = t
    BY <1>0, <1>2, DeleteFootprint
  <2> QED
    BY <1>2, <2>1 DEF Delete, BeginDelete, DeleteMissing, QuarantineFile, CommitDelete, FinishRetried
<1>3. ASSUME NEW s \in AllTasks, Finish(s)
      PROVE  FALSE
  <2>1. s = t
    BY <1>0, <1>3, FinishFootprint
  <2> QED
    BY <1>3, <2>1 DEF Finish, FinishCount, FinishFile, FinishEnd
<1>4. ASSUME NEW s \in Tasks, Fails(s)
      PROVE  FALSE
  <2>1. s = t
    BY <1>0, <1>4, FailsFootprint
  <2> QED
    BY <1>4, <2>1 DEF Fails, StageFails, CommitUploadFails, QuarantineFails, CommitDeleteFails,
                      RetryDelete, FinishFails, Staged
<1>5. CASE \E p \in Procs : Crash(p)
  BY <1>5 DEF Crash, Typed, TypeOK
<1>6. CASE StartServer
  BY <1>6 DEF StartServer, Goto, Typed, TypeOK
<1>7. CASE EndRecovery \/ UNCHANGED vars
  BY <1>7 DEF EndRecovery, vars, Goto, Typed, TypeOK
<1> QED
  BY <1>1, <1>2, <1>3, <1>4, <1>5, <1>6, <1>7 DEF Next

LEMMA NextAlone ==
  ASSUME OverlapStartup = FALSE, Typed, OneProcess, Alone, RecoveryAlone, [Next]_vars
  PROVE  Alone'
<1> SUFFICES ASSUME NEW t \in Deletes, NEW s \in AllTasks \ {t}, Active(t)', Active(s)'
             PROVE  FALSE
  BY DEF Alone
<1> USE Kinds
<1>0. \A r \in AllTasks : Home(r) = Server
  BY DEF Home, OneProcess
<1>1. CASE Active(t)
  <2>1. ~Active(s)
    BY <1>1 DEF Alone
  <2>2. t \in Writers(Server)
    BY <1>0, <1>1 DEF Writers
  <2> QED
    BY <1>0, <1>1, <2>1, <2>2, Starts DEF StartUpload, StartDelete, StartServer
<1>2. CASE ~Active(t)
  <2>1. StartDelete(t)
    BY <1>2, Starts
  <2>2. \A r \in AllTasks : ~Active(r)
    BY <1>0, <2>1 DEF StartDelete, Writers, Readers
  <2> QED
    BY <2>1, <2>2 DEF StartDelete, Goto, Active, Typed, TypeOK
<1> QED
  BY <1>1, <1>2

LEMMA NextReferenced ==
  ASSUME Typed, Alone, ReferencedInv, [Next]_vars
  PROVE  ReferencedInv'
<1> SUFFICES ASSUME NEW t \in AllTasks, pc'[t] = "resolve", seen'[t].referenced
             PROVE  seen'[t].file \in rows'
  BY DEF ReferencedInv
<1>1. CASE FinishCount(t)
  <2>1. rows' = rows /\ seen'[t].referenced = (seen'[t].file \in rows)
    BY <1>1, Counted
  <2> QED
    BY <2>1, Zenon
<1>2. CASE pc[t] = "resolve" /\ seen'[t] = seen[t]
  <2>1. seen[t].file \in rows
    BY <1>2 DEF ReferencedInv
  <2>2. \A d \in Deletes : ~CommitDelete(d)
    BY <1>2, Kinds DEF Alone, CommitDelete, Active
  <2>3. rows \subseteq rows'
    BY <2>2, Transactions DEF CommitUpload
  <2> QED
    BY <1>2, <2>1, <2>3
<1> QED
  BY <1>1, <1>2, Resolving

LEMMA NextQuarantine ==
  ASSUME OverlapStartup = FALSE, Typed, OneProcess, Alone, QuarantineInv, [Next]_vars
  PROVE  QuarantineInv'
<1> SUFFICES ASSUME NEW t \in Deletes, pc'[t] = "quarantine"
             PROVE  /\ todo'[t] \cup moved'[t] \subseteq rows'
                    /\ \A f \in TargetFiles(t) \cap rows' : f \in todo'[t] \/ place'[f] # "stored"
  BY DEF QuarantineInv, TargetFiles
<1> USE Kinds DEF Typed, TypeOK
<1>1. Active(t) /\ Active(t)'
  BY Starts DEF StartDelete, Goto, Active
<1>2. ~Finish(t) /\ ~Fails(t)
  BY DEF Finish, FinishCount, FinishFile, FinishEnd, Fails, StageFails, CommitUploadFails,
         QuarantineFails, CommitDeleteFails, RetryDelete, FinishFails, Goto
<1>3. CASE BeginDelete(t)
  BY <1>3 DEF BeginDelete, Goto, Loop, Roles
<1>4. CASE QuarantineFile(t)
  <2>0. pc[t] = "quarantine" /\ rows' = rows
    BY <1>4 DEF QuarantineFile
  <2>1. PICK f \in todo[t] :
          /\ Loop(t, todo[t] \ {f})
          /\ IF place[f] = "stored"
             THEN /\ place' = [place EXCEPT ![f] = "quarantine"]
                  /\ moved' = [moved EXCEPT ![t] = @ \cup {f}]
             ELSE UNCHANGED <<place, moved>>
    BY <1>4 DEF QuarantineFile
  <2>2. todo'[t] = todo[t] \ {f} /\ moved'[t] \subseteq moved[t] \cup {f} /\ f \in Files
    BY <2>1 DEF Loop
  <2>3. place'[f] # "stored" /\ \A g \in Files : place'[g] = "stored" => place[g] = "stored"
    BY <2>1, <2>2
  <2> QED
    BY <2>0, <2>2, <2>3, TargetsAreFiles DEF QuarantineInv
<1>5. CASE Delete(t) /\ ~BeginDelete(t) /\ ~QuarantineFile(t)
  BY <1>5 DEF Delete, StartDelete, DeleteMissing, CommitDelete, FinishRetried, Goto
<1>6. CASE UNCHANGED vars
  BY <1>6 DEF vars, QuarantineInv
<1> QED
  BY <1>1, <1>2, <1>3, <1>4, <1>5, <1>6, DeletionStep

\* What a step stores has a row, and what it removes a row of is not stored.
LEMMA NextNoOrphan ==
  ASSUME Typed, OneProcess, ReferencedInv, QuarantineInv, NoOrphan, [Next]_vars
  PROVE  NoOrphan'
<1> SUFFICES ASSUME NEW f \in Files, place'[f] = "stored"
             PROVE  f \in rows'
  BY DEF NoOrphan
<1>0. place[f] = "stored" => f \in rows
  BY DEF NoOrphan
<1> USE Kinds DEF Typed, TypeOK
<1>1. ASSUME NEW t \in Uploads, Upload(t)
      PROVE  f \in rows'
  BY <1>0, <1>1 DEF Upload, StartUpload, StageFile, CommitUpload, RefuseUpload
<1>2. ASSUME NEW t \in Deletes, Delete(t)
      PROVE  f \in rows'
  <2>1. CASE CommitDelete(t)
    <3>1. \A g \in TargetFiles(t) \cap rows : place[g] # "stored"
      BY <2>1 DEF CommitDelete, QuarantineInv
    <3> QED
      BY <1>0, <2>1, <3>1 DEF CommitDelete
  <2>2. CASE QuarantineFile(t)
    BY <1>0, <2>2 DEF QuarantineFile
  <2>3. CASE FinishRetried(t)
    BY <1>0, <2>3 DEF FinishRetried
  <2>4. CASE StartDelete(t) \/ BeginDelete(t) \/ DeleteMissing(t)
    BY <1>0, <2>4 DEF StartDelete, BeginDelete, DeleteMissing
  <2> QED
    BY <1>2, <2>1, <2>2, <2>3, <2>4 DEF Delete
<1>3. ASSUME NEW t \in AllTasks, Finish(t)
      PROVE  f \in rows'
  <2>1. CASE FinishFile(t)
    BY <1>0, <2>1 DEF FinishFile, Outcome, ReferencedInv
  <2>2. CASE FinishCount(t) \/ FinishEnd(t)
    BY <1>0, <2>2 DEF FinishCount, FinishEnd
  <2> QED
    BY <1>3, <2>1, <2>2 DEF Finish
<1>4. ASSUME NEW t \in Tasks, Fails(t)
      PROVE  f \in rows'
  <2>1. CASE QuarantineFails(t)
    BY <1>0, <2>1 DEF QuarantineFails, RestoreMoved, QuarantineInv
  <2>2. CASE StageFails(t)
    BY <1>0, <2>2 DEF StageFails
  <2>3. CASE CommitUploadFails(t) \/ CommitDeleteFails(t) \/ RetryDelete(t) \/ FinishFails(t)
    BY <1>0, <2>3 DEF CommitUploadFails, CommitDeleteFails, RetryDelete, FinishFails
  <2> QED
    BY <1>4, <2>1, <2>2, <2>3 DEF Fails
<1>5. CASE (\E p \in Procs : Crash(p)) \/ StartServer \/ EndRecovery \/ UNCHANGED vars
  BY <1>0, <1>5 DEF Crash, StartServer, EndRecovery, vars
<1> QED
  BY <1>1, <1>2, <1>3, <1>4, <1>5 DEF Next

\* What the step of a task does to the files it had pending: each is settled
\* or still pending, unless the step failed.
Settles(t) ==
  /\ dirty => dirty'
  /\ ~dirty' => \A f \in Files : place'[f] \in Unsettled =>
       \/ Pending(t, f)'
       \/ place[f] \in Unsettled /\ ~Pending(t, f)

LEMMA UploadSettles ==
  ASSUME Typed, UploadInv, NEW t \in Uploads, Upload(t)
  PROVE  Settles(t)
<1> USE Kinds, UploadAssumption DEF Settles, Typed, TypeOK, Goto, Loop, Unsettled
<1>1. CASE StartUpload(t)
  BY <1>1 DEF StartUpload, Pending
<1>2. CASE StageFile(t)
  <2>1. PICK f \in todo[t] : place' = [place EXCEPT ![f] = "staging"]
    BY <1>2 DEF StageFile
  <2>2. pc' = pc /\ pc[t] = "stage" /\ dirty' = dirty /\ f \in FilesOf[t]
    BY <1>2 DEF StageFile, UploadInv
  <2>3. \A g \in Files : g # f => place'[g] = place[g] /\ (Pending(t, g) => Pending(t, g)')
    BY <2>1, <2>2 DEF Pending
  <2>4. Pending(t, f)'
    BY <2>2 DEF Pending
  <2> QED
    BY <2>2, <2>3, <2>4
<1>3. CASE CommitUpload(t)
  BY <1>3 DEF CommitUpload, Pending
<1>4. CASE RefuseUpload(t)
  BY <1>4 DEF RefuseUpload, Pending
<1> QED
  BY <1>1, <1>2, <1>3, <1>4 DEF Upload

LEMMA DeleteSettles ==
  ASSUME Typed, MovedInv, NEW t \in Deletes, Delete(t)
  PROVE  Settles(t)
<1> USE Kinds DEF Settles, Typed, TypeOK, Goto, Loop, Unsettled
<1>1. CASE StartDelete(t)
  BY <1>1 DEF StartDelete, Pending
<1>2. CASE BeginDelete(t)
  BY <1>2 DEF BeginDelete, Pending
<1>3. CASE DeleteMissing(t)
  BY <1>3 DEF DeleteMissing, Pending
<1>4. CASE QuarantineFile(t)
  BY <1>4 DEF QuarantineFile, Pending
<1>5. CASE CommitDelete(t)
  BY <1>5 DEF CommitDelete, Pending
<1>6. CASE FinishRetried(t)
  BY <1>6 DEF FinishRetried, Pending, MovedInv
<1> QED
  BY <1>1, <1>2, <1>3, <1>4, <1>5, <1>6 DEF Delete

LEMMA FinishSettles ==
  ASSUME Typed, Alone, NEW t \in AllTasks, Finish(t)
  PROVE  Settles(t)
<1> USE Kinds DEF Settles, Typed, TypeOK, Goto, Loop, Unsettled
<1>1. CASE FinishCount(t)
  BY <1>1 DEF FinishCount, Pending
<1>2. CASE FinishFile(t)
  <2>1. \A d \in Deletes \ {t} : moved[d] = {}
    BY <1>2 DEF FinishFile, Active, Alone
  <2>2. place'[seen[t].file] \notin Unsettled
    BY <1>2, <2>1 DEF FinishFile, InOperation, Outcome
  <2>3. \A f \in Files : f # seen[t].file => place'[f] = place[f] /\ (Pending(t, f) => Pending(t, f)')
    BY <1>2 DEF FinishFile, Pending
  <2> QED
    BY <1>2, <2>2, <2>3 DEF FinishFile
<1>3. CASE FinishEnd(t)
  BY <1>3 DEF FinishEnd, Pending
<1> QED
  BY <1>1, <1>2, <1>3 DEF Finish

LEMMA FailsSettles ==
  ASSUME Typed, UploadInv, MovedInv, NEW t \in Tasks, Fails(t)
  PROVE  Settles(t)
<1> USE Kinds DEF Settles, Typed, TypeOK, Goto, Loop, Unsettled
<1>1. CASE StageFails(t)
  <2>1. pc[t] = "stage" /\ (dirty => dirty') /\ t \in Uploads
    BY <1>1 DEF StageFails
  <2>2. ASSUME ~dirty', NEW f \in Files, place'[f] \in Unsettled
        PROVE  place[f] \in Unsettled /\ f \notin FilesOf[t]
    <3>1. /\ f \in FilesOf[t] => place'[f] # "staging"
          /\ place'[f] \in {place[f], "removed"}
      BY <1>1, <2>2 DEF StageFails
    <3>2. f \in FilesOf[t] => place[f] \in {"none", "staging"}
      BY <2>1 DEF UploadInv
    <3> QED
      BY <2>2, <3>1, <3>2
  <2> QED
    BY <2>1, <2>2 DEF Pending
<1>2. CASE CommitUploadFails(t)
  BY <1>2 DEF CommitUploadFails, Pending
<1>3. CASE QuarantineFails(t)
  BY <1>3 DEF QuarantineFails, RestoreMoved, MovedInv, Pending
<1>4. CASE CommitDeleteFails(t)
  BY <1>4 DEF CommitDeleteFails, Staged, Pending
<1>5. CASE RetryDelete(t)
  BY <1>5 DEF RetryDelete, Pending
<1>6. CASE FinishFails(t)
  BY <1>6 DEF FinishFails
<1> QED
  BY <1>1, <1>2, <1>3, <1>4, <1>5, <1>6 DEF Fails

\* The step of one task leaves the files of the others accounted for.
LEMMA OthersPending ==
  ASSUME Typed, Accounted, NEW t \in AllTasks, Footprint(t), Settles(t),
         ~dirty', NEW f \in Files, place'[f] \in Unsettled
  PROVE  \E s \in AllTasks : Pending(s, f)'
<1>1. ASSUME NEW s \in AllTasks, s # t, Pending(s, f)
      PROVE  Pending(s, f)'
  BY <1>1 DEF Footprint, Pending
<1> QED
  BY <1>1 DEF Settles, Accounted

\* Recovery starts with every file of the staging roots in hand, and nobody
\* else moves one while it runs.
LEMMA Recovering ==
  ASSUME OverlapStartup = FALSE, Typed, RecoveryAlone, Accounted, [Next]_vars,
         Active(Recovery)', NEW f \in Files, place'[f] \in Unsettled
  PROVE  Pending(Recovery, f)'
<1> USE Kinds
<1>1. CASE ~Active(Recovery)
  <2>1. StartServer
    BY <1>1, Starts
  <2> QED
    BY <2>1 DEF StartServer, Goto, Loop, Typed, TypeOK, Pending
<1>2. CASE Active(Recovery)
  <2>0. /\ \A t \in Tasks : ~Active(t)
        /\ \A t \in Tasks : ~ServesTasks(Home(t))
        /\ place[f] \in Unsettled => Pending(Recovery, f)
    BY <1>2 DEF RecoveryAlone, ServesTasks, Accounted
  <2>1. \A u \in Uploads : ~Upload(u)
    BY <2>0 DEF Upload, StartUpload, StageFile, CommitUpload, RefuseUpload, Active
  <2>2. \A d \in Deletes : ~Delete(d)
    BY <2>0 DEF Delete, StartDelete, BeginDelete, DeleteMissing, QuarantineFile, CommitDelete,
                FinishRetried, Active
  <2>3. \A t \in Tasks : ~Finish(t) /\ ~Fails(t)
    BY <2>0 DEF Finish, FinishCount, FinishFile, FinishEnd, Fails, StageFails, CommitUploadFails,
                QuarantineFails, CommitDeleteFails, RetryDelete, FinishFails, Staged, Active
  <2>4. CASE FinishCount(Recovery)
    BY <2>0, <2>4 DEF FinishCount, Goto, Loop, Typed, TypeOK, Pending
  <2>5. CASE FinishFile(Recovery)
    <3>1. place'[seen[Recovery].file] \notin Unsettled
      BY <2>5 DEF FinishFile, InOperation, Outcome, Unsettled, Typed, TypeOK
    <3>2. f # seen[Recovery].file /\ place'[f] = place[f]
      BY <2>5, <3>1 DEF FinishFile, Typed, TypeOK
    <3> QED
      BY <2>0, <2>5, <3>2 DEF FinishFile, Goto, Typed, TypeOK, Pending
  <2>6. ~FinishEnd(Recovery) /\ ~StartServer /\ ~EndRecovery
    BY <1>2 DEF FinishEnd, StartServer, EndRecovery, Goto, Active, Typed, TypeOK
  <2>7. ASSUME NEW p \in Procs, Crash(p)
        PROVE  Pending(Recovery, f)'
    <3>1. Home(Recovery) # p
      BY <1>2, <2>7 DEF Crash, Active
    <3> QED
      BY <2>0, <2>7, <3>1 DEF Crash, Pending
  <2>8. CASE UNCHANGED vars
    BY <2>0, <2>8 DEF vars, Pending
  <2>9. AllTasks = Tasks \cup {Recovery}
    BY DEF AllTasks
  <2> QED
    BY <2>1, <2>2, <2>3, <2>4, <2>5, <2>6, <2>7, <2>8, <2>9 DEF Next, Finish
<1> QED
  BY <1>1, <1>2

LEMMA NextAccounted ==
  ASSUME OverlapStartup = FALSE, Typed, FilesInv, Alone, Accounted, [Next]_vars
  PROVE  Accounted'
<1> USE Kinds DEF FilesInv
<1>1. ASSUME Active(Recovery)', NEW f \in Files, place'[f] \in Unsettled
      PROVE  Pending(Recovery, f)'
  BY <1>1, Recovering
<1>2. ASSUME ~dirty', NEW f \in Files, place'[f] \in Unsettled
      PROVE  \E s \in AllTasks : Pending(s, f)'
  <2>1. ASSUME NEW t \in Uploads, Upload(t)
        PROVE  \E s \in AllTasks : Pending(s, f)'
    BY <1>2, <2>1, UploadFootprint, UploadSettles, OthersPending
  <2>2. ASSUME NEW t \in Deletes, Delete(t)
        PROVE  \E s \in AllTasks : Pending(s, f)'
    BY <1>2, <2>2, DeleteFootprint, DeleteSettles, OthersPending
  <2>3. ASSUME NEW t \in AllTasks, Finish(t)
        PROVE  \E s \in AllTasks : Pending(s, f)'
    BY <1>2, <2>3, FinishFootprint, FinishSettles, OthersPending
  <2>4. ASSUME NEW t \in Tasks, Fails(t)
        PROVE  \E s \in AllTasks : Pending(s, f)'
    <3>1. t \in AllTasks
      OBVIOUS
    <3> QED
      BY <1>2, <2>4, <3>1, FailsFootprint, FailsSettles, OthersPending
  <2>5. CASE \E p \in Procs : Crash(p)
    BY <1>2, <2>5 DEF Crash
  <2>6. CASE StartServer
    <3>1. Active(Recovery)'
      BY <2>6 DEF StartServer, Goto, Active, Typed, TypeOK
    <3> QED
      BY <1>1, <1>2, <3>1
  <2>7. CASE EndRecovery
    <3>1. Active(Recovery) /\ place' = place /\ ~Pending(Recovery, f)
      BY <2>7 DEF EndRecovery, Active, Pending, Typed, Roles
    <3> QED
      BY <1>2, <3>1 DEF Accounted
  <2>8. CASE UNCHANGED vars
    BY <1>2, <2>8 DEF vars, Accounted, Pending
  <2> QED
    BY <2>1, <2>2, <2>3, <2>4, <2>5, <2>6, <2>7, <2>8 DEF Next
<1> QED
  BY <1>1, <1>2 DEF Accounted

LEMMA NextProcess ==
  ASSUME OverlapStartup = FALSE, Typed, FilesInv, ProcessInv, [Next]_vars
  PROVE  ProcessInv'
<1> SUFFICES ASSUME OneProcess'
             PROVE  (Alone /\ ReferencedInv /\ QuarantineInv /\ Accounted /\ NoOrphan)'
  BY DEF ProcessInv
<1>1. OneProcess
  BY Transactions DEF OneProcess
<1> QED
  BY <1>1, NextAlone, NextReferenced, NextQuarantine, NextAccounted, NextNoOrphan
  DEF ProcessInv, FilesInv

LEMMA AlwaysProcess ==
  ASSUME OverlapStartup = FALSE
  PROVE  Spec => [](Typed /\ FilesInv /\ ProcessInv)
<1>1. Init => ProcessInv
  BY Kinds DEF Init, ProcessInv, Alone, ReferencedInv, QuarantineInv, Accounted, NoOrphan, Active,
               Unsettled
<1> QED
  BY <1>1, InitTyped, NextTyped, InitFiles, NextFiles, NextProcess, PTL DEF Spec

\* A stored file has a row: no deletion leaves an upload behind and no refused
\* submission leaves one (management.go:16), through any crash and failure.
THEOREM UploadNoOrphan ==
  ASSUME OverlapStartup = FALSE
  PROVE  Spec => []NoOrphan
<1>1. ProcessInv => NoOrphan
  BY DEF ProcessInv, NoOrphan
<1> QED
  BY <1>1, AlwaysProcess, PTL

\* With nothing running and nothing failed since the last recovery, files and
\* rows agree and the staging roots are empty: one recovery settles everything
\* a crash interrupted (upload_deletions.go:158).
THEOREM UploadSettledWhenQuiet ==
  ASSUME OverlapStartup = FALSE
  PROVE  Spec => []SettledWhenQuiet
<1>1. ASSUME Typed, FilesInv, ProcessInv
      PROVE  SettledWhenQuiet
  <2> SUFFICES ASSUME OneProcess, up, ~dirty, \A t \in Tasks : ~Active(t), NEW f \in Files
               PROVE  place[f] \notin Unsettled /\ (f \in rows => place[f] = "stored")
    BY DEF SettledWhenQuiet
  <2>1. \A t \in AllTasks : ~Active(t)
    BY <1>1 DEF FilesInv, RecoveryAlone, AllTasks
  <2>2. \A t \in AllTasks : ~Pending(t, f)
    BY <2>1 DEF Pending, Active
  <2>3. place[f] \notin Unsettled
    BY <1>1, <2>2 DEF ProcessInv, Accounted
  <2> QED
    BY <1>1, <2>3 DEF FilesInv, BytesPreserved
<1> QED
  BY <1>1, AlwaysProcess, PTL
=============================================================================
