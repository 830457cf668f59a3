--------------------------- MODULE Administration ---------------------------
(***************************************************************************)
(* Everything an operator does to the configuration (Editing) and to the   *)
(* inbox of the forms, while visitors submit: reading, deleting, adding    *)
(* and downloading entries, and the CSV export (internal/forms/export.go,  *)
(* management.go, internal/http/submissions.go, internal/cli).             *)
(*                                                                         *)
(* An export is three readings without a transaction: one that counts, one *)
(* that loads the entries, one that loads their forms.  A deletion moves   *)
(* files to a quarantine before the transaction that removes the rows      *)
(* commits (UploadLifecycle has what becomes of them after a crash).       *)
(***************************************************************************)
EXTENDS Editing, Sequences, Functions

CONSTANTS
  Contents,     \* what is submitted: how many bytes, which fields
  MaxEntries,   \* MaxCSVExportEntries
  MaxBytes,     \* MaxCSVExportContentBytes
  MaxFields,    \* MaxCSVExportFields
  MaxReceived,  \* bound: entries ever received
  Other         \* another program of the command's user

ASSUME AdministrationAssumption ==
  /\ MaxEntries \in Nat /\ MaxReceived \in Nat
  /\ Other \notin Operators

VARIABLES
  mail,    \* every entry ever received, by id: its form, bytes and fields
  inbox,   \* ids of the entries that are stored
  stored,  \* entries whose file is in its place
  moved,   \* history: entries whose file was ever moved to a quarantine
  dest     \* who created and who replaced the destination of the file copies

entries == <<mail, inbox, stored, moved>>
vars == <<job, table, editing, entries, dest>>

AdministrationInit ==
  /\ ConsoleInit /\ EditingInit
  /\ mail \in IF table = "form" THEN {<<[form |-> 1, content |-> c]>> : c \in Contents} ELSE {<<>>}
  /\ inbox = DOMAIN mail /\ stored = inbox
  /\ moved = {} /\ dest = <<>>

EntryOperations(way) ==
  IF table # "form" THEN {}
  ELSE {"read", "download"}
         \cup IF way = "page" THEN {"export"} ELSE {"discard", "submit", "copy"}

BeginEntry(a) ==
  \E way \in Ways : \E op \in EntryOperations(way) :
    IF op = "export" THEN Open(a, way, op, 0, Nothing, FALSE, {})
    ELSE \E id \in IF op = "submit" THEN 1..born ELSE DOMAIN mail :
           \E force \in IF op = "copy" THEN BOOLEAN ELSE {FALSE} :
             Open(a, way, op, id, Nothing, force, {})

Read(a) ==
  /\ At(a, "begin", "read")
  /\ IF job[a].id \in inbox THEN Goto(a, "report") ELSE Answer(a, "notfound")
  /\ UNCHANGED <<editing, entries, dest>>

(***************************************************************************)
(* The export.                                                             *)
(***************************************************************************)
Bytes(ids) == SumFunction([i \in ids |-> mail[i].content.bytes])
Fields(ids) == UNION {mail[i].content.fields : i \in ids}

Measure(a) ==
  /\ At(a, "begin", "export")
  /\ IF Cardinality(inbox) <= MaxEntries /\ Bytes(inbox) <= MaxBytes
     THEN job' = [job EXCEPT ![a].pc = "find", ![a].seen = inbox]
     ELSE Answer(a, "validation")
  /\ UNCHANGED <<editing, entries, dest>>

\* Mutant: what was measured is within the limits, so it is all there.
Newest_Measured(n) == {i \in inbox : Cardinality({j \in inbox : j > i}) < n - 1}

Newest(n) == {i \in inbox : Cardinality({j \in inbox : j > i}) < n}

Find(a) ==
  /\ At(a, "find", "export")
  /\ LET found == Newest(MaxEntries + 1) IN
     IF Cardinality(found) > MaxEntries THEN Answer(a, "validation")
     ELSE job' = [job EXCEPT ![a].pc = "preload", ![a].found = found]
  /\ UNCHANGED <<editing, entries, dest>>

\* The limits are checked again over what was loaded.  An entry whose form was
\* deleted between the last two readings has none to write the name of.
Preload(a) ==
  /\ At(a, "preload", "export")
  /\ LET found == job[a].found
         fits == Bytes(found) <= MaxBytes /\ Cardinality(Fields(found)) <= MaxFields
     IN
     CASE ~fits -> Answer(a, "validation")
       [] \E i \in found : Missing(mail[i].form) -> Answer(a, "internal")
       [] OTHER -> Goto(a, "report")
  /\ UNCHANGED <<editing, entries, dest>>

(***************************************************************************)
(* Deleting an entry, or a form with its entries, by a command.            *)
(***************************************************************************)
Erasing(a) == job[a].op = "discard" \/ (job[a].op = "delete" /\ table = "form")

\* The transaction has begun, found the record and moved the files.
Quarantine(a) ==
  /\ job[a].pc = "begin" /\ Erasing(a) /\ Writable
  /\ LET id == job[a].id
         doomed == IF job[a].op = "discard" THEN {id} \cap inbox
                   ELSE {i \in inbox : mail[i].form = id}
     IN  IF IF job[a].op = "discard" THEN id \notin inbox ELSE Missing(id)
         THEN Answer(a, "notfound") /\ UNCHANGED <<stored, moved>>
         ELSE /\ job' = [job EXCEPT ![a].pc = "erase", ![a].found = doomed,
                                    ![a].hold = doomed \cap stored]
              /\ stored' = stored \ doomed /\ moved' = moved \cup doomed
  /\ UNCHANGED <<editing, mail, inbox, dest>>

Erase(a) ==
  /\ job[a].pc = "erase"
  /\ inbox' = inbox \ job[a].found
  /\ rows' = IF job[a].op = "delete" THEN Without(rows, job[a].id) ELSE rows
  /\ job' = [job EXCEPT ![a].pc = "report", ![a].hold = {}, ![a].wrote = TRUE]
  /\ UNCHANGED <<born, used, owner, mail, stored, moved, dest>>

\* The transaction failed: the files go back, and it is tried again or given
\* up.  A killed process, or one that cannot move them, leaves them where they
\* are.
EraseFails(a) ==
  /\ job[a].pc = "erase"
  /\ \/ /\ stored' = stored \cup job[a].hold
        /\ job' = [job EXCEPT ![a].pc = "begin", ![a].hold = {}, ![a].found = {}]
     \/ stored' = stored \cup job[a].hold /\ Answer(a, "internal")
     \/ stored' = stored /\ End(a, "internal", job[a].hold)
  /\ UNCHANGED <<editing, mail, inbox, moved, dest>>

(***************************************************************************)
(* Adding an entry by a command, and visitors who do.                      *)
(***************************************************************************)
Receive(form, content) ==
  /\ Len(mail) < MaxReceived
  /\ mail' = Append(mail, [form |-> form, content |-> content])
  /\ inbox' = inbox \cup {Len(mail')} /\ stored' = stored \cup {Len(mail')}
  /\ UNCHANGED <<editing, moved, dest>>

SubmitRead(a) ==
  /\ At(a, "begin", "submit")
  /\ IF Missing(job[a].id) THEN Answer(a, "notfound") ELSE Goto(a, "commit")
  /\ UNCHANGED <<editing, entries, dest>>

\* The reason why the transaction failed is not told.
SubmitCommit(a) ==
  /\ At(a, "commit", "submit") /\ Writable
  /\ IF Missing(job[a].id)
     THEN Answer(a, "internal") /\ UNCHANGED <<editing, entries, dest>>
     ELSE /\ \E c \in Contents : Receive(job[a].id, c)
          /\ job' = [job EXCEPT ![a].pc = "reload", ![a].made = Len(mail'), ![a].wrote = TRUE]

SubmitReload(a) ==
  /\ At(a, "reload", "submit")
  /\ IF job[a].made \in inbox THEN Goto(a, "report") ELSE Answer(a, "notfound")
  /\ UNCHANGED <<editing, entries, dest>>

(***************************************************************************)
(* Downloading the file of an entry (by a command: to its output), or      *)
(* copying it to a path.                                                   *)
(***************************************************************************)
FileRead(a) ==
  /\ job[a].pc = "begin" /\ job[a].op \in {"download", "copy"}
  /\ IF job[a].id \in inbox THEN Goto(a, "open") ELSE Answer(a, "notfound")
  /\ UNCHANGED <<editing, entries, dest>>

FileOpen(a) ==
  /\ job[a].pc = "open"
  /\ CASE job[a].id \notin stored -> Answer(a, IF Page(a) THEN "notfound" ELSE "internal")
       [] OTHER -> Goto(a, IF job[a].op = "copy" THEN "publish" ELSE "report")
  /\ UNCHANGED <<editing, entries, dest>>

\* Mutant: looks first whether the destination is there, then renames.
Publish_LooksFirst(a) ==
  \/ /\ job[a].pc = "publish"
     /\ IF dest = <<>> \/ job[a].force THEN Goto(a, "rename") ELSE Answer(a, "conflict")
     /\ UNCHANGED <<editing, entries, dest>>
  \/ /\ job[a].pc = "rename"
     /\ dest' = Append(dest, a)
     /\ job' = [job EXCEPT ![a].pc = "report", ![a].wrote = TRUE]
     /\ UNCHANGED <<editing, entries>>

\* The complete temporary file is linked to a name that must be free, or is
\* renamed over what is there.
Publish(a) ==
  /\ job[a].pc = "publish"
  /\ IF dest = <<>> \/ job[a].force
     THEN /\ dest' = Append(dest, a)
          /\ job' = [job EXCEPT ![a].pc = "report", ![a].wrote = TRUE]
     ELSE Answer(a, "conflict") /\ UNCHANGED dest
  /\ UNCHANGED <<editing, entries>>

\* Another program creates the destination; earlier than a copy that is under
\* way makes no difference.
Occupy ==
  /\ dest = <<>> /\ \E a \in Operators : job[a].op = "copy" /\ job[a].pc # "done"
  /\ dest' = <<Other>>
  /\ UNCHANGED <<job, editing, entries>>

Enters(a) ==
  \/ Read(a) \/ Measure(a) \/ Find(a) \/ Preload(a)
  \/ Quarantine(a) \/ Erase(a) \/ EraseFails(a)
  \/ SubmitRead(a) \/ SubmitCommit(a) \/ SubmitReload(a)
  \/ FileRead(a) \/ FileOpen(a) \/ Publish(a)

AdministrationNext ==
  /\ \/ \E a \in Operators :
          \/ (Begin(a) \/ BeginEntry(a) \/ Parse(a) \/ Report(a) \/ Fails(a))
               /\ UNCHANGED <<editing, entries, dest>>
          \/ Edits(a) /\ UNCHANGED <<entries, dest>>
          \/ Enters(a)
     \/ (Assign \/ Release \/ DeleteOwner) /\ UNCHANGED <<entries, dest>>
     \/ Writable /\ UNCHANGED job /\ \E f \in DOMAIN rows, c \in Contents :
          table = "form" /\ Receive(f, c)
     \/ Occupy
  /\ UNCHANGED table

AdministrationSpec == AdministrationInit /\ [][AdministrationNext]_vars

(***************************************************************************)
(* Properties.                                                             *)
(***************************************************************************)
TypeOK ==
  /\ table \in Tables /\ born \in 1..MaxRows /\ owner \in BOOLEAN
  /\ DOMAIN rows \subseteq 1..born
  /\ \A a \in Operators :
       /\ job[a].answer \in Answers
       /\ job[a].made \in 0 .. IF job[a].op = "submit" THEN Len(mail) ELSE born
  /\ stored \subseteq DOMAIN mail /\ moved \subseteq DOMAIN mail /\ inbox \subseteq DOMAIN mail

\* What the database constrains and the editors rely on: names are unique and
\* a profile in use is there.  The key of a captcha profile is never cleared.
RowsSound ==
  /\ \A i, k \in DOMAIN rows : i # k /\ table # "notification" => rows[i].name # rows[k].name
  /\ used \subseteq DOMAIN rows
  /\ table = "captcha" => \A i \in DOMAIN rows : rows[i].secret # Blank

\* What is at the destination of a file copy is replaced by --force only
\* (docs/cli.md), however the copies of several commands interleave.
OnlyForceReplaces == \A k \in 2..Len(dest) : dest[k] # Other /\ job[dest[k]].force

\* The file of an entry is in its place exactly while the entry is there, but
\* for those in the quarantine of a deletion that is not over or was cut short:
\* a deletion that is tried again or given up brings back what it moved, and
\* nothing that another deletion holds (upload_deletions.go:114).
FilesAccounted == stored = inbox \ UNION {job[a].hold : a \in Operators}

\* The state of the administration: its records, files and copies.
Inv == TypeOK /\ RowsSound /\ OnlyForceReplaces /\ FilesAccounted

Changing == {"create", "update", "rotate", "delete", "discard", "submit", "copy"}

\* What the operation of a was about is not there any more: what it created,
\* its target, or the form of what it was to create.
Gone(a) ==
  LET j == job[a] IN
  CASE j.op = "create" -> IF j.made = 0 THEN ~owner ELSE Missing(j.made)
    [] j.op = "submit" -> IF j.made = 0 THEN Missing(j.id) ELSE j.made \notin inbox
    [] j.op \in {"read", "discard", "copy"} -> j.id \notin inbox
    [] j.op = "download" -> j.id \notin inbox \/ j.id \in moved
    [] OTHER -> Missing(j.id)

\* An answer is true whatever others did between the accesses: success of a
\* change means that a transaction made it, and of a deletion that the target
\* is gone; a refusal means that nothing changed; and "not found" (exit code 4,
\* status 404) that the target is really gone or its file was taken away.
ToldTheTruth ==
  \A a \in Operators : job[a].pc = "done" =>
    LET j == job[a] IN
    /\ j.answer = "ok" /\ j.op \in Changing => j.wrote
    /\ j.answer = "ok" /\ j.op \in {"delete", "discard"} => Gone(a)
    /\ j.answer \in {"usage", "validation", "conflict"} => ~j.wrote
    /\ j.answer = "notfound" => Gone(a)

\* A secret that an update was not given is stored as it was at some moment
\* since the update began: a blank field or an omitted flag never clears it,
\* and never brings back one that was replaced before.
SecretsKept ==
  \A a \in Operators : LET j == job[a] IN
    At(a, "reload", "update") /\ j.wrote /\ j.ask.secret = Keep => j.put.secret \in j.seen

\* An export that is about to be sent is within its three limits and complete: every
\* entry that was there when it was measured and still is, is in it, with all
\* of its fields.
ExportFaithful ==
  \A a \in Operators : LET j == job[a] IN
    At(a, "report", "export") =>
      /\ j.seen \cap inbox \subseteq j.found
      /\ Cardinality(j.found) <= MaxEntries
      /\ Bytes(j.found) <= MaxBytes
      /\ Cardinality(Fields(j.found)) <= MaxFields
=============================================================================
