------------------------ MODULE AdministrationProofs ------------------------
(***************************************************************************)
(* Proofs about Administration, for any number of operators, rows and      *)
(* entries, any contents and any limits of the export.                     *)
(***************************************************************************)
EXTENDS Administration, FiniteSetTheorems, WellFoundedInduction, TLAPS

(***************************************************************************)
(* The inductive invariant: of the records, of the entries, of each job.   *)
(***************************************************************************)
RowsInv ==
  /\ table \in Tables /\ born \in 1 .. MaxRows /\ owner \in BOOLEAN
  /\ DOMAIN rows \subseteq 1 .. born
  /\ used # {} => table \in Profiles
  /\ table = "notification" => \A i \in DOMAIN rows : rows[i].secret = Blank
  /\ ~owner => table = "notification" /\ DOMAIN rows = {}
  /\ RowsSound

\* A file that is out of its place was moved.
OutOfPlace == stored \cup moved = DOMAIN mail

MailInv ==
  /\ mail \in Seq([form : Nat, content : Contents])
  /\ inbox \subseteq DOMAIN mail /\ stored \subseteq DOMAIN mail /\ moved \subseteq DOMAIN mail
  /\ OutOfPlace

DestInv ==
  /\ dest \in Seq(Operators \cup {Other})
  /\ \A k \in 1 .. Len(dest) : dest[k] \in Operators => job[dest[k]].pc # "idle"
  /\ OnlyForceReplaces

JobFields == {"by", "pc", "op", "id", "made", "ask", "put", "force", "found", "hold", "seen",
              "wrote", "answer"}
RowFields == {"name", "secret"}

Typed(a) ==
  LET j == job[a] IN
  /\ DOMAIN j = JobFields /\ DOMAIN j.ask = RowFields /\ DOMAIN j.put = RowFields
  /\ j.answer \in Answers /\ j.wrote \in BOOLEAN /\ j.force \in BOOLEAN
  /\ \/ j.op \in {"show", "update", "delete", "rotate", "submit"} /\ j.id \in 1 .. born
     \/ j.op \in {"read", "discard", "download", "copy"} /\ j.id \in DOMAIN mail
     \/ j.op \in {"create", "export", "none"} /\ j.id = 0
  /\ j.made \in 0 .. IF j.op = "submit" THEN Len(mail) ELSE born
  /\ j.hold \subseteq DOMAIN mail

\* Which steps belong to which operation.
Placed(a) ==
  LET j == job[a] IN
  /\ j.op = "copy" => j.by = "command"
  /\ j.pc = "open" => j.op \in {"download", "copy"}
  /\ j.pc = "publish" => j.op = "copy"
  /\ j.pc \in {"usage", "remove", "conflict"} => j.op = "delete"
  /\ j.pc = "erase" => j.op = "discard" \/ (j.op = "delete" /\ table = "form")

Told(a) ==
  LET j == job[a] IN
  /\ j.answer = "ok" /\ j.op \in Changing => j.wrote
  /\ j.answer = "ok" /\ j.op \in {"delete", "discard"} => Gone(a)
  /\ j.answer \in {"usage", "validation", "conflict"} => ~j.wrote
  /\ j.answer = "notfound" => Gone(a)

\* What an operation has done, and what that says of its target.
Done(a) ==
  LET j == job[a] IN
  /\ j.wrote => j.pc \in {"reload", "report", "done"}
  /\ j.made # 0 => j.wrote
  /\ j.pc = "reload" /\ j.op \in {"create", "submit"} => j.made # 0
  /\ j.pc = "reload" /\ j.op \in {"update", "rotate"} => j.wrote \/ Missing(j.id)
  /\ j.pc = "report" /\ j.op \in Changing => j.wrote
  /\ j.pc = "report" /\ j.op \in {"delete", "discard"} => Gone(a)
  /\ j.pc = "erase" /\ j.op = "discard" => j.id \in j.found
  /\ j.pc = "done" => Told(a)

\* What is about to be written, and where its secret comes from.
Merging(a) ==
  LET j == job[a] IN
  /\ j.op = "update" /\ j.pc # "done" /\ ~j.wrote /\ ~Missing(j.id) => rows[j.id].secret \in j.seen
  /\ table = "notification" /\ j.op \in {"create", "update"} /\ j.pc # "done" =>
       j.ask.secret = Keep
  /\ j.op \in {"create", "update"} /\ j.pc \in {"check", "commit"} =>
       /\ table = "notification" => j.put.secret = Blank
       /\ table = "captcha" /\ j.pc = "commit" => j.put.secret # Blank
  /\ j.op = "update" /\ j.ask.secret = Keep =>
       /\ j.pc \in {"check", "commit"} /\ table # "notification" => j.put.secret \in j.seen
       /\ j.pc = "reload" /\ j.wrote => j.put.secret \in j.seen

Exporting(a) ==
  LET j == job[a] IN
  j.op = "export" =>
    /\ j.pc \in {"find", "preload", "report"} => j.seen \subseteq DOMAIN mail
    /\ j.pc \in {"preload", "report"} =>
         /\ j.found \subseteq DOMAIN mail /\ j.seen \cap inbox \subseteq j.found
         /\ Cardinality(j.found) <= MaxEntries
    /\ j.pc = "report" =>
         Bytes(j.found) <= MaxBytes /\ Cardinality(Fields(j.found)) <= MaxFields

JobInv(a) == Typed(a) /\ Placed(a) /\ Done(a) /\ Merging(a) /\ Exporting(a)

IInv ==
  /\ RowsInv /\ MailInv /\ DestInv
  /\ job = [a \in Operators |-> job[a]]
  /\ \A a \in Operators : JobInv(a)

(***************************************************************************)
(* Steps of one job, and what they leave alone.                            *)
(***************************************************************************)

\* The steps of one operation leave the jobs of others as they are, but for
\* what an update learns of its target.
Alone(a) ==
  /\ job' = [b \in Operators |-> job'[b]]
  /\ \A b \in Operators \ {a} : job'[b] = job[b]

\* The fields of a job that never change, once it has begun.
Identity(a) ==
  /\ job'[a].by = job[a].by /\ job'[a].op = job[a].op /\ job'[a].id = job[a].id
  /\ job'[a].force = job[a].force

LEMMA Ending ==
  ASSUME IInv, NEW a \in Operators, NEW answer, NEW left, End(a, answer, left)
  PROVE  /\ Alone(a) /\ Identity(a) /\ DOMAIN job'[a] = JobFields
         /\ job'[a].pc = "done" /\ job'[a].answer = answer
         /\ job'[a].made = job[a].made /\ job'[a].wrote = job[a].wrote
         /\ job'[a].ask = Nothing /\ job'[a].put = Nothing
         /\ job'[a].found = {} /\ job'[a].hold = left /\ job'[a].seen = {}
<1>1. DOMAIN job[a] = JobFields /\ job = [b \in Operators |-> job[b]]
  BY DEF IInv, JobInv, Typed
<1>2. job'[a] = [job[a] EXCEPT !.pc = "done", !.answer = answer, !.ask = Nothing, !.put = Nothing,
                              !.found = {}, !.hold = left, !.seen = {}]
  BY <1>1 DEF End
<1>3. Alone(a)
  BY <1>1 DEF End, Alone
<1> QED
  BY <1>1, <1>2, <1>3 DEF JobFields, Identity

LEMMA Answering ==
  ASSUME IInv, NEW a \in Operators, NEW answer, Answer(a, answer)
  PROVE  /\ Alone(a) /\ Identity(a) /\ DOMAIN job'[a] = JobFields
         /\ job'[a].pc = "done" /\ job'[a].answer = answer
         /\ job'[a].made = job[a].made /\ job'[a].wrote = job[a].wrote
         /\ job'[a].ask = Nothing /\ job'[a].put = Nothing
         /\ job'[a].found = {} /\ job'[a].hold = {} /\ job'[a].seen = {}
BY Ending DEF Answer

LEMMA Going ==
  ASSUME IInv, NEW a \in Operators, NEW pc, Goto(a, pc)
  PROVE  /\ Alone(a) /\ Identity(a) /\ DOMAIN job'[a] = JobFields /\ job'[a].pc = pc
         /\ job'[a].answer = job[a].answer /\ job'[a].made = job[a].made
         /\ job'[a].wrote = job[a].wrote /\ job'[a].ask = job[a].ask /\ job'[a].put = job[a].put
         /\ job'[a].found = job[a].found /\ job'[a].hold = job[a].hold
         /\ job'[a].seen = job[a].seen
<1>1. DOMAIN job[a] = JobFields /\ job = [b \in Operators |-> job[b]]
  BY DEF IInv, JobInv, Typed
<1>2. job'[a] = [job[a] EXCEPT !.pc = pc]
  BY <1>1 DEF Goto
<1>3. Alone(a)
  BY <1>1 DEF Goto, Alone
<1> QED
  BY <1>1, <1>2, <1>3 DEF JobFields, Identity

(***************************************************************************)
(* What steps do to the records and entries, as the others see it.         *)
(***************************************************************************)
Onward ==
  /\ table' = table /\ born <= born' /\ (~owner => ~owner')
  /\ \A i \in 1 .. born : Missing(i) => Missing(i)'
  /\ DOMAIN mail \subseteq DOMAIN mail' /\ Len(mail) <= Len(mail')
  /\ \A i \in DOMAIN mail : mail'[i] = mail[i] /\ (i \in inbox' => i \in inbox)
  /\ moved \subseteq moved'

LEMMA Sizes ==
  ASSUME IInv
  PROVE  /\ born \in Nat /\ born > 0 /\ MaxRows \in Nat /\ MaxEntries \in Nat
         /\ Len(mail) \in Nat /\ DOMAIN mail = 1 .. Len(mail)
         /\ \A i \in DOMAIN rows : i \in 1 .. born
BY EditingAssumption, AdministrationAssumption DEF IInv, RowsInv, MailInv

\* What is gone stays gone.
LEMMA GoneStays ==
  ASSUME IInv, RowsInv', Onward, NEW a \in Operators, Identity(a), job'[a].made = job[a].made,
         Gone(a)
  PROVE  Gone(a)'
<1>1. Typed(a) /\ born \in Nat /\ Len(mail) \in Nat /\ DOMAIN mail = 1 .. Len(mail)
  BY Sizes DEF IInv, JobInv
<1>2. CASE job[a].op = "create"
  BY <1>1, <1>2 DEF Gone, Onward, Identity, Typed
<1>3. CASE job[a].op = "submit"
  <2>1. job[a].made \in 0 .. Len(mail) /\ job[a].id \in 1 .. born
    BY <1>1, <1>3 DEF Typed
  <2> QED
    BY <1>1, <1>3, <2>1 DEF Gone, Onward, Identity
<1>4. CASE job[a].op \in {"read", "discard", "copy", "download"}
  <2>1. job[a].id \in DOMAIN mail
    BY <1>1, <1>4 DEF Typed
  <2> QED
    BY <1>4, <2>1 DEF Gone, Onward, Identity
<1>5. CASE job[a].op \in {"show", "update", "delete", "rotate"}
  <2>1. job[a].id \in 1 .. born
    BY <1>1, <1>5 DEF Typed
  <2> QED
    BY <1>5, <2>1 DEF Gone, Onward, Identity
<1>6. CASE job[a].op \in {"export", "none"}
  <2>1. job[a].id = 0 /\ born' \in Nat
    BY <1>1, <1>6, EditingAssumption DEF Typed, RowsInv
  <2>2. Missing(0)'
    BY <2>1 DEF Missing, RowsInv
  <2> QED
    BY <1>6, <2>1, <2>2 DEF Gone, Identity
<1> QED
  BY <1>1, <1>2, <1>3, <1>4, <1>5, <1>6 DEF Typed

LEMMA SameContents ==
  ASSUME Onward, NEW ids, ids \subseteq DOMAIN mail
  PROVE  Bytes(ids)' = Bytes(ids) /\ Fields(ids)' = Fields(ids)
<1>1. \A i \in ids : mail'[i] = mail[i]
  BY DEF Onward
<1>2. [i \in ids |-> mail'[i].content.bytes] = [i \in ids |-> mail[i].content.bytes]
  BY <1>1
<1>3. UNION {mail'[i].content.fields : i \in ids} = UNION {mail[i].content.fields : i \in ids}
  BY <1>1
<1> QED
  BY <1>2, <1>3 DEF Bytes, Fields

(***************************************************************************)
(* The jobs of others.                                                     *)
(***************************************************************************)
SameJob(b) ==
  /\ Identity(b) /\ DOMAIN job'[b] = JobFields
  /\ job'[b].pc = job[b].pc /\ job'[b].answer = job[b].answer
  /\ job'[b].made = job[b].made /\ job'[b].wrote = job[b].wrote
  /\ job'[b].ask = job[b].ask /\ job'[b].put = job[b].put
  /\ job'[b].found = job[b].found /\ job'[b].hold = job[b].hold
  /\ job[b].seen \subseteq job'[b].seen
  /\ job[b].op # "update" => job'[b].seen = job[b].seen

\* An update that is under way knows the secret its target now has.
Learns(b) ==
  LET id == job[b].id IN
  job[b].op = "update" /\ job[b].pc # "done" /\ id \in DOMAIN rows /\ id \in DOMAIN rows' =>
    rows'[id].secret = rows[id].secret \/ rows'[id].secret \in job'[b].seen

LEMMA AloneIsSame ==
  ASSUME IInv, NEW b \in Operators, job'[b] = job[b]
  PROVE  SameJob(b)
BY DEF IInv, JobInv, Typed, SameJob, Identity

LEMMA OthersKeep ==
  ASSUME IInv, RowsInv', MailInv', Onward, NEW b \in Operators, SameJob(b), Learns(b)
  PROVE  JobInv(b)'
<1>0. /\ Typed(b) /\ Placed(b) /\ Done(b) /\ Merging(b) /\ Exporting(b)
      /\ born \in Nat /\ Len(mail) \in Nat /\ DOMAIN mail = 1 .. Len(mail)
      /\ born' \in Nat /\ Len(mail)' \in Nat /\ DOMAIN mail' = 1 .. Len(mail')
      /\ Identity(b) /\ born <= born' /\ Len(mail) <= Len(mail')
  BY Sizes, EditingAssumption DEF IInv, JobInv, SameJob, Onward, RowsInv, MailInv
<1>1. Typed(b)'
  <2>1. \/ job'[b].op \in {"show", "update", "delete", "rotate", "submit"} /\ job'[b].id \in 1 .. born'
        \/ job'[b].op \in {"read", "discard", "download", "copy"} /\ job'[b].id \in DOMAIN mail'
        \/ job'[b].op \in {"create", "export", "none"} /\ job'[b].id = 0
    BY <1>0 DEF Typed, Identity, Onward
  <2>2. job'[b].made \in 0 .. IF job'[b].op = "submit" THEN Len(mail') ELSE born'
    BY <1>0 DEF Typed, Identity, SameJob
  <2>3. job'[b].hold \subseteq DOMAIN mail'
    BY <1>0 DEF Typed, SameJob, Onward
  <2> QED
    BY <1>0, <2>1, <2>2, <2>3 DEF Typed, Identity, SameJob
<1>2. Placed(b)'
  BY <1>0 DEF Placed, Identity, SameJob, Onward
<1>3. Gone(b) => Gone(b)'
  BY <1>0, GoneStays DEF SameJob
<1>4. job[b].op \in {"update", "rotate"} /\ job[b].id \notin DOMAIN rows =>
        job[b].id \notin DOMAIN rows'
  <2>1. job[b].op \in {"update", "rotate"} => job[b].id \in 1 .. born
    BY <1>0 DEF Typed
  <2> QED
    BY <2>1 DEF Onward, Missing
<1>5. Done(b)'
  <2>1. Told(b) => Told(b)'
    BY <1>0, <1>3 DEF Told, Identity, SameJob
  <2> QED
    BY <1>0, <1>3, <1>4, <2>1 DEF Done, Identity, SameJob, Missing
<1>6. Merging(b)'
  <2>1. job'[b].op = "update" /\ job'[b].pc # "done" /\ ~job'[b].wrote /\ job'[b].id \in DOMAIN rows' =>
          rows'[job'[b].id].secret \in job'[b].seen
    BY <1>0, <1>4 DEF Merging, Learns, Identity, SameJob, Missing
  <2> QED
    BY <1>0, <2>1 DEF Merging, Identity, SameJob, Onward, Missing
<1>7. Exporting(b)'
  <2> SUFFICES ASSUME job[b].op = "export"
               PROVE  Exporting(b)'
    BY <1>0 DEF Exporting, Identity
  <2>1. job'[b].pc = job[b].pc /\ job'[b].seen = job[b].seen /\ job'[b].found = job[b].found
    BY DEF SameJob
  <2>2. job[b].pc \in {"find", "preload", "report"} => job'[b].seen \subseteq DOMAIN mail'
    BY <1>0, <2>1 DEF Exporting, Onward
  <2>3. ASSUME job[b].pc \in {"preload", "report"}
        PROVE  /\ job'[b].found \subseteq DOMAIN mail' /\ job'[b].seen \cap inbox' \subseteq job'[b].found
               /\ Cardinality(job'[b].found) <= MaxEntries
    <3>1. /\ job[b].found \subseteq DOMAIN mail /\ job[b].seen \cap inbox \subseteq job[b].found
          /\ Cardinality(job[b].found) <= MaxEntries /\ job[b].seen \subseteq DOMAIN mail
      BY <1>0, <2>3 DEF Exporting
    <3>2. job[b].seen \cap inbox' \subseteq job[b].seen \cap inbox
      BY <3>1 DEF Onward
    <3> QED
      BY <2>1, <3>1, <3>2 DEF Onward
  <2>4. ASSUME job[b].pc = "report"
        PROVE  (Bytes(job[b].found) <= MaxBytes)' /\ (Cardinality(Fields(job[b].found)) <= MaxFields)'
    <3>1. PICK found : found = job[b].found
      OBVIOUS
    <3>2. /\ found \subseteq DOMAIN mail
          /\ Bytes(found) <= MaxBytes /\ Cardinality(Fields(found)) <= MaxFields
      BY <1>0, <2>4, <3>1 DEF Exporting
    <3>3. Bytes(found)' <= MaxBytes /\ Cardinality(Fields(found)') <= MaxFields
      BY <3>2, SameContents
    <3> QED
      BY <2>1, <3>1, <3>3
  <2> QED
    BY <1>0, <2>1, <2>2, <2>3, <2>4 DEF Exporting, Identity
<1> QED
  BY <1>1, <1>2, <1>5, <1>6, <1>7 DEF JobInv

(***************************************************************************)
(* Steps that end an operation, or only take it further.                   *)
(***************************************************************************)
Tells(a, answer) ==
  LET j == job[a] IN
  /\ answer \in Answers
  /\ answer = "ok" /\ j.op \in Changing => j.wrote
  /\ answer = "ok" /\ j.op \in {"delete", "discard"} => Gone(a)
  /\ answer \in {"usage", "validation", "conflict"} => ~j.wrote
  /\ answer = "notfound" => Gone(a)

LEMMA EndKeeps ==
  ASSUME IInv, RowsInv', MailInv', Onward, NEW a \in Operators, NEW answer,
         NEW left \in SUBSET DOMAIN mail, End(a, answer, left), Tells(a, answer)
  PROVE  JobInv(a)'
<1>0. /\ Typed(a) /\ Placed(a) /\ Done(a)
      /\ born \in Nat /\ Len(mail) \in Nat /\ DOMAIN mail = 1 .. Len(mail)
      /\ born' \in Nat /\ Len(mail)' \in Nat /\ DOMAIN mail' = 1 .. Len(mail')
  BY Sizes, EditingAssumption DEF IInv, JobInv, RowsInv, MailInv
<1>1. /\ Identity(a) /\ DOMAIN job'[a] = JobFields
      /\ job'[a].pc = "done" /\ job'[a].answer = answer
      /\ job'[a].made = job[a].made /\ job'[a].wrote = job[a].wrote
      /\ job'[a].ask = Nothing /\ job'[a].put = Nothing
      /\ job'[a].found = {} /\ job'[a].hold = left /\ job'[a].seen = {}
  BY Ending
<1>2. Gone(a) => Gone(a)'
  BY <1>1, GoneStays
<1>3. Typed(a)'
  <2>1. \/ job'[a].op \in {"show", "update", "delete", "rotate", "submit"} /\ job'[a].id \in 1 .. born'
        \/ job'[a].op \in {"read", "discard", "download", "copy"} /\ job'[a].id \in DOMAIN mail'
        \/ job'[a].op \in {"create", "export", "none"} /\ job'[a].id = 0
    BY <1>0, <1>1 DEF Typed, Identity, Onward
  <2>2. job'[a].made \in 0 .. IF job'[a].op = "submit" THEN Len(mail') ELSE born'
    BY <1>0, <1>1 DEF Typed, Identity, Onward
  <2>3. DOMAIN Nothing = RowFields
    BY DEF Nothing, RowFields
  <2>4. job'[a].hold \subseteq DOMAIN mail'
    BY <1>1 DEF Onward
  <2> QED
    BY <1>0, <1>1, <2>1, <2>2, <2>3, <2>4 DEF Typed, Identity, Tells
<1>4. Placed(a)'
  BY <1>0, <1>1 DEF Placed, Identity
<1>5. Told(a)'
  BY <1>1, <1>2 DEF Told, Tells, Identity
<1>6. Done(a)'
  BY <1>0, <1>1, <1>5 DEF Done
<1>7. Merging(a)' /\ Exporting(a)'
  BY <1>1 DEF Merging, Exporting
<1> QED
  BY <1>3, <1>4, <1>6, <1>7 DEF JobInv

LEMMA AnswerKeeps ==
  ASSUME IInv, RowsInv', MailInv', Onward, NEW a \in Operators, NEW answer,
         Answer(a, answer), Tells(a, answer)
  PROVE  JobInv(a)'
BY EndKeeps DEF Answer

\* When the next step of an operation may be pc, with all it has in hand.
Reaches(a, pc) ==
  LET j == job[a] IN
  /\ j.pc \notin {"idle", "reload", "report", "done"} \/ (j.pc = "reload" /\ pc = "report")
  /\ pc \in {"begin", "commit", "reload", "report", "open", "publish", "usage", "remove",
             "conflict"}
  /\ pc = "open" => j.op \in {"download", "copy"}
  /\ pc = "publish" => j.op = "copy"
  /\ pc \in {"usage", "remove", "conflict"} => j.op = "delete"
  /\ pc = "commit" => j.op \in {"rotate", "submit"}
  /\ pc = "reload" => j.op = "update" /\ Missing(j.id)
  /\ pc = "report" /\ j.op \in Changing => j.wrote
  /\ pc = "report" /\ j.op \in {"delete", "discard"} => Gone(a)
  /\ pc = "report" /\ j.op = "export" =>
       j.pc = "preload" /\ Bytes(j.found) <= MaxBytes /\ Cardinality(Fields(j.found)) <= MaxFields

LEMMA GotoKeeps ==
  ASSUME IInv, UNCHANGED <<table, editing, entries>>, NEW a \in Operators, NEW pc,
         Goto(a, pc), Reaches(a, pc)
  PROVE  JobInv(a)'
<1>0. Typed(a) /\ Placed(a) /\ Done(a) /\ Merging(a) /\ Exporting(a)
  BY DEF IInv, JobInv
<1>1. UNCHANGED <<table, rows, born, used, owner, mail, inbox, stored, moved>>
  BY DEF editing, entries
<1>2. /\ Identity(a) /\ DOMAIN job'[a] = JobFields /\ job'[a].pc = pc
      /\ job'[a].answer = job[a].answer /\ job'[a].made = job[a].made
      /\ job'[a].wrote = job[a].wrote /\ job'[a].ask = job[a].ask /\ job'[a].put = job[a].put
      /\ job'[a].found = job[a].found /\ job'[a].hold = job[a].hold
      /\ job'[a].seen = job[a].seen
  BY Going
<1>3. Typed(a)' /\ Placed(a)'
  BY <1>0, <1>1, <1>2 DEF Typed, Placed, Identity, Reaches
<1>4. Gone(a)' <=> Gone(a)
  BY <1>1, <1>2 DEF Gone, Missing, Identity
<1>5. Done(a)'
  BY <1>0, <1>1, <1>2, <1>4 DEF Done, Identity, Reaches, Missing
<1>6. Merging(a)'
  BY <1>0, <1>1, <1>2 DEF Merging, Identity, Reaches, Done, Missing
<1>7. Exporting(a)'
  <2>1. CASE job[a].op = "export" /\ pc = "report"
    <3>1. /\ Bytes(job[a].found)' = Bytes(job[a].found)
          /\ Fields(job[a].found)' = Fields(job[a].found)
      BY <1>1, <1>2 DEF Bytes, Fields
    <3> QED
      BY <1>0, <1>1, <1>2, <2>1, <3>1 DEF Exporting, Identity, Reaches
  <2>2. CASE ~(job[a].op = "export" /\ pc = "report")
    BY <1>2, <2>2 DEF Exporting, Identity, Reaches
  <2> QED
    BY <2>1, <2>2
<1> QED
  BY <1>3, <1>5, <1>6, <1>7 DEF JobInv

(***************************************************************************)
(* From the parts to the whole.                                            *)
(***************************************************************************)
LEMMA DestKeeps ==
  ASSUME DestInv, dest' = dest,
         \A b \in Operators : job[b].pc # "idle" => job'[b].pc # "idle" /\ job'[b].force = job[b].force
  PROVE  DestInv'
<1>1. \A k \in 1 .. Len(dest) : dest[k] \in Operators \/ dest[k] = Other
  BY DEF DestInv
<1> QED
  BY <1>1 DEF DestInv, OnlyForceReplaces

LEMMA QuietWorld ==
  ASSUME IInv, UNCHANGED <<table, editing, entries>>
  PROVE  RowsInv' /\ MailInv' /\ Onward
<1>1. UNCHANGED <<table, rows, born, used, owner, mail, inbox, stored, moved>>
  BY DEF editing, entries
<1>2. RowsInv' /\ MailInv'
  BY <1>1 DEF IInv, RowsInv, MailInv, RowsSound, OutOfPlace
<1>3. Onward
  BY <1>1, Sizes DEF Onward, Missing
<1> QED
  BY <1>2, <1>3

\* A step of one job that leaves the records and entries alone.
LEMMA QuietKeeps ==
  ASSUME IInv, UNCHANGED <<table, editing, entries, dest>>, NEW a \in Operators, Alone(a),
         JobInv(a)',
         job[a].pc # "idle" => job'[a].pc # "idle" /\ job'[a].force = job[a].force
  PROVE  IInv'
<1>1. RowsInv' /\ MailInv' /\ Onward
  BY QuietWorld
<1>2. ASSUME NEW b \in Operators \ {a}
      PROVE  JobInv(b)'
  <2>1. job'[b] = job[b]
    BY DEF Alone
  <2> QED
    BY <1>1, <2>1, AloneIsSame, OthersKeep DEF Learns, editing
<1>3. DestInv'
  BY DestKeeps DEF IInv, Alone
<1> QED
  BY <1>1, <1>2, <1>3 DEF IInv, Alone

LEMMA QuietAnswer ==
  ASSUME IInv, UNCHANGED <<table, editing, entries, dest>>, NEW a \in Operators, NEW answer,
         Answer(a, answer), Tells(a, answer)
  PROVE  IInv'
<1>1. JobInv(a)'
  BY QuietWorld, AnswerKeeps
<1> QED
  BY <1>1, QuietKeeps, Answering DEF Identity

LEMMA QuietGoto ==
  ASSUME IInv, UNCHANGED <<table, editing, entries, dest>>, NEW a \in Operators, NEW pc,
         Goto(a, pc), Reaches(a, pc)
  PROVE  IInv'
<1>1. JobInv(a)' /\ pc # "idle"
  BY GotoKeeps DEF Reaches
<1> QED
  BY <1>1, QuietKeeps, Going DEF Identity

(***************************************************************************)
(* The steps that only look.                                               *)
(***************************************************************************)
LEMMA Facts ==
  ASSUME IInv, NEW a \in Operators
  PROVE  Typed(a) /\ Placed(a) /\ Done(a) /\ Merging(a) /\ Exporting(a) /\ RowsInv /\ MailInv
BY DEF IInv, JobInv

LEMMA CommonKeeps ==
  ASSUME IInv, NEW a \in Operators, Parse(a) \/ Report(a) \/ Fails(a),
         UNCHANGED <<table, editing, entries, dest>>
  PROVE  IInv'
<1>0. Placed(a) /\ Done(a) /\ Exporting(a)
  BY Facts
<1>1. CASE Parse(a)
  <2>1. /\ Answer(a, "usage") => Tells(a, "usage")
        /\ Answer(a, "validation") => Tells(a, "validation")
        /\ Goto(a, "begin") => Reaches(a, "begin")
    BY <1>0, <1>1 DEF Parse, Tells, Reaches, Answers, Done
  <2> QED
    BY <1>1, <2>1, QuietAnswer, QuietGoto DEF Parse
<1>2. CASE Report(a)
  <2>1. Tells(a, "ok")
    BY <1>0, <1>2 DEF Report, Tells, Answers, Done
  <2> QED
    BY <1>2, <2>1, QuietAnswer DEF Report
<1>3. CASE Fails(a)
  <2>1. Tells(a, "internal")
    BY DEF Tells, Answers
  <2> QED
    BY <1>3, <2>1, QuietAnswer DEF Fails
<1> QED
  BY <1>1, <1>2, <1>3

\* What looks up the target and goes on, or says that it is not there.
LEMMA LooksUp ==
  ASSUME IInv, NEW a \in Operators, UNCHANGED <<table, editing, entries, dest>>,
         \/ Show(a) \/ RotateRead(a) \/ Read(a) \/ SubmitRead(a) \/ FileRead(a)
  PROVE  IInv'
<1>0. Typed(a) /\ Done(a)
  BY Facts
<1> USE DEF At
<1>1. job[a].made = 0 /\ ~job[a].wrote /\ job[a].pc = "begin"
  BY <1>0 DEF Done, Show, RotateRead, Read, SubmitRead, FileRead
<1>2. ASSUME job[a].op \in {"show", "rotate", "submit"}, Missing(job[a].id)
      PROVE  Tells(a, "notfound")
  BY <1>1, <1>2 DEF Tells, Answers, Gone
<1>3. ASSUME job[a].op \in {"read", "download", "copy"}, job[a].id \notin inbox
      PROVE  Tells(a, "notfound")
  BY <1>3 DEF Tells, Answers, Gone
<1>4. /\ job[a].op \in {"show", "read"} => Reaches(a, "report")
      /\ job[a].op \in {"rotate", "submit"} => Reaches(a, "commit")
      /\ job[a].op \in {"download", "copy"} => Reaches(a, "open")
  BY <1>1 DEF Reaches, Changing
<1>5. CASE Show(a) \/ RotateRead(a) \/ SubmitRead(a)
  BY <1>2, <1>4, <1>5, QuietAnswer, QuietGoto DEF Show, RotateRead, SubmitRead
<1>6. CASE Read(a) \/ FileRead(a)
  BY <1>3, <1>4, <1>6, QuietAnswer, QuietGoto DEF Read, FileRead
<1> QED
  BY <1>5, <1>6

LEMMA ReloadKeeps ==
  ASSUME IInv, NEW a \in Operators, Reload(a) \/ SubmitReload(a),
         UNCHANGED <<table, editing, entries, dest>>
  PROVE  IInv'
<1>0. Typed(a) /\ Done(a)
  BY Facts
<1>1. CASE Reload(a)
  <2> DEFINE id == IF job[a].op = "create" THEN job[a].made ELSE job[a].id
  <2>1. job[a].pc = "reload" /\ job[a].op \in {"create", "update", "rotate"}
    BY <1>1 DEF Reload
  <2>2. job[a].op = "create" => job[a].made # 0 /\ job[a].wrote
    BY <1>0, <2>1 DEF Done
  <2>3. CASE ~Missing(id)
    <3>1. job[a].wrote
      BY <1>0, <2>1, <2>2, <2>3 DEF Done
    <3>2. Reaches(a, "report")
      BY <2>1, <3>1 DEF Reaches
    <3> QED
      BY <1>1, <2>3, <3>2, QuietGoto DEF Reload
  <2>4. CASE Missing(id)
    <3>1. Tells(a, "notfound") /\ Tells(a, "internal")
      BY <2>1, <2>2, <2>4 DEF Tells, Answers, Gone
    <3> QED
      BY <1>1, <2>4, <3>1, QuietAnswer DEF Reload
  <2> QED
    BY <2>3, <2>4
<1>2. CASE SubmitReload(a)
  <2>1. job[a].pc = "reload" /\ job[a].op = "submit" /\ job[a].made # 0 /\ job[a].wrote
    BY <1>0, <1>2 DEF SubmitReload, At, Done
  <2>2. Reaches(a, "report")
    BY <2>1 DEF Reaches
  <2>3. job[a].made \notin inbox => Tells(a, "notfound")
    BY <2>1 DEF Tells, Answers, Gone
  <2> QED
    BY <1>2, <2>2, <2>3, QuietGoto, QuietAnswer DEF SubmitReload
<1> QED
  BY <1>1, <1>2

\* The readings of a deletion of a profile or a notification.
LEMMA DeleteKeeps ==
  ASSUME IInv, NEW a \in Operators, DeleteRead(a) \/ ProfileUsage(a) \/ DeleteConflict(a),
         UNCHANGED <<table, editing, entries, dest>>
  PROVE  IInv'
<1>0. Typed(a) /\ Done(a) /\ Placed(a) /\ RowsInv
  BY Facts
<1>1. job[a].op = "delete" /\ ~job[a].wrote /\ job[a].pc \in {"begin", "usage", "conflict"}
  BY <1>0 DEF DeleteRead, ProfileUsage, DeleteConflict, At, Placed, Done
<1>2. Reaches(a, "usage") /\ Reaches(a, "remove") /\ Reaches(a, "conflict")
  BY <1>1 DEF Reaches
<1>3. Tells(a, "conflict") /\ (Missing(job[a].id) => Tells(a, "notfound"))
  BY <1>1 DEF Tells, Answers, Gone
<1>4. CASE DeleteRead(a)
  <2>1. ReadsOwner(a) /\ ~owner => Missing(job[a].id)
    BY <1>0 DEF RowsInv, Missing
  <2>2. \/ Answer(a, "notfound") /\ Missing(job[a].id)
        \/ Goto(a, "usage") \/ Goto(a, "remove")
    BY <1>4, <2>1 DEF DeleteRead
  <2> QED
    BY <1>2, <1>3, <2>2, QuietAnswer, QuietGoto
<1>5. CASE ProfileUsage(a)
  BY <1>2, <1>3, <1>5, QuietAnswer, QuietGoto DEF ProfileUsage, InUse
<1>6. CASE DeleteConflict(a)
  BY <1>3, <1>6, QuietAnswer DEF DeleteConflict
<1> QED
  BY <1>4, <1>5, <1>6

\* Opening the file of an entry.
LEMMA FileOpenKeeps ==
  ASSUME IInv, NEW a \in Operators, FileOpen(a), UNCHANGED <<table, editing, entries, dest>>
  PROVE  IInv'
<1>0. Typed(a) /\ Done(a) /\ Placed(a) /\ MailInv
  BY Facts
<1>1. job[a].op \in {"download", "copy"} /\ ~job[a].wrote /\ job[a].pc = "open"
  BY <1>0 DEF FileOpen, Placed, Done
<1>2. /\ job[a].op = "copy" => Reaches(a, "publish")
      /\ job[a].op = "download" => Reaches(a, "report")
  BY <1>1 DEF Reaches, Changing
<1>3. Tells(a, "internal")
  BY DEF Tells, Answers
<1>4. ASSUME job[a].id \notin stored, Page(a)
      PROVE  Tells(a, "notfound")
  <2>1. job[a].op = "download" /\ job[a].id \in DOMAIN mail
    BY <1>0, <1>1, <1>4 DEF Placed, Page, Typed
  <2>2. job[a].id \in moved
    BY <1>0, <1>4, <2>1 DEF MailInv, OutOfPlace
  <2> QED
    BY <2>1, <2>2 DEF Tells, Answers, Gone, Changing
<1>5. \/ job[a].id \notin stored /\ Page(a) /\ Answer(a, "notfound")
      \/ Answer(a, "internal")
      \/ job[a].op = "copy" /\ Goto(a, "publish")
      \/ job[a].op = "download" /\ Goto(a, "report")
  BY <1>1 DEF FileOpen
<1> QED
  BY <1>2, <1>3, <1>4, <1>5, QuietAnswer, QuietGoto

(***************************************************************************)
(* The beginning.                                                          *)
(***************************************************************************)
LEMMA OpenKeeps ==
  ASSUME IInv, UNCHANGED <<table, editing, entries, dest>>, NEW a \in Operators,
         NEW way \in Ways, NEW op, NEW id, NEW ask, NEW force \in BOOLEAN, NEW seen,
         Open(a, way, op, id, ask, force, seen), DOMAIN ask = RowFields,
         \/ op \in {"show", "update", "delete", "rotate", "submit"} /\ id \in 1 .. born
         \/ op \in {"read", "discard", "download", "copy"} /\ id \in DOMAIN mail
         \/ op \in {"create", "export"} /\ id = 0,
         op = "copy" => way = "command",
         op = "update" /\ ~Missing(id) => rows[id].secret \in seen,
         table = "notification" /\ op \in {"create", "update"} => ask.secret = Keep
  PROVE  IInv'
<1>1. UNCHANGED <<table, rows, born, used, owner, mail, inbox, stored, moved>>
  BY DEF editing, entries
<1>2. job[a].pc = "idle" /\ Alone(a)
  BY DEF Open, Alone, IInv
<1>3. job'[a] = [Idle EXCEPT !.by = way, !.op = op, !.id = id, !.ask = ask,
                             !.pc = IF way = "page" THEN "begin" ELSE "parse",
                             !.force = force, !.seen = seen]
  BY DEF Open, IInv
<1>4. /\ DOMAIN job'[a] = JobFields
      /\ job'[a].by = way /\ job'[a].op = op /\ job'[a].id = id /\ job'[a].ask = ask
      /\ job'[a].pc \in {"begin", "parse"} /\ job'[a].force = force /\ job'[a].seen = seen
      /\ job'[a].made = 0 /\ job'[a].put = Nothing /\ job'[a].found = {} /\ job'[a].hold = {}
      /\ job'[a].wrote = FALSE /\ job'[a].answer = "none"
  BY <1>3 DEF Idle, JobFields
<1>5. DOMAIN Nothing = RowFields /\ born \in Nat /\ Len(mail) \in Nat
  BY Sizes DEF Nothing, RowFields
<1>6. Typed(a)'
  <2>1. \/ job'[a].op \in {"show", "update", "delete", "rotate", "submit"} /\ job'[a].id \in 1 .. born'
        \/ job'[a].op \in {"read", "discard", "download", "copy"} /\ job'[a].id \in DOMAIN mail'
        \/ job'[a].op \in {"create", "export", "none"} /\ job'[a].id = 0
    BY <1>1, <1>4
  <2>2. job'[a].made \in 0 .. IF job'[a].op = "submit" THEN Len(mail') ELSE born'
    BY <1>1, <1>4, <1>5
  <2>3. job'[a].answer \in Answers /\ job'[a].wrote \in BOOLEAN
    BY <1>4 DEF Answers
  <2> QED
    BY <1>4, <1>5, <2>1, <2>2, <2>3 DEF Typed
<1>9. Placed(a)'
  BY <1>4 DEF Placed
<1>7. Done(a)' /\ Merging(a)' /\ Exporting(a)'
  BY <1>1, <1>4 DEF Done, Merging, Exporting, Missing
<1>8. JobInv(a)'
  BY <1>6, <1>7, <1>9 DEF JobInv
<1> QED
  BY <1>2, <1>8, QuietKeeps

LEMMA BeginKeeps ==
  ASSUME IInv, NEW a \in Operators, Begin(a) \/ BeginEntry(a),
         UNCHANGED <<table, editing, entries, dest>>
  PROVE  IInv'
<1>0. /\ RowsInv /\ born \in Nat /\ FALSE \in BOOLEAN /\ DOMAIN Nothing = RowFields
      /\ Nothing.secret = Keep
  BY Facts, Sizes DEF Nothing, RowFields
<1>1. ASSUME NEW way \in Ways, NEW op, NEW ask \in Asks(way, op)
      PROVE  /\ DOMAIN ask = RowFields
             /\ table = "notification" => ask.secret = Keep
  BY DEF Asks, RowFields
<1>2. CASE Begin(a)
  <2>1. PICK way \in Ways : \E op \in Operations(way) :
          \/ op = "create" /\ \E ask \in Asks(way, op) : Open(a, way, op, 0, ask, FALSE, {})
          \/ /\ op # "create" /\ op # "update"
             /\ \E id \in 1 .. born : Open(a, way, op, id, Nothing, FALSE, {})
          \/ /\ op = "update"
             /\ \E id \in 1 .. born, ask \in Asks(way, op) :
                  Open(a, way, op, id, ask, FALSE, {rows[i].secret : i \in {id} \cap DOMAIN rows})
    BY <1>2 DEF Begin
  <2>2. PICK op \in Operations(way) :
          \/ op = "create" /\ \E ask \in Asks(way, op) : Open(a, way, op, 0, ask, FALSE, {})
          \/ /\ op # "create" /\ op # "update"
             /\ \E id \in 1 .. born : Open(a, way, op, id, Nothing, FALSE, {})
          \/ /\ op = "update"
             /\ \E id \in 1 .. born, ask \in Asks(way, op) :
                  Open(a, way, op, id, ask, FALSE, {rows[i].secret : i \in {id} \cap DOMAIN rows})
    BY <2>1
  <2>3. op \in {"show", "create", "update", "delete", "rotate"}
    BY DEF Operations
  <2>4. ASSUME op = "create", NEW ask \in Asks(way, op), Open(a, way, op, 0, ask, FALSE, {})
        PROVE  IInv'
    BY <1>0, <1>1, <2>4, OpenKeeps
  <2>5. ASSUME op \in {"show", "delete", "rotate"}, NEW id \in 1 .. born,
               Open(a, way, op, id, Nothing, FALSE, {})
        PROVE  IInv'
    BY <1>0, <2>5, OpenKeeps
  <2>6. ASSUME op = "update", NEW id \in 1 .. born, NEW ask \in Asks(way, op),
               Open(a, way, op, id, ask, FALSE, {rows[i].secret : i \in {id} \cap DOMAIN rows})
        PROVE  IInv'
    <3>0. PICK seen : seen = {rows[i].secret : i \in {id} \cap DOMAIN rows}
      OBVIOUS
    <3>1. ~Missing(id) => rows[id].secret \in seen
      BY <3>0 DEF Missing
    <3>2. DOMAIN ask = RowFields /\ (table = "notification" => ask.secret = Keep)
      BY <1>1
    <3>3. Open(a, way, op, id, ask, FALSE, seen)
      BY <2>6, <3>0
    <3> QED
      BY <1>0, <2>6, <3>1, <3>2, <3>3, OpenKeeps
  <2> QED
    BY <2>2, <2>3, <2>4, <2>5, <2>6
<1>3. CASE BeginEntry(a)
  <2>0. PICK way \in Ways : \E op \in EntryOperations(way) :
          \/ op = "export" /\ Open(a, way, op, 0, Nothing, FALSE, {})
          \/ /\ op # "export"
             /\ \E id \in (IF op = "submit" THEN 1 .. born ELSE DOMAIN mail), force \in BOOLEAN :
                  Open(a, way, op, id, Nothing, force, {})
    BY <1>3 DEF BeginEntry
  <2>1. PICK op \in EntryOperations(way) :
          \/ op = "export" /\ Open(a, way, op, 0, Nothing, FALSE, {})
          \/ /\ op # "export"
             /\ \E id \in (IF op = "submit" THEN 1 .. born ELSE DOMAIN mail), force \in BOOLEAN :
                  Open(a, way, op, id, Nothing, force, {})
    BY <2>0
  <2>2. /\ op \in {"read", "download", "export", "discard", "submit", "copy"}
        /\ op = "copy" => way = "command"
    BY DEF EntryOperations, Ways
  <2>3. ASSUME op # "export", NEW id \in (IF op = "submit" THEN 1 .. born ELSE DOMAIN mail),
               NEW force \in BOOLEAN, Open(a, way, op, id, Nothing, force, {})
        PROVE  IInv'
    BY <1>0, <2>2, <2>3, OpenKeeps
  <2>4. CASE op = "export" /\ Open(a, way, op, 0, Nothing, FALSE, {})
    BY <1>0, <2>4, OpenKeeps
  <2> QED
    BY <2>1, <2>3, <2>4
<1> QED
  BY <1>2, <1>3

(***************************************************************************)
(* The export: what is found is everything when it is not too much.        *)
(***************************************************************************)
LEMMA NewestIsAll ==
  ASSUME NEW n \in Nat, NEW S \in SUBSET Nat, IsFiniteSet(S),
         NEW N, N = {i \in S : Cardinality({j \in S : j > i}) < n + 1}, Cardinality(N) <= n
  PROVE  N = S
<1> DEFINE Above(i) == {j \in S : j > i}
           Late == {Above(i) : i \in S \ N}
<1>1. ASSUME NEW i \in S
      PROVE  Above(i) \in FiniteSubsetsOf(S) /\ Cardinality(Above(i)) \in Nat
  BY FS_Subset, FS_CardinalityType DEF FiniteSubsetsOf
<1> SUFFICES ASSUME S \ N # {}
             PROVE  FALSE
  OBVIOUS
<1>2. PICK T \in Late : \A U \in Late : ~(<<U, T>> \in StrictSubsetOrdering(S))
  <2>1. Late \subseteq FiniteSubsetsOf(S) /\ Late # {}
    BY <1>1
  <2> HIDE DEF Late
  <2> QED
    BY <2>1, FS_StrictSubsetOrderingWellFounded, WFMin
<1>3. PICK i \in S \ N : T = Above(i)
  BY DEF Late
<1>4. ASSUME NEW j \in Above(i), j \notin N
      PROVE  FALSE
  <2>0. i \in Nat /\ j \in Nat /\ j \in S /\ j > i /\ \A k \in S : k \in Nat
    BY <1>4
  <2>3. Above(j) \in Late
    BY <1>4, <2>0
  <2>4. Above(j) \subseteq Above(i)
    <3>1. ASSUME NEW k \in S, k > j
          PROVE  k > i
      BY <2>0, <3>1
    <3> QED
      BY <3>1
  <2>5. ~(j > j)
    BY <2>0
  <2>1. Above(j) \in Late /\ Above(j) \subseteq T /\ j \in T /\ j \notin Above(j) /\ T \subseteq S
    BY <1>3, <2>0, <2>3, <2>4, <2>5
  <2>2. <<Above(j), T>> \in StrictSubsetOrdering(S)
    BY <2>1 DEF StrictSubsetOrdering
  <2> QED
    BY <1>2, <2>1, <2>2
<1>5. Above(i) \subseteq N /\ IsFiniteSet(N)
  BY <1>4, FS_Subset
<1>6. Cardinality(Above(i)) <= Cardinality(N) /\ Cardinality(N) \in Nat
  BY <1>5, FS_Subset, FS_CardinalityType
<1>7. ~(Cardinality(Above(i)) < n + 1)
  BY <1>3
<1> QED
  BY <1>1, <1>3, <1>6, <1>7

LEMMA MeasureKeeps ==
  ASSUME IInv, NEW a \in Operators, Measure(a), UNCHANGED table
  PROVE  IInv'
<1>0. Typed(a) /\ Placed(a) /\ Done(a) /\ MailInv
  BY Facts
<1>1. /\ UNCHANGED <<table, editing, entries, dest>>
      /\ UNCHANGED <<table, rows, born, used, owner, mail, inbox, stored, moved>>
      /\ job[a].pc = "begin" /\ job[a].op = "export" /\ ~job[a].wrote
  BY <1>0 DEF Measure, At, editing, entries, Done
<1>2. CASE Answer(a, "validation")
  BY <1>1, <1>2, QuietAnswer DEF Tells, Answers
<1>3. CASE job' = [job EXCEPT ![a].pc = "find", ![a].seen = inbox]
  <2>1. job'[a] = [job[a] EXCEPT !.pc = "find", !.seen = inbox] /\ Alone(a)
    BY <1>3 DEF IInv, Alone
  <2>2. /\ Identity(a) /\ DOMAIN job'[a] = JobFields /\ job'[a].pc = "find"
        /\ job'[a].answer = job[a].answer /\ job'[a].made = job[a].made
        /\ job'[a].wrote = job[a].wrote /\ job'[a].ask = job[a].ask /\ job'[a].put = job[a].put
        /\ job'[a].found = job[a].found /\ job'[a].hold = job[a].hold /\ job'[a].seen = inbox
    BY <1>0, <2>1 DEF Typed, JobFields, Identity
  <2>3. Typed(a)' /\ Placed(a)'
    BY <1>0, <1>1, <2>2 DEF Typed, Placed, Identity
  <2>4. Done(a)' /\ Merging(a)' /\ Exporting(a)'
    BY <1>0, <1>1, <2>2 DEF Done, Merging, Exporting, Identity, MailInv
  <2> QED
    BY <1>1, <2>1, <2>2, <2>3, <2>4, QuietKeeps DEF JobInv, Identity
<1> QED
  BY <1>2, <1>3 DEF Measure

LEMMA FindKeeps ==
  ASSUME IInv, NEW a \in Operators, Find(a), UNCHANGED table
  PROVE  IInv'
<1>0. Typed(a) /\ Placed(a) /\ Done(a) /\ Exporting(a) /\ MailInv
  BY Facts
<1>1. /\ UNCHANGED <<table, editing, entries, dest>>
      /\ UNCHANGED <<table, rows, born, used, owner, mail, inbox, stored, moved>>
      /\ job[a].pc = "find" /\ job[a].op = "export" /\ ~job[a].wrote
  BY <1>0 DEF Find, At, editing, entries, Done
<1> DEFINE found == Newest(MaxEntries + 1)
<1>2. CASE Answer(a, "validation")
  BY <1>1, <1>2, QuietAnswer DEF Tells, Answers
<1>3. CASE ~(Cardinality(found) > MaxEntries) /\ job' = [job EXCEPT ![a].pc = "preload", ![a].found = found]
  <2>1. /\ inbox \in SUBSET Nat /\ IsFiniteSet(inbox) /\ MaxEntries \in Nat
    <3>1. IsFiniteSet(1 .. Len(mail)) /\ inbox \subseteq 1 .. Len(mail)
      BY <1>0, Sizes, FS_Interval DEF MailInv
    <3>2. IsFiniteSet(inbox)
      BY <3>1, FS_Subset
    <3> QED
      BY <3>1, <3>2, Sizes
  <2>2. found = {i \in inbox : Cardinality({j \in inbox : j > i}) < MaxEntries + 1}
    BY DEF Newest
  <2>3. IsFiniteSet(found) /\ Cardinality(found) \in Nat
    BY <2>1, <2>2, FS_Subset, FS_CardinalityType
  <2> HIDE DEF found
  <2>4. Cardinality(found) <= MaxEntries
    BY <1>3, <2>1, <2>3
  <2>5. found = inbox
    BY <2>1, <2>2, <2>4, NewestIsAll
  <2>6. job'[a] = [job[a] EXCEPT !.pc = "preload", !.found = found] /\ Alone(a)
    BY <1>3 DEF IInv, Alone
  <2>7. /\ Identity(a) /\ DOMAIN job'[a] = JobFields /\ job'[a].pc = "preload"
        /\ job'[a].answer = job[a].answer /\ job'[a].made = job[a].made
        /\ job'[a].wrote = job[a].wrote /\ job'[a].ask = job[a].ask /\ job'[a].put = job[a].put
        /\ job'[a].found = found /\ job'[a].hold = job[a].hold /\ job'[a].seen = job[a].seen
    BY <1>0, <2>6 DEF Typed, JobFields, Identity
  <2>8. Typed(a)' /\ Placed(a)'
    BY <1>0, <1>1, <2>7 DEF Typed, Placed, Identity
  <2>9. Done(a)' /\ Merging(a)'
    BY <1>0, <1>1, <2>7 DEF Done, Merging, Identity
  <2>10. Exporting(a)'
    BY <1>0, <1>1, <2>4, <2>5, <2>7 DEF Exporting, Identity, MailInv
  <2> QED
    BY <1>1, <2>6, <2>7, <2>8, <2>9, <2>10, QuietKeeps DEF JobInv, Identity
<1> QED
  BY <1>2, <1>3 DEF Find

LEMMA PreloadKeeps ==
  ASSUME IInv, NEW a \in Operators, Preload(a), UNCHANGED table
  PROVE  IInv'
<1>0. Done(a)
  BY Facts
<1>1. /\ UNCHANGED <<table, editing, entries, dest>>
      /\ job[a].pc = "preload" /\ job[a].op = "export" /\ ~job[a].wrote
  BY <1>0 DEF Preload, At, Done
<1>2. Tells(a, "validation") /\ Tells(a, "internal")
  BY <1>1 DEF Tells, Answers
<1>3. \/ Answer(a, "validation") \/ Answer(a, "internal")
      \/ /\ Goto(a, "report")
         /\ Bytes(job[a].found) <= MaxBytes /\ Cardinality(Fields(job[a].found)) <= MaxFields
  BY DEF Preload
<1>4. CASE /\ Goto(a, "report")
           /\ Bytes(job[a].found) <= MaxBytes /\ Cardinality(Fields(job[a].found)) <= MaxFields
  BY <1>1, <1>4, QuietGoto DEF Reaches, Changing
<1> QED
  BY <1>1, <1>2, <1>3, <1>4, QuietAnswer

(***************************************************************************)
(* Merging what an operator gave with what is stored.                      *)
(***************************************************************************)

\* A job that has another value to write, and is checked or committed next.
Puts(a, put, pc) ==
  /\ Alone(a) /\ Identity(a) /\ DOMAIN job'[a] = JobFields
  /\ job'[a].pc = pc /\ job'[a].put = put /\ DOMAIN put = RowFields
  /\ job'[a].answer = job[a].answer /\ job'[a].made = job[a].made
  /\ job'[a].wrote = job[a].wrote /\ job'[a].ask = job[a].ask
  /\ job'[a].found = job[a].found /\ job'[a].hold = job[a].hold /\ job'[a].seen = job[a].seen

LEMMA PutsKeeps ==
  ASSUME IInv, UNCHANGED <<table, editing, entries, dest>>, NEW a \in Operators, NEW put,
         NEW pc \in {"check", "commit"}, Puts(a, put, pc),
         job[a].op \in {"create", "update"}, job[a].pc \in {"begin", "check"},
         table = "notification" => put.secret = Blank,
         table = "captcha" /\ pc = "commit" => put.secret # Blank,
         job[a].op = "update" /\ job[a].ask.secret = Keep /\ table # "notification" =>
           put.secret \in job[a].seen
  PROVE  IInv'
<1>0. Typed(a) /\ Placed(a) /\ Done(a) /\ Merging(a)
  BY Facts
<1>1. UNCHANGED <<table, rows, born, used, owner, mail, inbox, stored, moved>>
  BY DEF editing, entries
<1>2. Typed(a)' /\ Placed(a)'
  BY <1>0, <1>1 DEF Typed, Placed, Identity, Puts
<1>3. Done(a)'
  BY <1>0, <1>1 DEF Done, Identity, Puts
<1>4. Merging(a)' /\ Exporting(a)'
  BY <1>0, <1>1 DEF Merging, Exporting, Identity, Puts, Missing, Done
<1> QED
  BY <1>2, <1>3, <1>4, QuietKeeps DEF JobInv, Identity, Puts

LEMMA PutIs ==
  ASSUME IInv, NEW a \in Operators, NEW put, NEW pc, DOMAIN put = RowFields,
         job' = [job EXCEPT ![a].put = put, ![a].pc = pc]
  PROVE  Puts(a, put, pc)
<1>1. DOMAIN job[a] = JobFields
  BY Facts DEF Typed
<1>2. job'[a] = [job[a] EXCEPT !.put = put, !.pc = pc] /\ Alone(a)
  BY DEF IInv, Alone
<1>3. job'[a].pc = pc /\ job'[a].put = put /\ DOMAIN job'[a] = JobFields
  BY <1>1, <1>2 DEF JobFields
<1>4. \A f \in JobFields \ {"pc", "put"} : job'[a][f] = job[a][f]
  BY <1>1, <1>2
<1>5. Identity(a)
  BY <1>4 DEF Identity, JobFields
<1> QED
  BY <1>2, <1>3, <1>4, <1>5 DEF Puts, JobFields

LEMMA CreateCheckKeeps ==
  ASSUME IInv, NEW a \in Operators, CreateCheck(a), UNCHANGED <<table, entries, dest>>
  PROVE  IInv'
<1>0. Typed(a) /\ Done(a) /\ Merging(a)
  BY Facts
<1>1. /\ UNCHANGED <<table, editing, entries, dest>>
      /\ job[a].pc = "begin" /\ job[a].op = "create" /\ ~job[a].wrote /\ job[a].made = 0
  BY <1>0 DEF CreateCheck, At, Done
<1>2. PICK put : put = [job[a].ask EXCEPT !.secret = IF @ = Keep THEN Blank ELSE @]
  OBVIOUS
<1>3. \/ Answer(a, "notfound") /\ ~owner
      \/ Answer(a, "validation")
      \/ job' = [job EXCEPT ![a].put = put, ![a].pc = "commit"] /\ ~Invalid(put)
  BY <1>2 DEF CreateCheck
<1>4. /\ ~owner => Tells(a, "notfound")
      /\ Tells(a, "validation")
  BY <1>1 DEF Tells, Answers, Gone
<1>5. CASE job' = [job EXCEPT ![a].put = put, ![a].pc = "commit"] /\ ~Invalid(put)
  <2>1. /\ DOMAIN put = RowFields
        /\ job[a].ask.secret = Keep => put.secret = Blank
    BY <1>0, <1>2 DEF Typed, RowFields
  <2>2. table = "captcha" => put.secret # Blank
    BY <1>5 DEF Invalid
  <2>3. table = "notification" => put.secret = Blank
    BY <1>0, <1>1, <2>1 DEF Merging
  <2> QED
    BY <1>1, <1>5, <2>1, <2>2, <2>3, PutIs, PutsKeeps
<1> QED
  BY <1>1, <1>3, <1>4, <1>5, QuietAnswer

LEMMA UpdateReadKeeps ==
  ASSUME IInv, NEW a \in Operators, UpdateRead(a), UNCHANGED <<table, entries, dest>>
  PROVE  IInv'
<1>0. Typed(a) /\ Done(a) /\ Merging(a) /\ RowsInv
  BY Facts
<1>1. /\ UNCHANGED <<table, editing, entries, dest>>
      /\ job[a].pc = "begin" /\ job[a].op = "update" /\ ~job[a].wrote
  BY <1>0 DEF UpdateRead, At, Done
<1>2. PICK id, ask : id = job[a].id /\ ask = job[a].ask /\ DOMAIN ask = RowFields
  BY <1>0 DEF Typed
<1>3. CASE /\ ReadsOwner(a) /\ owner
           /\ job' = [job EXCEPT ![a].put = [ask EXCEPT !.secret = Blank], ![a].pc = "check"]
  <2>1. PICK put : put = [ask EXCEPT !.secret = Blank]
    OBVIOUS
  <2>2. DOMAIN put = RowFields /\ put.secret = Blank /\ table = "notification"
    BY <1>2, <1>3, <2>1 DEF RowFields, ReadsOwner
  <2>3. Puts(a, put, "check")
    BY <1>3, <2>1, <2>2, PutIs
  <2> QED
    BY <1>1, <2>2, <2>3, PutsKeeps
<1>4. CASE /\ ~ReadsOwner(a) /\ ~Missing(id)
           /\ job' = [job EXCEPT ![a].put = Merged(ask, rows[id]), ![a].pc = "check"]
  <2>1. PICK put : put = Merged(ask, rows[id])
    OBVIOUS
  <2>2. /\ DOMAIN put = RowFields
        /\ ask.secret = Keep => put.secret = rows[id].secret
    BY <1>2, <2>1 DEF Merged, RowFields
  <2>3. Puts(a, put, "check")
    BY <1>4, <2>1, <2>2, PutIs
  <2>4. rows[id].secret \in job[a].seen
    BY <1>0, <1>1, <1>2, <1>4 DEF Merging
  <2>5. table = "notification" => put.secret = Blank
    BY <1>0, <1>1, <1>2, <1>4, <2>2 DEF Merging, RowsInv, Missing
  <2> QED
    BY <1>1, <1>2, <2>2, <2>3, <2>4, <2>5, PutsKeeps
<1>5. CASE Answer(a, "notfound") /\ (IF ReadsOwner(a) THEN ~owner ELSE Missing(id))
  <2>1. Missing(job[a].id)
    BY <1>0, <1>2, <1>5 DEF RowsInv, Missing
  <2> QED
    BY <1>1, <1>5, <2>1, QuietAnswer DEF Tells, Answers, Gone
<1> QED
  BY <1>2, <1>3, <1>4, <1>5 DEF UpdateRead

LEMMA UpdateCheckKeeps ==
  ASSUME IInv, NEW a \in Operators, UpdateCheck(a), UNCHANGED <<table, entries, dest>>
  PROVE  IInv'
<1>0. Typed(a) /\ Done(a) /\ Merging(a)
  BY Facts
<1>1. /\ UNCHANGED <<table, editing, entries, dest>>
      /\ job[a].pc = "check" /\ job[a].op = "update" /\ ~job[a].wrote
  BY <1>0 DEF UpdateCheck, At, Done
<1>2. CASE Answer(a, "validation")
  BY <1>1, <1>2, QuietAnswer DEF Tells, Answers
<1>3. CASE Answer(a, "notfound") /\ Missing(job[a].id)
  BY <1>1, <1>3, QuietAnswer DEF Tells, Answers, Gone
<1>4. CASE /\ ~Invalid(job[a].put)
           /\ job' = [job EXCEPT ![a].pc = "commit",
                        ![a].put.name = IF job[a].ask.name = Keep /\ Page(a)
                                        THEN rows[job[a].id].name ELSE @]
  <2>1. PICK put : put = [job[a].put EXCEPT !.name = IF job[a].ask.name = Keep /\ Page(a)
                                                     THEN rows[job[a].id].name ELSE @]
    OBVIOUS
  <2>2. DOMAIN put = RowFields /\ put.secret = job[a].put.secret
    BY <1>0, <2>1 DEF Typed, RowFields
  <2>3. job'[a] = [job[a] EXCEPT !.pc = "commit", !.put = put] /\ Alone(a)
    BY <1>4, <2>1 DEF IInv, Alone
  <2>4. Puts(a, put, "commit")
    BY <1>0, <2>2, <2>3 DEF Puts, Identity, Typed, JobFields
  <2>5. table = "captcha" => put.secret # Blank
    BY <1>4, <2>2 DEF Invalid
  <2>6. /\ table = "notification" => put.secret = Blank
        /\ job[a].ask.secret = Keep /\ table # "notification" => put.secret \in job[a].seen
    BY <1>0, <1>1, <2>2 DEF Merging
  <2> QED
    BY <1>1, <2>4, <2>5, <2>6, PutsKeeps
<1> QED
  BY <1>2, <1>3, <1>4 DEF UpdateCheck

LEMMA RotateCommitKeeps ==
  ASSUME IInv, NEW a \in Operators, RotateCommit(a), UNCHANGED <<table, entries, dest>>
  PROVE  IInv'
<1>0. Typed(a) /\ Placed(a) /\ Done(a)
  BY Facts
<1>1. /\ UNCHANGED <<table, editing, entries, dest>>
      /\ UNCHANGED <<table, rows, born, used, owner, mail, inbox, stored, moved>>
      /\ job[a].pc = "commit" /\ job[a].op = "rotate" /\ ~job[a].wrote
  BY <1>0 DEF RotateCommit, At, Done, editing, entries
<1>2. /\ job'[a] = [job[a] EXCEPT !.pc = "reload", !.wrote = ~Missing(job[a].id)]
      /\ Alone(a)
  BY DEF RotateCommit, IInv, Alone
<1>3. /\ Identity(a) /\ DOMAIN job'[a] = JobFields /\ job'[a].pc = "reload"
      /\ job'[a].answer = job[a].answer /\ job'[a].made = job[a].made
      /\ job'[a].ask = job[a].ask /\ job'[a].put = job[a].put
      /\ job'[a].hold = job[a].hold /\ job'[a].wrote = ~Missing(job[a].id)
  BY <1>0, <1>2 DEF Typed, JobFields, Identity
<1>4. job'[a].wrote \in BOOLEAN /\ (job'[a].wrote <=> job[a].id \in DOMAIN rows)
  BY <1>3 DEF Missing
<1>5. Typed(a)' /\ Placed(a)'
  BY <1>0, <1>1, <1>3, <1>4 DEF Typed, Placed, Identity
<1>6. Done(a)' /\ Merging(a)' /\ Exporting(a)'
  BY <1>0, <1>1, <1>3, <1>4 DEF Done, Merging, Exporting, Identity, Missing
<1> QED
  BY <1>1, <1>2, <1>3, <1>5, <1>6, QuietKeeps DEF JobInv, Identity

(***************************************************************************)
(* The steps that change records.                                          *)
(***************************************************************************)
LEMMA StepKeeps ==
  ASSUME IInv, RowsInv', MailInv', Onward, DestInv', NEW a \in Operators,
         job' = [b \in Operators |-> job'[b]], JobInv(a)',
         \A b \in Operators \ {a} : SameJob(b) /\ Learns(b)
  PROVE  IInv'
BY OthersKeep DEF IInv

LEMMA SurroundingsKeep ==
  ASSUME IInv, RowsInv', MailInv', Onward, DestInv', UNCHANGED job,
         \A b \in Operators : Learns(b)
  PROVE  IInv'
BY AloneIsSame, OthersKeep DEF IInv

\* A step of one job, as StepKeeps needs it, when no stored value changes.
LEMMA AloneKeeps ==
  ASSUME IInv, RowsInv', MailInv', Onward, dest' = dest, NEW a \in Operators, Alone(a),
         JobInv(a)', job'[a].pc # "idle", job'[a].force = job[a].force,
         \A i \in DOMAIN rows : i \in DOMAIN rows' => rows'[i] = rows[i]
  PROVE  IInv'
<1>1. \A b \in Operators \ {a} : SameJob(b) /\ Learns(b)
  BY AloneIsSame DEF Alone, Learns
<1>2. DestInv'
  BY DestKeeps DEF IInv, Alone
<1> QED
  BY <1>1, <1>2, StepKeeps DEF Alone

\* Records that change, entries that do not, and the other way around.
LEMMA MailStays ==
  ASSUME IInv, UNCHANGED <<table, entries>>, born <= born', ~owner => ~owner',
         \A i \in 1 .. born : i \notin DOMAIN rows => i \notin DOMAIN rows'
  PROVE  MailInv' /\ Onward
BY Sizes DEF IInv, MailInv, OutOfPlace, entries, Onward, Missing

LEMMA RowsStay ==
  ASSUME IInv, UNCHANGED <<table, editing>>
  PROVE  RowsInv' /\ UNCHANGED <<rows, born, used, owner>>
BY DEF IInv, RowsInv, RowsSound, editing

LEMMA CreateCommitKeeps ==
  ASSUME IInv, NEW a \in Operators, CreateCommit(a), UNCHANGED <<table, entries, dest>>
  PROVE  IInv'
<1>0. Typed(a) /\ Placed(a) /\ Done(a) /\ Merging(a) /\ RowsInv
  BY Facts
<1>1. /\ job[a].pc = "commit" /\ job[a].op = "create" /\ ~job[a].wrote /\ job[a].made = 0
      /\ born \in Nat /\ MaxRows \in Nat
  BY <1>0, Sizes DEF CreateCommit, At, Done
<1>2. /\ ~owner => Tells(a, "notfound")
      /\ Tells(a, "validation") /\ Tells(a, "internal")
  BY <1>1 DEF Tells, Answers, Gone
<1>3. CASE ~owner /\ Answer(a, IF Page(a) THEN "internal" ELSE "notfound") /\ UNCHANGED editing
  BY <1>2, <1>3, QuietAnswer
<1>4. CASE Answer(a, "validation") /\ UNCHANGED editing
  BY <1>2, <1>4, QuietAnswer
<1>5. CASE /\ owner /\ born < MaxRows /\ ~Taken(0, job[a].put.name)
           /\ born' = born + 1 /\ rows' = With(rows, born', job[a].put)
           /\ job' = [job EXCEPT ![a].made = born', ![a].wrote = TRUE,
                                 ![a].pc = IF table = "notification" THEN "reload" ELSE "report"]
           /\ UNCHANGED <<used, owner>>
  <2>1. PICK put : put = job[a].put
    OBVIOUS
  <2>2. /\ born + 1 \notin DOMAIN rows
        /\ DOMAIN rows' = DOMAIN rows \cup {born + 1} /\ rows'[born + 1] = put
        /\ \A i \in DOMAIN rows : rows'[i] = rows[i]
    BY <1>0, <1>1, <1>5, <2>1 DEF With, RowsInv
  <2>3. /\ table = "notification" => put.secret = Blank
        /\ table = "captcha" => put.secret # Blank
        /\ table # "notification" => \A i \in DOMAIN rows : rows[i].name # put.name
    BY <1>0, <1>1, <1>5, <2>1 DEF Merging, Taken, RowsInv
  <2>4. RowsInv'
    <3>1. RowsSound'
      BY <1>0, <1>5, <2>2, <2>3 DEF RowsInv, RowsSound
    <3> QED
      BY <1>0, <1>1, <1>5, <2>2, <2>3, <3>1 DEF RowsInv
  <2>5. MailInv' /\ Onward
    BY <1>1, <1>5, <2>2, MailStays
  <2>6. Alone(a) /\ job'[a] = [job[a] EXCEPT !.made = born + 1, !.wrote = TRUE,
                                 !.pc = IF table = "notification" THEN "reload" ELSE "report"]
    BY <1>5 DEF IInv, Alone
  <2>7. /\ Identity(a) /\ DOMAIN job'[a] = JobFields
        /\ job'[a].pc = IF table = "notification" THEN "reload" ELSE "report"
        /\ job'[a].answer = job[a].answer /\ job'[a].made = born + 1 /\ job'[a].wrote = TRUE
        /\ job'[a].ask = job[a].ask /\ job'[a].put = job[a].put
        /\ job'[a].hold = job[a].hold
    BY <1>0, <2>6 DEF Typed, JobFields, Identity
  <2>8. mail' = mail
    BY DEF entries
  <2>9. Typed(a)' /\ Placed(a)'
    <3>1. job'[a].op = "create" /\ job'[a].id = 0
      BY <1>0, <1>1, <2>7 DEF Typed, Identity
    <3>2. job'[a].made \in 0 .. born'
      BY <1>1, <1>5, <2>7
    <3>3. Typed(a)'
      BY <1>0, <2>7, <2>8, <3>1, <3>2 DEF Typed, Identity
    <3>4. Placed(a)'
      BY <2>7, <3>1 DEF Placed
    <3> QED
      BY <3>3, <3>4
  <2>10. Done(a)' /\ Merging(a)' /\ Exporting(a)'
    BY <1>0, <1>1, <2>7 DEF Done, Merging, Exporting, Identity
  <2> QED
    BY <2>2, <2>4, <2>5, <2>6, <2>7, <2>9, <2>10, AloneKeeps DEF JobInv, Identity
<1> QED
  BY <1>3, <1>4, <1>5 DEF CreateCommit

LEMMA UpdateCommitKeeps ==
  ASSUME IInv, NEW a \in Operators, UpdateCommit(a), UNCHANGED <<table, entries, dest>>
  PROVE  IInv'
<1>0. Typed(a) /\ Placed(a) /\ Done(a) /\ Merging(a) /\ RowsInv
  BY Facts
<1>1. /\ job[a].pc = "commit" /\ job[a].op = "update" /\ ~job[a].wrote /\ job[a].made = 0
      /\ UNCHANGED <<born, used, owner>>
  BY <1>0 DEF UpdateCommit, At, Done
<1>2. PICK id, put : id = job[a].id /\ put = job[a].put
  OBVIOUS
<1>3. /\ Missing(id) => Tells(a, "notfound") /\ Reaches(a, "reload")
      /\ Tells(a, "validation")
  BY <1>1, <1>2 DEF Tells, Reaches, Answers, Gone
<1>4. CASE Answer(a, "validation") /\ UNCHANGED rows
  BY <1>1, <1>3, <1>4, QuietAnswer DEF editing
<1>5. CASE Missing(id) /\ UNCHANGED rows /\ (Answer(a, "notfound") \/ Goto(a, "reload"))
  BY <1>1, <1>3, <1>5, QuietAnswer, QuietGoto DEF editing
<1>6. CASE ~Missing(id) /\ ~Taken(id, put.name) /\ Store(a, id, put, "reload")
  <2>1. /\ DOMAIN rows' = DOMAIN rows /\ rows'[id] = put
        /\ \A i \in DOMAIN rows \ {id} : rows'[i] = rows[i]
    BY <1>6 DEF Store, Missing
  <2>2. /\ table = "notification" => put.secret = Blank
        /\ table = "captcha" => put.secret # Blank
        /\ table # "notification" => \A i \in DOMAIN rows \ {id} : rows[i].name # put.name
    BY <1>0, <1>1, <1>2, <1>6 DEF Merging, Taken
  <2>3. RowsInv'
    <3>1. RowsSound'
      BY <1>0, <1>1, <2>1, <2>2 DEF RowsInv, RowsSound
    <3>2. table = "notification" => \A i \in DOMAIN rows' : rows'[i].secret = Blank
      BY <1>0, <2>1, <2>2 DEF RowsInv
    <3> QED
      BY <1>0, <1>1, <2>1, <3>1, <3>2 DEF RowsInv
  <2>4. MailInv' /\ Onward
    BY <1>1, <2>1, Sizes, MailStays
  <2>5. /\ job' = [b \in Operators |-> job'[b]]
        /\ job'[a] = [job[a] EXCEPT !.wrote = TRUE, !.pc = "reload"]
        /\ \A b \in Operators \ {a} :
             job'[b] = IF job[b].op = "update" /\ job[b].id = id /\ job[b].pc # "done"
                       THEN [job[b] EXCEPT !.seen = @ \cup {put.secret}] ELSE job[b]
    BY <1>6 DEF Store, SeenBy
  <2>6. /\ Identity(a) /\ DOMAIN job'[a] = JobFields /\ job'[a].pc = "reload"
        /\ job'[a].answer = job[a].answer /\ job'[a].made = job[a].made /\ job'[a].wrote = TRUE
        /\ job'[a].ask = job[a].ask /\ job'[a].put = job[a].put
        /\ job'[a].hold = job[a].hold /\ job'[a].seen = job[a].seen
    BY <1>0, <2>5 DEF Typed, JobFields, Identity
  <2>7. ASSUME NEW b \in Operators \ {a}
        PROVE  SameJob(b) /\ Learns(b)
    <3>0. DOMAIN job[b] = JobFields
      BY Facts DEF Typed
    <3>1. CASE job[b].op = "update" /\ job[b].id = id /\ job[b].pc # "done"
      <4>1. job'[b] = [job[b] EXCEPT !.seen = @ \cup {put.secret}]
        BY <2>5, <3>1
      <4>2. job'[b].seen = job[b].seen \cup {put.secret} /\ DOMAIN job'[b] = JobFields
        BY <3>0, <4>1 DEF JobFields
      <4>3. \A f \in JobFields \ {"seen"} : job'[b][f] = job[b][f]
        BY <3>0, <4>1
      <4>4. SameJob(b)
        BY <3>1, <4>2, <4>3 DEF SameJob, Identity, JobFields
      <4> QED
        BY <2>1, <3>1, <4>2, <4>4 DEF Learns
    <3>2. CASE ~(job[b].op = "update" /\ job[b].id = id /\ job[b].pc # "done")
      BY <2>1, <2>5, <3>2, AloneIsSame DEF Learns
    <3> QED
      BY <3>1, <3>2
  <2>8. mail' = mail
    BY DEF entries
  <2>9. Typed(a)' /\ Placed(a)'
    BY <1>0, <1>1, <2>6, <2>8 DEF Typed, Placed, Identity
  <2>10. job[a].ask.secret = Keep => put.secret \in job[a].seen
    <3>1. CASE table = "notification"
      BY <1>0, <1>1, <1>2, <1>6, <2>2, <3>1 DEF Merging, RowsInv, Missing
    <3>2. CASE table # "notification"
      BY <1>0, <1>1, <1>2, <3>2 DEF Merging
    <3> QED
      BY <3>1, <3>2
  <2>11. Done(a)' /\ Exporting(a)'
    BY <1>0, <1>1, <2>6 DEF Done, Exporting, Identity
  <2>12. Merging(a)'
    BY <1>0, <1>1, <1>2, <2>6, <2>10 DEF Merging, Identity
  <2>13. DestInv'
    BY <2>6, <2>7, DestKeeps DEF IInv, Identity, SameJob
  <2> QED
    BY <2>3, <2>4, <2>5, <2>7, <2>9, <2>11, <2>12, <2>13, StepKeeps DEF JobInv
<1> QED
  BY <1>2, <1>4, <1>5, <1>6 DEF UpdateCommit

LEMMA RemoveKeeps ==
  ASSUME IInv, NEW a \in Operators, Remove(a), UNCHANGED <<table, entries, dest>>
  PROVE  IInv'
<1>0. Typed(a) /\ Placed(a) /\ Done(a) /\ RowsInv
  BY Facts
<1>1. /\ job[a].pc = "remove" /\ job[a].op = "delete" /\ ~job[a].wrote /\ job[a].made = 0
      /\ UNCHANGED <<born, used, owner>>
  BY <1>0 DEF Remove, Placed, Done
<1>2. PICK id : id = job[a].id
  OBVIOUS
<1>3. /\ Missing(id) => Tells(a, "notfound")
      /\ Tells(a, "conflict") /\ Reaches(a, "conflict")
  BY <1>1, <1>2 DEF Tells, Reaches, Answers, Gone
<1>4. CASE Missing(id) /\ Answer(a, "notfound") /\ UNCHANGED rows
  BY <1>1, <1>3, <1>4, QuietAnswer DEF editing
<1>5. CASE InUse(a) /\ UNCHANGED rows
  BY <1>1, <1>3, <1>5, QuietAnswer, QuietGoto DEF editing, InUse
<1>6. CASE /\ id \notin used /\ rows' = Without(rows, id)
           /\ job' = [job EXCEPT ![a].pc = "report", ![a].wrote = TRUE]
  <2>1. /\ DOMAIN rows' = DOMAIN rows \ {id}
        /\ \A i \in DOMAIN rows \ {id} : rows'[i] = rows[i]
    BY <1>6 DEF Without
  <2>2. RowsInv'
    <3>1. RowsSound'
      BY <1>0, <1>1, <1>6, <2>1 DEF RowsInv, RowsSound
    <3> QED
      BY <1>0, <1>1, <2>1, <3>1 DEF RowsInv
  <2>3. MailInv' /\ Onward
    BY <1>1, <2>1, Sizes, MailStays
  <2>4. Alone(a) /\ job'[a] = [job[a] EXCEPT !.pc = "report", !.wrote = TRUE]
    BY <1>6 DEF IInv, Alone
  <2>5. /\ Identity(a) /\ DOMAIN job'[a] = JobFields /\ job'[a].pc = "report"
        /\ job'[a].answer = job[a].answer /\ job'[a].made = job[a].made /\ job'[a].wrote = TRUE
        /\ job'[a].ask = job[a].ask /\ job'[a].put = job[a].put
        /\ job'[a].hold = job[a].hold
    BY <1>0, <2>4 DEF Typed, JobFields, Identity
  <2>6. mail' = mail
    BY DEF entries
  <2>7. Typed(a)' /\ Placed(a)'
    BY <1>0, <1>1, <2>5, <2>6 DEF Typed, Placed, Identity
  <2>8. Gone(a)'
    BY <1>1, <1>2, <2>1, <2>5 DEF Gone, Missing, Identity
  <2>9. Done(a)' /\ Merging(a)' /\ Exporting(a)'
    BY <1>1, <2>5, <2>8 DEF Done, Merging, Exporting, Identity
  <2> QED
    BY <2>1, <2>2, <2>3, <2>4, <2>5, <2>7, <2>9, AloneKeeps DEF JobInv, Identity
<1> QED
  BY <1>2, <1>4, <1>5, <1>6 DEF Remove

(***************************************************************************)
(* The steps that change entries, their files, or the copies of them.      *)
(***************************************************************************)
LEMMA QuarantineKeeps ==
  ASSUME IInv, NEW a \in Operators, Quarantine(a), UNCHANGED table
  PROVE  IInv'
<1>0. Typed(a) /\ Placed(a) /\ Done(a) /\ MailInv
  BY Facts
<1>1. /\ job[a].pc = "begin" /\ ~job[a].wrote
      /\ job[a].op = "discard" \/ (job[a].op = "delete" /\ table = "form")
      /\ UNCHANGED <<table, editing, mail, inbox, dest>>
  BY <1>0 DEF Quarantine, Erasing, Done
<1>2. PICK doomed : doomed = IF job[a].op = "discard" THEN {job[a].id} \cap inbox
                             ELSE {i \in inbox : mail[i].form = job[a].id}
  OBVIOUS
<1>3. CASE /\ IF job[a].op = "discard" THEN job[a].id \notin inbox ELSE Missing(job[a].id)
           /\ Answer(a, "notfound") /\ UNCHANGED <<stored, moved>>
  <2>1. Tells(a, "notfound")
    BY <1>1, <1>3 DEF Tells, Answers, Gone
  <2> QED
    BY <1>1, <1>3, <2>1, QuietAnswer DEF entries
<1>4. CASE /\ job[a].op = "discard" => job[a].id \in inbox
           /\ job' = [job EXCEPT ![a].pc = "erase", ![a].found = doomed,
                                 ![a].hold = doomed \cap stored]
           /\ stored' = stored \ doomed /\ moved' = moved \cup doomed
  <2>1. doomed \subseteq DOMAIN mail
    BY <1>0, <1>2 DEF MailInv
  <2>2. RowsInv' /\ UNCHANGED <<rows, born, used, owner>>
    BY <1>1, RowsStay
  <2>3. MailInv' /\ Onward
    BY <1>0, <1>1, <1>4, <2>1, <2>2, Sizes DEF MailInv, OutOfPlace, Onward, Missing
  <2>4. Alone(a) /\ job'[a] = [job[a] EXCEPT !.pc = "erase", !.found = doomed,
                                             !.hold = doomed \cap stored]
    BY <1>4 DEF IInv, Alone
  <2>5. /\ Identity(a) /\ DOMAIN job'[a] = JobFields /\ job'[a].pc = "erase"
        /\ job'[a].answer = job[a].answer /\ job'[a].made = job[a].made
        /\ job'[a].wrote = job[a].wrote /\ job'[a].ask = job[a].ask /\ job'[a].put = job[a].put
        /\ job'[a].found = doomed /\ job'[a].hold = doomed \cap stored
    BY <1>0, <2>4 DEF Typed, JobFields, Identity
  <2>6. Typed(a)' /\ Placed(a)'
    BY <1>0, <1>1, <2>1, <2>2, <2>5 DEF Typed, Placed, Identity
  <2>7. job[a].op = "discard" => job[a].id \in doomed
    BY <1>2, <1>4
  <2>8. Done(a)' /\ Merging(a)' /\ Exporting(a)'
    BY <1>0, <1>1, <2>5, <2>7 DEF Done, Merging, Exporting, Identity
  <2> QED
    BY <1>1, <2>2, <2>3, <2>4, <2>5, <2>6, <2>8, AloneKeeps DEF JobInv, Identity
<1> QED
  BY <1>2, <1>3, <1>4 DEF Quarantine

LEMMA EraseKeeps ==
  ASSUME IInv, NEW a \in Operators, Erase(a), UNCHANGED table
  PROVE  IInv'
<1>0. Typed(a) /\ Placed(a) /\ Done(a) /\ RowsInv /\ MailInv
  BY Facts
<1>1. /\ job[a].pc = "erase" /\ ~job[a].wrote /\ job[a].made = 0
      /\ job[a].op = "discard" \/ (job[a].op = "delete" /\ table = "form")
      /\ UNCHANGED <<table, born, used, owner, mail, stored, moved, dest>>
  BY <1>0 DEF Erase, Placed, Done
<1>2. /\ inbox' = inbox \ job[a].found
      /\ job[a].op = "discard" => rows' = rows
      /\ job[a].op = "delete" => rows' = Without(rows, job[a].id)
  BY <1>1 DEF Erase
<1>3. /\ DOMAIN rows' \subseteq DOMAIN rows /\ \A i \in DOMAIN rows' : rows'[i] = rows[i]
      /\ job[a].op = "delete" => job[a].id \notin DOMAIN rows'
      /\ DOMAIN rows' = DOMAIN rows \/ table = "form"
  BY <1>1, <1>2 DEF Without
<1>4. RowsInv'
  <2>1. used \subseteq DOMAIN rows'
    BY <1>0, <1>3 DEF RowsInv, RowsSound, Profiles
  <2>2. RowsSound'
    BY <1>0, <1>1, <1>3, <2>1 DEF RowsInv, RowsSound
  <2>3. ~owner => DOMAIN rows' = {} /\ table = "notification"
    BY <1>0, <1>3 DEF RowsInv
  <2> QED
    BY <1>0, <1>1, <1>3, <2>2, <2>3 DEF RowsInv
<1>5. MailInv' /\ Onward
  BY <1>0, <1>1, <1>2, <1>3, Sizes DEF MailInv, OutOfPlace, Onward, Missing
<1>6. Alone(a) /\ job'[a] = [job[a] EXCEPT !.pc = "report", !.hold = {}, !.wrote = TRUE]
  BY DEF Erase, IInv, Alone
<1>7. /\ Identity(a) /\ DOMAIN job'[a] = JobFields /\ job'[a].pc = "report"
      /\ job'[a].answer = job[a].answer /\ job'[a].made = job[a].made /\ job'[a].wrote = TRUE
      /\ job'[a].ask = job[a].ask /\ job'[a].put = job[a].put /\ job'[a].hold = {}
  BY <1>0, <1>6 DEF Typed, JobFields, Identity
<1>8. Typed(a)' /\ Placed(a)'
  BY <1>0, <1>1, <1>7 DEF Typed, Placed, Identity
<1>9. Gone(a)'
  <2>1. CASE job[a].op = "discard"
    BY <1>0, <1>1, <1>2, <1>7, <2>1 DEF Done, Gone, Identity
  <2>2. CASE job[a].op = "delete"
    BY <1>3, <1>7, <2>2 DEF Gone, Missing, Identity
  <2> QED
    BY <1>1, <2>1, <2>2
<1>10. Done(a)' /\ Merging(a)' /\ Exporting(a)'
  BY <1>1, <1>7, <1>9 DEF Done, Merging, Exporting, Identity
<1> QED
  BY <1>1, <1>3, <1>4, <1>5, <1>6, <1>7, <1>8, <1>10, AloneKeeps DEF JobInv, Identity

LEMMA EraseFailsKeeps ==
  ASSUME IInv, NEW a \in Operators, EraseFails(a), UNCHANGED table
  PROVE  IInv'
<1>0. Typed(a) /\ Placed(a) /\ Done(a) /\ MailInv
  BY Facts
<1>1. /\ job[a].pc = "erase" /\ ~job[a].wrote /\ job[a].hold \subseteq DOMAIN mail
      /\ job[a].op \in {"discard", "delete"}
      /\ UNCHANGED <<table, editing, mail, inbox, moved, dest>>
      /\ stored' = stored \/ stored' = stored \cup job[a].hold
  BY <1>0 DEF EraseFails, Typed, Done, Placed
<1>2. RowsInv' /\ UNCHANGED <<rows, born, used, owner>>
  BY <1>1, RowsStay
<1>3. MailInv' /\ Onward
  BY <1>0, <1>1, <1>2, Sizes DEF MailInv, OutOfPlace, Onward, Missing
<1>4. ASSUME NEW left \in SUBSET DOMAIN mail, End(a, "internal", left)
      PROVE  IInv'
  <2>1. JobInv(a)'
    BY <1>2, <1>3, <1>4, EndKeeps DEF Tells, Answers
  <2>2. Alone(a) /\ job'[a].pc = "done" /\ job'[a].force = job[a].force
    BY <1>4, Ending DEF Identity
  <2> QED
    BY <1>1, <1>2, <1>3, <2>1, <2>2, AloneKeeps
<1>5. CASE job' = [job EXCEPT ![a].pc = "begin", ![a].hold = {}, ![a].found = {}]
  <2>1. Alone(a) /\ job'[a] = [job[a] EXCEPT !.pc = "begin", !.hold = {}, !.found = {}]
    BY <1>5 DEF IInv, Alone
  <2>2. /\ Identity(a) /\ DOMAIN job'[a] = JobFields /\ job'[a].pc = "begin"
        /\ job'[a].answer = job[a].answer /\ job'[a].made = job[a].made
        /\ job'[a].wrote = job[a].wrote
        /\ job'[a].ask = job[a].ask /\ job'[a].put = job[a].put /\ job'[a].hold = {}
    BY <1>0, <2>1 DEF Typed, JobFields, Identity
  <2>3. Typed(a)' /\ Placed(a)'
    BY <1>0, <1>1, <1>2, <2>2 DEF Typed, Placed, Identity
  <2>4. Done(a)' /\ Merging(a)' /\ Exporting(a)'
    BY <1>0, <1>1, <2>2 DEF Done, Merging, Exporting, Identity
  <2> QED
    BY <1>1, <1>2, <1>3, <2>1, <2>2, <2>3, <2>4, AloneKeeps DEF JobInv, Identity
<1> QED
  BY <1>1, <1>4, <1>5 DEF EraseFails, Answer

\* An entry that is received has a new id.
LEMMA Receiving ==
  ASSUME IInv, UNCHANGED table, NEW form \in Nat, NEW content \in Contents, Receive(form, content)
  PROVE  /\ RowsInv' /\ MailInv' /\ Onward /\ UNCHANGED <<rows, born, used, owner, dest>>
         /\ Len(mail') = Len(mail) + 1
<1> DEFINE entry == [form |-> form, content |-> content]
<1>1. /\ RowsInv' /\ UNCHANGED <<rows, born, used, owner, dest>> /\ moved' = moved
      /\ MailInv
  BY RowsStay, Facts DEF Receive, IInv
<1>2. mail' = Append(mail, entry) /\ entry \in [form : Nat, content : Contents]
  BY DEF Receive
<1> HIDE DEF entry
<1>3. /\ mail' \in Seq([form : Nat, content : Contents])
      /\ Len(mail') = Len(mail) + 1 /\ \A i \in 1 .. Len(mail) : mail'[i] = mail[i]
  BY <1>1, <1>2 DEF MailInv
<1>4. /\ inbox' = inbox \cup {Len(mail) + 1} /\ stored' = stored \cup {Len(mail) + 1}
      /\ DOMAIN mail' = DOMAIN mail \cup {Len(mail) + 1} /\ Len(mail) + 1 \notin DOMAIN mail
  BY <1>3, Sizes DEF Receive
<1>5. MailInv'
  BY <1>1, <1>3, <1>4 DEF MailInv, OutOfPlace
<1>6. Onward
  BY <1>1, <1>3, <1>4, Sizes DEF Onward, Missing
<1> QED
  BY <1>1, <1>3, <1>5, <1>6

LEMMA SubmitCommitKeeps ==
  ASSUME IInv, NEW a \in Operators, SubmitCommit(a), UNCHANGED table
  PROVE  IInv'
<1>0. Typed(a) /\ Placed(a) /\ Done(a) /\ MailInv
  BY Facts
<1>1. /\ job[a].pc = "commit" /\ job[a].op = "submit" /\ ~job[a].wrote
      /\ job[a].id \in 1 .. born /\ born \in Nat /\ Len(mail) \in Nat
  BY <1>0, Sizes DEF SubmitCommit, At, Done, Typed
<1>2. CASE Answer(a, "internal") /\ UNCHANGED <<editing, entries, dest>>
  BY <1>2, QuietAnswer DEF Tells, Answers
<1>3. CASE /\ \E c \in Contents : Receive(job[a].id, c)
           /\ job' = [job EXCEPT ![a].pc = "reload", ![a].made = Len(mail'), ![a].wrote = TRUE]
  <2>1. /\ RowsInv' /\ MailInv' /\ Onward /\ UNCHANGED <<rows, born, used, owner, dest>>
        /\ Len(mail') = Len(mail) + 1
    <3>0. PICK form : form = job[a].id
      OBVIOUS
    <3>1. PICK c \in Contents : Receive(form, c)
      BY <1>3, <3>0
    <3>2. form \in Nat
      BY <1>1, <3>0
    <3> QED
      BY <3>1, <3>2, Receiving
  <2>2. /\ Alone(a)
        /\ job'[a] = [job[a] EXCEPT !.pc = "reload", !.made = Len(mail'), !.wrote = TRUE]
    BY <1>3 DEF IInv, Alone
  <2>3. /\ Identity(a) /\ DOMAIN job'[a] = JobFields /\ job'[a].pc = "reload"
        /\ job'[a].answer = job[a].answer /\ job'[a].made = Len(mail') /\ job'[a].wrote = TRUE
        /\ job'[a].ask = job[a].ask /\ job'[a].put = job[a].put /\ job'[a].hold = job[a].hold
    BY <1>0, <2>2 DEF Typed, JobFields, Identity
  <2>4. Typed(a)' /\ Placed(a)'
    <3>1. job'[a].made \in 0 .. Len(mail') /\ job'[a].id \in 1 .. born'
      BY <1>1, <2>1, <2>3 DEF Identity
    <3>2. job'[a].hold \subseteq DOMAIN mail'
      BY <1>0, <2>1, <2>3 DEF Typed, Onward
    <3>3. job'[a].op = "submit"
      BY <1>1, <2>3 DEF Identity
    <3>4. job'[a].made \in 0 .. IF job'[a].op = "submit" THEN Len(mail') ELSE born'
      BY <3>1, <3>3
    <3>5. /\ DOMAIN job'[a].ask = RowFields /\ DOMAIN job'[a].put = RowFields
          /\ job'[a].answer \in Answers /\ job'[a].wrote \in BOOLEAN /\ job'[a].force \in BOOLEAN
      BY <1>0, <2>3 DEF Typed, Identity
    <3>6. Typed(a)'
      BY <2>3, <3>1, <3>2, <3>3, <3>4, <3>5 DEF Typed
    <3>7. Placed(a)'
      BY <2>3, <3>3 DEF Placed
    <3> QED
      BY <3>6, <3>7
  <2>5. Done(a)' /\ Merging(a)' /\ Exporting(a)'
    BY <1>1, <2>1, <2>3 DEF Done, Merging, Exporting, Identity
  <2> QED
    BY <2>1, <2>2, <2>3, <2>4, <2>5, AloneKeeps DEF JobInv, Identity
<1> QED
  BY <1>2, <1>3 DEF SubmitCommit

LEMMA PublishKeeps ==
  ASSUME IInv, NEW a \in Operators, Publish(a), UNCHANGED table
  PROVE  IInv'
<1>0. Typed(a) /\ Placed(a) /\ Done(a)
  BY Facts
<1>1. /\ job[a].pc = "publish" /\ job[a].op = "copy" /\ ~job[a].wrote /\ job[a].made = 0
      /\ UNCHANGED <<table, editing, entries>>
  BY <1>0 DEF Publish, Placed, Done
<1>2. CASE Answer(a, "conflict") /\ UNCHANGED dest
  BY <1>1, <1>2, QuietAnswer DEF Tells, Answers
<1>3. CASE /\ dest = <<>> \/ job[a].force
           /\ dest' = Append(dest, a)
           /\ job' = [job EXCEPT ![a].pc = "report", ![a].wrote = TRUE]
  <2>1. Alone(a) /\ job'[a] = [job[a] EXCEPT !.pc = "report", !.wrote = TRUE]
    BY <1>3 DEF IInv, Alone
  <2>2. /\ Identity(a) /\ DOMAIN job'[a] = JobFields /\ job'[a].pc = "report"
        /\ job'[a].answer = job[a].answer /\ job'[a].made = job[a].made /\ job'[a].wrote = TRUE
        /\ job'[a].ask = job[a].ask /\ job'[a].put = job[a].put /\ job'[a].hold = job[a].hold
    BY <1>0, <2>1 DEF Typed, JobFields, Identity
  <2>3. RowsInv' /\ MailInv' /\ Onward /\ UNCHANGED <<table, rows, born, used, owner, mail>>
    BY <1>1, QuietWorld DEF editing, entries
  <2>4. Typed(a)' /\ Placed(a)'
    BY <1>0, <1>1, <2>2, <2>3 DEF Typed, Placed, Identity
  <2>5. Done(a)' /\ Merging(a)' /\ Exporting(a)'
    BY <1>1, <2>2 DEF Done, Merging, Exporting, Identity, Changing
  <2>6. DestInv'
    <3>1. dest \in Seq(Operators \cup {Other}) /\ Other \notin Operators
      BY AdministrationAssumption DEF IInv, DestInv
    <3>2. /\ dest' \in Seq(Operators \cup {Other}) /\ Len(dest') = Len(dest) + 1
          /\ \A k \in 1 .. Len(dest) : dest'[k] = dest[k]
          /\ dest'[Len(dest')] = a
      BY <1>3, <3>1
    <3>3. \A b \in Operators : job[b].pc # "idle" => job'[b].pc # "idle" /\ job'[b].force = job[b].force
      BY <2>1, <2>2 DEF Alone, Identity
    <3>4. ASSUME NEW k \in 1 .. Len(dest'), dest'[k] \in Operators
          PROVE  job'[dest'[k]].pc # "idle"
      <4>1. CASE k \in 1 .. Len(dest)
        BY <3>2, <3>3, <3>4, <4>1 DEF IInv, DestInv
      <4>2. CASE k = Len(dest')
        BY <2>2, <3>2, <4>2
      <4> QED
        BY <3>1, <3>2, <4>1, <4>2
    <3>5. ASSUME NEW k \in 2 .. Len(dest')
          PROVE  dest'[k] # Other /\ job'[dest'[k]].force
      <4>1. CASE k \in 2 .. Len(dest)
        <5>1. /\ dest'[k] = dest[k] /\ dest[k] # Other /\ job[dest[k]].force
              /\ dest[k] \in Operators /\ job[dest[k]].pc # "idle"
          BY <3>1, <3>2, <4>1 DEF IInv, DestInv, OnlyForceReplaces
        <5> QED
          BY <3>3, <5>1
      <4>2. CASE k = Len(dest')
        <5>1. dest # <<>>
          BY <3>1, <3>2, <4>2
        <5> QED
          BY <1>3, <2>2, <3>1, <3>2, <4>2, <5>1 DEF Identity
      <4> QED
        BY <3>1, <3>2, <4>1, <4>2
    <3> QED
      BY <3>2, <3>4, <3>5 DEF DestInv, OnlyForceReplaces
  <2>7. \A b \in Operators \ {a} : SameJob(b) /\ Learns(b)
    BY <2>1, <2>3, AloneIsSame DEF Alone, Learns
  <2> QED
    BY <2>1, <2>3, <2>4, <2>5, <2>6, <2>7, StepKeeps DEF JobInv, Alone
<1> QED
  BY <1>1, <1>2, <1>3 DEF Publish

(***************************************************************************)
(* What others do: to the profiles, to the forms, to the inbox, to the     *)
(* destination of a copy.                                                  *)
(***************************************************************************)
LEMMA OwnersKeep ==
  ASSUME IInv, Assign \/ Release \/ DeleteOwner, UNCHANGED <<table, entries, dest>>
  PROVE  IInv'
<1>0. RowsInv /\ MailInv /\ DestInv
  BY DEF IInv
<1>1. /\ UNCHANGED <<table, born, job, dest>>
      /\ rows' = rows \/ DOMAIN rows' = {}
      /\ ~owner => ~owner'
  BY DEF Assign, Release, DeleteOwner
<1>2. RowsInv'
  <2>1. CASE Assign
    BY <1>0, <2>1 DEF Assign, RowsInv, RowsSound
  <2>2. CASE Release
    BY <1>0, <2>2 DEF Release, RowsInv, RowsSound
  <2>3. CASE DeleteOwner
    <3>1. table = "notification" /\ used = {}
      BY <1>0, <2>3 DEF DeleteOwner, RowsInv, Profiles
    <3>2. DOMAIN rows' = {} /\ owner' = FALSE /\ used' = {} /\ UNCHANGED <<table, born>>
      BY <1>1, <2>3, <3>1 DEF DeleteOwner
    <3> QED
      BY <1>0, <3>1, <3>2 DEF RowsInv, RowsSound
  <2> QED
    BY <2>1, <2>2, <2>3
<1>3. MailInv' /\ Onward
  BY <1>0, <1>1, MailStays, Sizes DEF RowsInv
<1>4. DestInv'
  BY <1>0, <1>1 DEF DestInv, OnlyForceReplaces
<1>5. \A b \in Operators : Learns(b)
  BY <1>1 DEF Learns
<1> QED
  BY <1>1, <1>2, <1>3, <1>4, <1>5, SurroundingsKeep

LEMMA VisitorKeeps ==
  ASSUME IInv, NEW f \in DOMAIN rows, NEW c \in Contents, Receive(f, c), UNCHANGED <<job, table>>
  PROVE  IInv'
<1>1. PICK form : form = f
  OBVIOUS
<1>2. form \in Nat /\ Receive(form, c)
  BY <1>1, Sizes
<1>3. /\ RowsInv' /\ MailInv' /\ Onward /\ UNCHANGED <<rows, born, used, owner, dest>>
  BY <1>2, Receiving
<1>4. DestInv'
  BY <1>3 DEF IInv, DestInv, OnlyForceReplaces
<1>5. \A b \in Operators : Learns(b)
  BY <1>3 DEF Learns
<1> QED
  BY <1>3, <1>4, <1>5, SurroundingsKeep

LEMMA OccupyKeeps ==
  ASSUME IInv, Occupy, UNCHANGED table
  PROVE  IInv'
<1>1. UNCHANGED <<job, table, editing, entries, rows>> /\ dest' = <<Other>>
  BY DEF Occupy, editing
<1>2. RowsInv' /\ MailInv' /\ Onward
  BY <1>1, QuietWorld
<1>3. /\ dest' \in Seq(Operators \cup {Other}) /\ Len(dest') = 1 /\ dest'[1] = Other
      /\ Other \notin Operators
  BY <1>1, AdministrationAssumption
<1>4. DestInv'
  BY <1>3 DEF DestInv, OnlyForceReplaces
<1>5. \A b \in Operators : Learns(b)
  BY <1>1 DEF Learns
<1> QED
  BY <1>1, <1>2, <1>4, <1>5, SurroundingsKeep

LEMMA StutterKeeps ==
  ASSUME IInv, UNCHANGED vars
  PROVE  IInv'
<1>1. UNCHANGED <<job, table, editing, entries, rows, dest>>
  BY DEF vars, editing
<1>2. RowsInv' /\ MailInv' /\ Onward
  BY <1>1, QuietWorld
<1>3. DestInv'
  BY <1>1 DEF IInv, DestInv, OnlyForceReplaces
<1>4. \A b \in Operators : Learns(b)
  BY <1>1 DEF Learns
<1> QED
  BY <1>1, <1>2, <1>3, <1>4, SurroundingsKeep

(***************************************************************************)
(* Every step, and every state.                                            *)
(***************************************************************************)
LEMMA EditsKeep ==
  ASSUME IInv, NEW a \in Operators, Edits(a), UNCHANGED <<table, entries, dest>>
  PROVE  IInv'
<1>1. CASE CreateCheck(a)
  BY <1>1, CreateCheckKeeps
<1>2. CASE CreateCommit(a)
  BY <1>2, CreateCommitKeeps
<1>3. CASE UpdateRead(a)
  BY <1>3, UpdateReadKeeps
<1>4. CASE UpdateCheck(a)
  BY <1>4, UpdateCheckKeeps
<1>5. CASE UpdateCommit(a)
  BY <1>5, UpdateCommitKeeps
<1>6. CASE Remove(a)
  BY <1>6, RemoveKeeps
<1>7. CASE RotateCommit(a)
  BY <1>7, RotateCommitKeeps
<1>8. CASE Reload(a)
  <2>1. UNCHANGED editing
    BY <1>8 DEF Reload
  <2> QED
    BY <1>8, <2>1, ReloadKeeps
<1>9. CASE Show(a) \/ RotateRead(a)
  <2>1. UNCHANGED editing
    BY <1>9 DEF Show, RotateRead
  <2> QED
    BY <1>9, <2>1, LooksUp
<1>10. CASE DeleteRead(a) \/ ProfileUsage(a) \/ DeleteConflict(a)
  <2>1. UNCHANGED editing
    BY <1>10 DEF DeleteRead, ProfileUsage, DeleteConflict
  <2> QED
    BY <1>10, <2>1, DeleteKeeps
<1> QED
  BY <1>1, <1>2, <1>3, <1>4, <1>5, <1>6, <1>7, <1>8, <1>9, <1>10 DEF Edits

LEMMA EntersKeep ==
  ASSUME IInv, NEW a \in Operators, Enters(a), UNCHANGED table
  PROVE  IInv'
<1>1. CASE Measure(a)
  BY <1>1, MeasureKeeps
<1>2. CASE Find(a)
  BY <1>2, FindKeeps
<1>3. CASE Preload(a)
  BY <1>3, PreloadKeeps
<1>4. CASE Quarantine(a)
  BY <1>4, QuarantineKeeps
<1>5. CASE Erase(a)
  BY <1>5, EraseKeeps
<1>6. CASE EraseFails(a)
  BY <1>6, EraseFailsKeeps
<1>7. CASE SubmitCommit(a)
  BY <1>7, SubmitCommitKeeps
<1>8. CASE Publish(a)
  BY <1>8, PublishKeeps
<1>9. CASE SubmitReload(a)
  <2>1. UNCHANGED <<editing, entries, dest>>
    BY <1>9 DEF SubmitReload
  <2> QED
    BY <1>9, <2>1, ReloadKeeps
<1>10. CASE Read(a) \/ SubmitRead(a) \/ FileRead(a)
  <2>1. UNCHANGED <<editing, entries, dest>>
    BY <1>10 DEF Read, SubmitRead, FileRead
  <2> QED
    BY <1>10, <2>1, LooksUp
<1>11. CASE FileOpen(a)
  <2>1. UNCHANGED <<editing, entries, dest>>
    BY <1>11 DEF FileOpen
  <2> QED
    BY <1>11, <2>1, FileOpenKeeps
<1> QED
  BY <1>1, <1>2, <1>3, <1>4, <1>5, <1>6, <1>7, <1>8, <1>9, <1>10, <1>11 DEF Enters

LEMMA NextKeeps ==
  ASSUME IInv, [AdministrationNext]_vars
  PROVE  IInv'
<1>1. CASE UNCHANGED vars
  BY <1>1, StutterKeeps
<1>2. CASE /\ (Assign \/ Release \/ DeleteOwner) /\ UNCHANGED <<entries, dest>>
           /\ UNCHANGED table
  BY <1>2, OwnersKeep
<1>3. CASE /\ UNCHANGED <<job, table>>
           /\ \E f \in DOMAIN rows, c \in Contents : Receive(f, c)
  BY <1>3, VisitorKeeps
<1>4. CASE Occupy /\ UNCHANGED table
  BY <1>4, OccupyKeeps
<1>5. ASSUME NEW a \in Operators, UNCHANGED table,
             \/ /\ Begin(a) \/ BeginEntry(a) \/ Parse(a) \/ Report(a) \/ Fails(a)
                /\ UNCHANGED <<editing, entries, dest>>
             \/ Edits(a) /\ UNCHANGED <<entries, dest>>
             \/ Enters(a)
      PROVE  IInv'
  <2>1. CASE (Begin(a) \/ BeginEntry(a)) /\ UNCHANGED <<editing, entries, dest>>
    BY <1>5, <2>1, BeginKeeps
  <2>2. CASE (Parse(a) \/ Report(a) \/ Fails(a)) /\ UNCHANGED <<editing, entries, dest>>
    BY <1>5, <2>2, CommonKeeps
  <2>3. CASE Edits(a) /\ UNCHANGED <<entries, dest>>
    BY <1>5, <2>3, EditsKeep
  <2>4. CASE Enters(a)
    BY <1>5, <2>4, EntersKeep
  <2> QED
    BY <1>5, <2>1, <2>2, <2>3, <2>4
<1> QED
  BY <1>1, <1>2, <1>3, <1>4, <1>5 DEF AdministrationNext

LEMMA InitKeeps ==
  ASSUME AdministrationInit
  PROVE  IInv
<1>1. PICK n \in Names, s \in Secrets :
        rows = [i \in {1} |-> [name |-> n, secret |-> IF table = "notification" THEN Blank ELSE s]]
  BY DEF AdministrationInit, EditingInit
<1>2. /\ table \in Tables /\ born = 1 /\ owner = TRUE /\ used \in {{}, {1}}
      /\ used # {} => table \in Profiles
      /\ MaxRows \in Nat \ {0} /\ Blank \notin Secrets
  BY EditingAssumption DEF AdministrationInit, EditingInit
<1>3. RowsInv
  BY <1>1, <1>2 DEF RowsInv, RowsSound
<1>4. mail \in Seq([form : Nat, content : Contents])
  <2>1. CASE table = "form"
    <3>1. PICK c \in Contents : mail = <<[form |-> 1, content |-> c]>>
      BY <2>1 DEF AdministrationInit
    <3>2. [form |-> 1, content |-> c] \in [form : Nat, content : Contents]
      OBVIOUS
    <3> QED
      BY <3>1, <3>2
  <2>2. CASE table # "form"
    BY <2>2 DEF AdministrationInit
  <2> QED
    BY <2>1, <2>2
<1>5. MailInv
  BY <1>4 DEF AdministrationInit, MailInv, OutOfPlace
<1>6. DestInv
  BY DEF AdministrationInit, DestInv, OnlyForceReplaces
<1>7. job = [a \in Operators |-> Idle]
  BY DEF AdministrationInit, ConsoleInit
<1>8. ASSUME NEW a \in Operators
      PROVE  JobInv(a)
  <2>1. job[a] = Idle
    BY <1>7
  <2>2. Typed(a)
    BY <1>2, <2>1 DEF Typed, Idle, Nothing, JobFields, RowFields, Answers
  <2>3. Placed(a) /\ Done(a) /\ Merging(a) /\ Exporting(a)
    BY <2>1 DEF Placed, Done, Merging, Exporting, Idle, Changing
  <2> QED
    BY <2>2, <2>3 DEF JobInv
<1> QED
  BY <1>3, <1>5, <1>6, <1>7, <1>8 DEF IInv

LEMMA AlwaysIInv == AdministrationSpec => []IInv
BY InitKeeps, NextKeeps, PTL DEF AdministrationSpec

(***************************************************************************)
(* Where the files are.                                                    *)
(***************************************************************************)

\* A deletion has its entries and their files to itself, and the files that it
\* holds are those missing from their places.
FilesInv ==
  /\ FilesAccounted
  /\ \A a \in Operators :
       /\ job[a].pc = "erase" =>
            /\ job[a].found \subseteq inbox /\ job[a].hold \subseteq job[a].found
            /\ job[a].found \cap stored = {}
       /\ job[a].hold # {} => job[a].pc \in {"erase", "done"}
  /\ \A a, b \in Operators : a # b =>
       /\ job[a].hold \cap job[b].hold = {}
       /\ job[a].pc = "erase" => job[b].pc # "erase"

\* What the steps that move no files do to each job.
Steady(b) ==
  \/ job'[b].pc = job[b].pc /\ job'[b].found = job[b].found /\ job'[b].hold = job[b].hold
  \/ /\ job[b].pc \notin {"erase", "done"} /\ job'[b].pc # "erase"
     /\ job'[b].hold \in {{}, job[b].hold}

LEMMA SteadyKeeps ==
  ASSUME FilesInv, UNCHANGED <<inbox, stored>>, \A b \in Operators : Steady(b)
  PROVE  FilesInv'
<1>1. \A b \in Operators : job'[b].hold = job[b].hold
  BY DEF FilesInv, Steady
<1>2. {job'[b].hold : b \in Operators} = {job[b].hold : b \in Operators}
  BY <1>1
<1>3. FilesAccounted'
  BY <1>2 DEF FilesInv, FilesAccounted
<1>4. \A b \in Operators : job'[b].pc = "erase" => job[b].pc = "erase" /\ job'[b].found = job[b].found
  BY DEF Steady
<1>5. \A b \in Operators : job[b].pc \in {"erase", "done"} => job'[b].pc = job[b].pc
  BY DEF Steady
<1> QED
  BY <1>1, <1>3, <1>4, <1>5 DEF FilesInv

\* A job that goes on without touching files.
LEMMA GoesOn ==
  ASSUME IInv, NEW a \in Operators, job[a].pc \notin {"erase", "done"},
         NEW next, job' = [job EXCEPT ![a] = next],
         next.pc # "erase", next.hold \in {{}, job[a].hold}
  PROVE  \A b \in Operators : Steady(b)
<1>1. job'[a] = next /\ \A b \in Operators \ {a} : job'[b] = job[b]
  BY DEF IInv
<1> QED
  BY <1>1 DEF Steady

LEMMA SteadyAnswer ==
  ASSUME IInv, NEW a \in Operators, job[a].pc \notin {"erase", "done"}, NEW answer, Answer(a, answer)
  PROVE  \A b \in Operators : Steady(b)
BY Answering DEF Alone, Steady

LEMMA SteadyGoto ==
  ASSUME IInv, NEW a \in Operators, job[a].pc \notin {"erase", "done"},
         NEW pc, pc # "erase", Goto(a, pc)
  PROVE  \A b \in Operators : Steady(b)
BY Going DEF Alone, Steady

LEMMA SteadyCommon ==
  ASSUME IInv, NEW a \in Operators,
         Begin(a) \/ BeginEntry(a) \/ Parse(a) \/ Report(a) \/ Fails(a)
  PROVE  \A b \in Operators : Steady(b)
<1>1. CASE Begin(a) \/ BeginEntry(a)
  <2>1. PICK way, op, id, ask, force, seen : Open(a, way, op, id, ask, force, seen)
    BY <1>1 DEF Begin, BeginEntry
  <2> DEFINE next == [Idle EXCEPT !.by = way, !.op = op, !.id = id, !.ask = ask,
                                  !.pc = IF way = "page" THEN "begin" ELSE "parse",
                                  !.force = force, !.seen = seen]
  <2>2. job[a].pc = "idle" /\ job' = [job EXCEPT ![a] = next]
    BY <2>1 DEF Open
  <2>3. next.pc \in {"begin", "parse"} /\ next.hold = {}
    BY DEF Idle
  <2> HIDE DEF next
  <2> QED
    BY <2>2, <2>3, GoesOn
<1>2. CASE Parse(a) \/ Report(a) \/ Fails(a)
  BY <1>2, SteadyAnswer, SteadyGoto DEF Parse, Report, Fails
<1> QED
  BY <1>1, <1>2

LEMMA SteadyEdits ==
  ASSUME IInv, NEW a \in Operators, Edits(a)
  PROVE  \A b \in Operators : Steady(b)
<1>0. DOMAIN job[a] = JobFields
  BY DEF IInv, JobInv, Typed
<1>1. CASE \/ Show(a) \/ Reload(a) \/ RotateRead(a)
           \/ DeleteRead(a) \/ ProfileUsage(a) \/ DeleteConflict(a)
  <2>1. job[a].pc \notin {"erase", "done"}
    BY <1>1 DEF Show, Reload, RotateRead, DeleteRead, ProfileUsage, DeleteConflict, At
  <2>2. \/ \E answer : Answer(a, answer)
        \/ \E pc \in {"report", "commit", "usage", "remove", "conflict"} : Goto(a, pc)
    BY <1>1 DEF Show, Reload, RotateRead, DeleteRead, ProfileUsage, DeleteConflict, InUse
  <2> QED
    BY <2>1, <2>2, SteadyAnswer, SteadyGoto
<1>2. CASE CreateCheck(a) \/ UpdateRead(a) \/ UpdateCheck(a)
  <2>1. job[a].pc \notin {"erase", "done"}
    BY <1>2 DEF CreateCheck, UpdateRead, UpdateCheck, At
  <2>2. \/ \E answer : Answer(a, answer)
        \/ \E put, pc : /\ pc \in {"check", "commit"}
                        /\ job' = [job EXCEPT ![a].put = put, ![a].pc = pc]
        \/ \E name : job' = [job EXCEPT ![a].pc = "commit", ![a].put.name = name]
    BY <1>2 DEF CreateCheck, UpdateRead, UpdateCheck
  <2>3. ASSUME NEW put, NEW pc \in {"check", "commit"},
               job' = [job EXCEPT ![a].put = put, ![a].pc = pc]
        PROVE  \A b \in Operators : Steady(b)
    <3> DEFINE next == [job[a] EXCEPT !.put = put, !.pc = pc]
    <3>1. job' = [job EXCEPT ![a] = next]
      BY <2>3
    <3>2. next.pc = pc /\ next.hold = job[a].hold
      BY <1>0 DEF JobFields
    <3> HIDE DEF next
    <3> QED
      BY <2>1, <3>1, <3>2, GoesOn
  <2>4. ASSUME NEW name, job' = [job EXCEPT ![a].pc = "commit", ![a].put.name = name]
        PROVE  \A b \in Operators : Steady(b)
    <3> DEFINE next == [job[a] EXCEPT !.pc = "commit", !.put.name = name]
    <3>1. job' = [job EXCEPT ![a] = next]
      BY <2>4
    <3>2. next.pc = "commit" /\ next.hold = job[a].hold
      BY <1>0 DEF JobFields
    <3> HIDE DEF next
    <3> QED
      BY <2>1, <3>1, <3>2, GoesOn
  <2> QED
    BY <2>1, <2>2, <2>3, <2>4, SteadyAnswer
<1>3. CASE CreateCommit(a) \/ UpdateCommit(a)
  <2>1. job[a].pc \notin {"erase", "done"}
    BY <1>3 DEF CreateCommit, UpdateCommit, At
  <2>2. \/ \E answer : Answer(a, answer)
        \/ Goto(a, "reload")
        \/ \E made, pc : /\ pc \in {"reload", "report"}
                         /\ job' = [job EXCEPT ![a].made = made, ![a].wrote = TRUE, ![a].pc = pc]
        \/ Store(a, job[a].id, job[a].put, "reload")
    BY <1>3 DEF CreateCommit, UpdateCommit
  <2>3. ASSUME NEW made, NEW pc \in {"reload", "report"},
               job' = [job EXCEPT ![a].made = made, ![a].wrote = TRUE, ![a].pc = pc]
        PROVE  \A b \in Operators : Steady(b)
    <3> DEFINE next == [job[a] EXCEPT !.made = made, !.wrote = TRUE, !.pc = pc]
    <3>1. job' = [job EXCEPT ![a] = next]
      BY <2>3
    <3>2. next.pc = pc /\ next.hold = job[a].hold
      BY <1>0 DEF JobFields
    <3> HIDE DEF next
    <3> QED
      BY <2>1, <3>1, <3>2, GoesOn
  <2>4. ASSUME Store(a, job[a].id, job[a].put, "reload")
        PROVE  \A b \in Operators : Steady(b)
    <3> DEFINE seen == SeenBy(a, job[a].id, job[a].put.secret)
    <3>1. /\ job' = [seen EXCEPT ![a].wrote = TRUE, ![a].pc = "reload"]
          /\ seen = [b \in Operators |-> seen[b]] /\ seen[a] = job[a]
      BY <2>4 DEF Store, SeenBy
    <3>2. \A b \in Operators \ {a} : job'[b] = seen[b]
      BY <3>1
    <3>3. job'[a] = [job[a] EXCEPT !.wrote = TRUE, !.pc = "reload"]
      BY <3>1
    <3>4. ASSUME NEW b \in Operators \ {a}
          PROVE  Steady(b)
      <4>1. \/ job'[b] = job[b]
            \/ job'[b] = [job[b] EXCEPT !.seen = @ \cup {job[a].put.secret}]
        BY <3>2 DEF SeenBy
      <4>2. DOMAIN job[b] = JobFields
        BY DEF IInv, JobInv, Typed
      <4> QED
        BY <4>1, <4>2 DEF Steady, JobFields
    <3>5. Steady(a)
      BY <1>0, <2>1, <3>3 DEF Steady, JobFields
    <3> QED
      BY <3>4, <3>5
  <2> QED
    BY <2>1, <2>2, <2>3, <2>4, SteadyAnswer, SteadyGoto
<1>4. CASE RotateCommit(a) \/ Remove(a)
  <2>1. job[a].pc \notin {"erase", "done"}
    BY <1>4 DEF RotateCommit, Remove, At
  <2>2. \/ \E answer : Answer(a, answer)
        \/ Goto(a, "conflict")
        \/ \E wrote, pc : /\ pc \in {"reload", "report"}
                          /\ job' = [job EXCEPT ![a].pc = pc, ![a].wrote = wrote]
    BY <1>4 DEF RotateCommit, Remove, InUse
  <2>3. ASSUME NEW wrote, NEW pc \in {"reload", "report"},
               job' = [job EXCEPT ![a].pc = pc, ![a].wrote = wrote]
        PROVE  \A b \in Operators : Steady(b)
    <3> DEFINE next == [job[a] EXCEPT !.pc = pc, !.wrote = wrote]
    <3>1. job' = [job EXCEPT ![a] = next]
      BY <2>3
    <3>2. next.pc = pc /\ next.hold = job[a].hold
      BY <1>0 DEF JobFields
    <3> HIDE DEF next
    <3> QED
      BY <2>1, <3>1, <3>2, GoesOn
  <2> QED
    BY <2>1, <2>2, <2>3, SteadyAnswer, SteadyGoto
<1> QED
  BY <1>1, <1>2, <1>3, <1>4 DEF Edits

LEMMA SteadyEnters ==
  ASSUME IInv, NEW a \in Operators,
         \/ Read(a) \/ Measure(a) \/ Find(a) \/ Preload(a) \/ SubmitRead(a) \/ SubmitReload(a)
         \/ FileRead(a) \/ FileOpen(a) \/ Publish(a)
  PROVE  \A b \in Operators : Steady(b)
<1>0. DOMAIN job[a] = JobFields /\ job[a].pc \notin {"erase", "done"}
  BY DEF IInv, JobInv, Typed, Read, Measure, Find, Preload, SubmitRead, SubmitReload, FileRead,
         FileOpen, Publish, At
<1>1. CASE \/ Read(a) \/ Preload(a) \/ SubmitRead(a) \/ SubmitReload(a)
           \/ FileRead(a) \/ FileOpen(a)
  <2>1. \/ \E answer : Answer(a, answer)
        \/ \E pc \in {"report", "commit", "open", "publish"} : Goto(a, pc)
    BY <1>1 DEF Read, Preload, SubmitRead, SubmitReload, FileRead, FileOpen
  <2> QED
    BY <1>0, <2>1, SteadyAnswer, SteadyGoto
<1>2. CASE Measure(a) \/ Find(a) \/ Publish(a)
  <2>1. \/ \E answer : Answer(a, answer)
        \/ job' = [job EXCEPT ![a].pc = "find", ![a].seen = inbox]
        \/ \E found : job' = [job EXCEPT ![a].pc = "preload", ![a].found = found]
        \/ job' = [job EXCEPT ![a].pc = "report", ![a].wrote = TRUE]
    BY <1>2 DEF Measure, Find, Publish
  <2>2. ASSUME NEW found, job' = [job EXCEPT ![a].pc = "preload", ![a].found = found]
        PROVE  \A b \in Operators : Steady(b)
    <3> DEFINE next == [job[a] EXCEPT !.pc = "preload", !.found = found]
    <3>1. job' = [job EXCEPT ![a] = next]
      BY <2>2
    <3>2. next.pc = "preload" /\ next.hold = job[a].hold
      BY <1>0 DEF JobFields
    <3> HIDE DEF next
    <3> QED
      BY <1>0, <3>1, <3>2, GoesOn
  <2>3. CASE job' = [job EXCEPT ![a].pc = "find", ![a].seen = inbox]
    <3> DEFINE next == [job[a] EXCEPT !.pc = "find", !.seen = inbox]
    <3>1. job' = [job EXCEPT ![a] = next]
      BY <2>3
    <3>2. next.pc = "find" /\ next.hold = job[a].hold
      BY <1>0 DEF JobFields
    <3> HIDE DEF next
    <3> QED
      BY <1>0, <3>1, <3>2, GoesOn
  <2>4. CASE job' = [job EXCEPT ![a].pc = "report", ![a].wrote = TRUE]
    <3> DEFINE next == [job[a] EXCEPT !.pc = "report", !.wrote = TRUE]
    <3>1. job' = [job EXCEPT ![a] = next]
      BY <2>4
    <3>2. next.pc = "report" /\ next.hold = job[a].hold
      BY <1>0 DEF JobFields
    <3> HIDE DEF next
    <3> QED
      BY <1>0, <3>1, <3>2, GoesOn
  <2> QED
    BY <1>0, <2>1, <2>2, <2>3, <2>4, SteadyAnswer
<1> QED
  BY <1>1, <1>2

\* The files that the jobs hold, when one of them changes what it holds.
Others(a) == UNION {job[b].hold : b \in Operators \ {a}}

LEMMA HeldBy ==
  ASSUME FilesInv, NEW a \in Operators
  PROVE  /\ UNION {job[b].hold : b \in Operators} = Others(a) \cup job[a].hold
         /\ Others(a) \cap job[a].hold = {}
BY DEF FilesInv, Others

LEMMA HeldAfter ==
  ASSUME NEW a \in Operators, Alone(a)
  PROVE  UNION {job'[b].hold : b \in Operators} = Others(a) \cup job'[a].hold
BY DEF Alone, Others

\* From the jobs of the others and what became of this one to the whole.
LEMMA FilesMoved ==
  ASSUME FilesInv, NEW a \in Operators, Alone(a),
         stored' = inbox' \ (Others(a) \cup job'[a].hold),
         job'[a].hold \cap Others(a) = {},
         job'[a].hold # {} => job'[a].pc \in {"erase", "done"},
         \A b \in Operators \ {a} : job[b].pc # "erase",
         job'[a].pc = "erase" =>
           /\ job'[a].found \subseteq inbox' /\ job'[a].hold \subseteq job'[a].found
           /\ job'[a].found \cap stored' = {}
  PROVE  FilesInv'
<1>1. FilesAccounted'
  BY HeldAfter DEF FilesAccounted
<1>2. \A b \in Operators \ {a} : job'[b] = job[b] /\ job[b].hold \subseteq Others(a)
  BY DEF Alone, Others
<1>3. ASSUME NEW b \in Operators
      PROVE  /\ job'[b].pc = "erase" =>
                  /\ job'[b].found \subseteq inbox' /\ job'[b].hold \subseteq job'[b].found
                  /\ job'[b].found \cap stored' = {}
             /\ job'[b].hold # {} => job'[b].pc \in {"erase", "done"}
  BY <1>2 DEF FilesInv
<1>4. ASSUME NEW b \in Operators, NEW c \in Operators, b # c
      PROVE  /\ job'[b].hold \cap job'[c].hold = {}
             /\ job'[b].pc = "erase" => job'[c].pc # "erase"
  <2>1. CASE b = a
    BY <1>2, <1>4, <2>1
  <2>2. CASE c = a
    BY <1>2, <1>4, <2>2
  <2>3. CASE b # a /\ c # a
    BY <1>2, <1>4, <2>3 DEF FilesInv
  <2> QED
    BY <2>1, <2>2, <2>3
<1> QED
  BY <1>1, <1>3, <1>4 DEF FilesInv

LEMMA QuarantineMoves ==
  ASSUME IInv, FilesInv, NEW a \in Operators, Quarantine(a)
  PROVE  FilesInv'
<1>0. /\ DOMAIN job[a] = JobFields /\ job[a].pc = "begin" /\ inbox' = inbox
      /\ \A b \in Operators : job[b].pc # "erase"
  BY DEF IInv, JobInv, Typed, Quarantine, Writable
<1>1. CASE Answer(a, "notfound") /\ UNCHANGED <<stored, moved>>
  <2>1. \A b \in Operators : Steady(b)
    BY <1>0, <1>1, SteadyAnswer
  <2> QED
    BY <1>0, <1>1, <2>1, SteadyKeeps
<1>2. ASSUME NEW doomed, doomed \subseteq inbox,
             job' = [job EXCEPT ![a].pc = "erase", ![a].found = doomed,
                                ![a].hold = doomed \cap stored],
             stored' = stored \ doomed
      PROVE  FilesInv'
  <2>1. Alone(a) /\ job'[a] = [job[a] EXCEPT !.pc = "erase", !.found = doomed,
                                             !.hold = doomed \cap stored]
    BY <1>2 DEF IInv, Alone
  <2>2. job'[a].pc = "erase" /\ job'[a].found = doomed /\ job'[a].hold = doomed \cap stored
    BY <1>0, <2>1 DEF JobFields
  <2>3. stored = inbox \ Others(a)
    BY <1>0, HeldBy DEF FilesInv, FilesAccounted
  <2>4. stored' = inbox' \ (Others(a) \cup job'[a].hold)
    BY <1>0, <1>2, <2>2, <2>3
  <2> QED
    BY <1>0, <1>2, <2>1, <2>2, <2>3, <2>4, FilesMoved
<1> QED
  BY <1>1, <1>2 DEF Quarantine

LEMMA EraseMoves ==
  ASSUME IInv, FilesInv, NEW a \in Operators, Erase(a)
  PROVE  FilesInv'
<1>0. /\ DOMAIN job[a] = JobFields /\ job[a].pc = "erase"
      /\ inbox' = inbox \ job[a].found /\ stored' = stored
      /\ job[a].found \subseteq inbox /\ job[a].hold \subseteq job[a].found
      /\ job[a].found \cap stored = {}
      /\ \A b \in Operators \ {a} : job[b].pc # "erase"
  BY DEF IInv, JobInv, Typed, Erase, FilesInv
<1>1. Alone(a) /\ job'[a] = [job[a] EXCEPT !.pc = "report", !.hold = {}, !.wrote = TRUE]
  BY DEF Erase, IInv, Alone
<1>2. job'[a].pc = "report" /\ job'[a].hold = {}
  BY <1>0, <1>1 DEF JobFields
<1>3. stored = inbox \ (Others(a) \cup job[a].hold)
  BY HeldBy DEF FilesInv, FilesAccounted
<1>4. stored' = inbox' \ (Others(a) \cup job'[a].hold)
  BY <1>0, <1>2, <1>3
<1> QED
  BY <1>0, <1>1, <1>2, <1>4, FilesMoved

LEMMA EraseFailsMoves ==
  ASSUME IInv, FilesInv, NEW a \in Operators, EraseFails(a)
  PROVE  FilesInv'
<1>0. /\ DOMAIN job[a] = JobFields /\ job[a].pc = "erase" /\ inbox' = inbox
      /\ job[a].hold \subseteq inbox
      /\ \A b \in Operators \ {a} : job[b].pc # "erase"
  BY DEF IInv, JobInv, Typed, EraseFails, FilesInv
<1>1. stored = inbox \ (Others(a) \cup job[a].hold) /\ Others(a) \cap job[a].hold = {}
  BY HeldBy DEF FilesInv, FilesAccounted
<1>2. ASSUME Alone(a), stored' = stored \cup job[a].hold, job'[a].hold = {},
             job'[a].pc # "erase"
      PROVE  FilesInv'
  <2>1. stored' = inbox' \ (Others(a) \cup job'[a].hold)
    BY <1>0, <1>1, <1>2
  <2> QED
    BY <1>0, <1>2, <2>1, FilesMoved
<1>3. CASE /\ stored' = stored \cup job[a].hold
           /\ job' = [job EXCEPT ![a].pc = "begin", ![a].hold = {}, ![a].found = {}]
  <2>1. Alone(a) /\ job'[a] = [job[a] EXCEPT !.pc = "begin", !.hold = {}, !.found = {}]
    BY <1>3 DEF IInv, Alone
  <2>2. job'[a].pc = "begin" /\ job'[a].hold = {}
    BY <1>0, <2>1 DEF JobFields
  <2> QED
    BY <1>2, <1>3, <2>1, <2>2
<1>4. CASE stored' = stored \cup job[a].hold /\ Answer(a, "internal")
  BY <1>2, <1>4, Answering
<1>5. CASE stored' = stored /\ End(a, "internal", job[a].hold)
  <2>1. Alone(a) /\ job'[a].pc = "done" /\ job'[a].hold = job[a].hold
    BY <1>5, Ending
  <2>2. stored' = inbox' \ (Others(a) \cup job'[a].hold)
    BY <1>0, <1>1, <1>5, <2>1
  <2> QED
    BY <1>0, <1>1, <2>1, <2>2, FilesMoved
<1> QED
  BY <1>3, <1>4, <1>5 DEF EraseFails

\* An entry that is received is one that no deletion knows.
LEMMA ReceiveMoves ==
  ASSUME IInv, FilesInv, NEW form, NEW content, Receive(form, content),
         \A b \in Operators : Steady(b)
  PROVE  FilesInv'
<1> DEFINE new == Len(mail')
<1>1. /\ inbox' = inbox \cup {new} /\ stored' = stored \cup {new} /\ new \notin DOMAIN mail
  <2>1. /\ inbox' = inbox \cup {new} /\ stored' = stored \cup {new}
        /\ mail' = Append(mail, [form |-> form, content |-> content])
    BY DEF Receive
  <2>2. new = Len(mail) + 1
    BY <2>1 DEF IInv, MailInv
  <2> QED
    BY <2>1, <2>2, Sizes
<1> HIDE DEF new
<1>2. \A b \in Operators : job'[b].hold = job[b].hold /\ job[b].hold \subseteq DOMAIN mail
  BY DEF FilesInv, Steady, IInv, JobInv, Typed
<1>3. UNION {job'[b].hold : b \in Operators} = UNION {job[b].hold : b \in Operators}
  BY <1>2
<1>4. new \notin UNION {job[b].hold : b \in Operators}
  BY <1>1, <1>2
<1>5. FilesAccounted'
  BY <1>1, <1>3, <1>4 DEF FilesInv, FilesAccounted
<1>6. \A b \in Operators : job'[b].pc = "erase" => job[b].pc = "erase" /\ job'[b].found = job[b].found
  BY DEF Steady
<1>7. \A b \in Operators : job[b].pc \in {"erase", "done"} => job'[b].pc = job[b].pc
  BY DEF Steady
<1>8. inbox \subseteq DOMAIN mail
  BY DEF IInv, MailInv
<1>9. \A b \in Operators : job'[b].pc = "erase" =>
        /\ job'[b].found \subseteq inbox' /\ job'[b].hold \subseteq job'[b].found
        /\ job'[b].found \cap stored' = {}
  BY <1>1, <1>2, <1>6, <1>8 DEF FilesInv
<1> QED
  BY <1>2, <1>5, <1>6, <1>7, <1>9 DEF FilesInv

LEMMA SubmitMoves ==
  ASSUME IInv, FilesInv, NEW a \in Operators, SubmitCommit(a)
  PROVE  FilesInv'
<1>0. DOMAIN job[a] = JobFields /\ job[a].pc = "commit"
  BY DEF IInv, JobInv, Typed, SubmitCommit, At
<1>1. CASE Answer(a, "internal") /\ UNCHANGED entries
  <2>1. \A b \in Operators : Steady(b)
    BY <1>0, <1>1, SteadyAnswer
  <2> QED
    BY <1>1, <2>1, SteadyKeeps DEF entries
<1>2. ASSUME NEW made, NEW form, NEW content, Receive(form, content),
             job' = [job EXCEPT ![a].pc = "reload", ![a].made = made, ![a].wrote = TRUE]
      PROVE  FilesInv'
  <2> DEFINE next == [job[a] EXCEPT !.pc = "reload", !.made = made, !.wrote = TRUE]
  <2>1. job' = [job EXCEPT ![a] = next]
    BY <1>2
  <2>2. next.pc = "reload" /\ next.hold = job[a].hold
    BY <1>0 DEF JobFields
  <2> HIDE DEF next
  <2>3. \A b \in Operators : Steady(b)
    BY <1>0, <2>1, <2>2, GoesOn
  <2> QED
    BY <1>2, <2>3, ReceiveMoves
<1> QED
  BY <1>1, <1>2 DEF SubmitCommit

LEMMA NextMoves ==
  ASSUME IInv, FilesInv, [AdministrationNext]_vars
  PROVE  FilesInv'
<1>1. CASE job' = job /\ UNCHANGED <<inbox, stored>>
  BY <1>1, SteadyKeeps DEF Steady
<1>2. CASE job' = job /\ \E f \in DOMAIN rows, c \in Contents : Receive(f, c)
  BY <1>2, ReceiveMoves DEF Steady
<1>3. ASSUME NEW a \in Operators, UNCHANGED <<inbox, stored>>,
             \/ Begin(a) \/ BeginEntry(a) \/ Parse(a) \/ Report(a) \/ Fails(a)
             \/ Edits(a)
      PROVE  FilesInv'
  BY <1>3, SteadyCommon, SteadyEdits, SteadyKeeps
<1>4. ASSUME NEW a \in Operators, Enters(a)
      PROVE  FilesInv'
  <2>1. CASE \/ Read(a) \/ Measure(a) \/ Find(a) \/ Preload(a) \/ SubmitRead(a) \/ SubmitReload(a)
             \/ FileRead(a) \/ FileOpen(a) \/ Publish(a)
    <3>1. UNCHANGED <<inbox, stored>>
      BY <2>1 DEF Read, Measure, Find, Preload, SubmitRead, SubmitReload, FileRead, FileOpen,
                  Publish, entries
    <3> QED
      BY <2>1, <3>1, SteadyEnters, SteadyKeeps
  <2> QED
    BY <1>4, <2>1, QuarantineMoves, EraseMoves, EraseFailsMoves, SubmitMoves DEF Enters
<1>5. \/ job' = job /\ UNCHANGED <<inbox, stored>>
      \/ job' = job /\ \E f \in DOMAIN rows, c \in Contents : Receive(f, c)
      \/ \E a \in Operators :
           \/ /\ UNCHANGED <<inbox, stored>>
              /\ Begin(a) \/ BeginEntry(a) \/ Parse(a) \/ Report(a) \/ Fails(a) \/ Edits(a)
           \/ Enters(a)
  BY DEF AdministrationNext, vars, entries, Assign, Release, DeleteOwner, Occupy
<1> QED
  BY <1>1, <1>2, <1>3, <1>4, <1>5

LEMMA InitMoves == AdministrationInit => FilesInv
<1> SUFFICES ASSUME AdministrationInit
             PROVE  FilesInv
  OBVIOUS
<1>1. \A a \in Operators : job[a].pc = "idle" /\ job[a].hold = {}
  BY DEF AdministrationInit, ConsoleInit, Idle
<1>2. stored = inbox
  BY DEF AdministrationInit
<1>3. FilesAccounted
  BY <1>1, <1>2 DEF FilesAccounted
<1> QED
  BY <1>1, <1>3 DEF FilesInv

LEMMA AlwaysFilesInv == AdministrationSpec => [](IInv /\ FilesInv)
BY InitKeeps, NextKeeps, InitMoves, NextMoves, PTL DEF AdministrationSpec

\* Whatever operators, visitors and other programs do in whatever order, the
\* records, entries, files and copies are well-formed: names stay unique and
\* profiles in use stay (internal/integrations), a captcha key is never
\* cleared, the file of every entry is in its place or in the quarantine of a
\* deletion that is not over or was cut short (internal/forms/management.go,
\* upload_deletions.go), and a copy replaces only by --force.
THEOREM AdministrationInvariant == AdministrationSpec => []Inv
<1>1. IInv /\ FilesInv => Inv
  <2> SUFFICES ASSUME IInv, FilesInv PROVE Inv
    OBVIOUS
  <2>1. RowsSound /\ FilesAccounted /\ OnlyForceReplaces
    BY DEF IInv, RowsInv, DestInv, FilesInv
  <2>2. TypeOK
    BY DEF TypeOK, IInv, RowsInv, MailInv, JobInv, Typed
  <2> QED
    BY <2>1, <2>2 DEF Inv
<1> QED
  BY <1>1, AlwaysFilesInv, PTL

\* No answer of a page or a command is a lie, however many operations of
\* others commit between its reading, its transaction and its second reading
\* (the exit codes of internal/cli, the statuses of internal/http).
THEOREM AdministrationToldTheTruth == AdministrationSpec => []ToldTheTruth
<1>1. IInv => ToldTheTruth
  BY DEF IInv, JobInv, Done, Told, ToldTheTruth
<1> QED
  BY <1>1, AlwaysIInv, PTL

\* An update that was given no secret writes one that its target held at some
\* moment since the update began (the merges of internal/integrations and
\* internal/forms): it clears none and brings none back from before.
THEOREM AdministrationSecretsKept == AdministrationSpec => []SecretsKept
<1>1. IInv => SecretsKept
  BY DEF IInv, JobInv, Merging, SecretsKept, At
<1> QED
  BY <1>1, AlwaysIInv, PTL

\* The three readings of an export (internal/forms/export.go) add up, with
\* entries arriving and being deleted between them: what is sent is complete
\* and within the limits.
THEOREM AdministrationExportFaithful == AdministrationSpec => []ExportFaithful
<1>1. IInv => ExportFaithful
  BY DEF IInv, JobInv, Exporting, ExportFaithful, At
<1> QED
  BY <1>1, AlwaysIInv, PTL
=============================================================================
