------------------------------ MODULE Editing ------------------------------
(***************************************************************************)
(* Creating, changing and deleting what an endpoint is configured with,    *)
(* through a page or a command: mailer profiles, captcha profiles, forms   *)
(* and email notifications (internal/integrations, internal/forms, and     *)
(* their handlers and commands).                                           *)
(*                                                                         *)
(* The four differ in what is unique, in what a value left blank means, in *)
(* what is looked up again and in what a deletion must not leave behind;   *)
(* "table" says which of them the rows are.  A name is what has to be      *)
(* unique: the name of a profile, the slug of a form.                      *)
(***************************************************************************)
EXTENDS Console

CONSTANTS
  Names,    \* names the validation accepts
  Secrets,  \* SMTP passwords, captcha keys, webhook secrets
  MaxRows   \* bound: rows ever created

ASSUME EditingAssumption == MaxRows \in Nat \ {0} /\ Blank \notin Secrets

VARIABLES
  table,  \* what the rows are
  rows,   \* id -> name and secret; an id is never given twice
  born,   \* ids given so far
  used,   \* profiles that forms or notifications name
  owner   \* the form of the notifications still exists

editing == <<rows, born, used, owner>>

Tables == {"mailer", "captcha", "form", "notification"}
Profiles == {"mailer", "captcha"}

Missing(id) == id \notin DOMAIN rows
Without(f, id) == [i \in DOMAIN f \ {id} |-> f[i]]
With(f, id, row) == [i \in DOMAIN f \cup {id} |-> IF i = id THEN row ELSE f[i]]

EditingInit ==
  /\ table \in Tables
  /\ \E n \in Names, s \in Secrets :
       rows = [i \in {1} |-> [name |-> n, secret |-> IF table = "notification" THEN Blank ELSE s]]
  /\ born = 1
  /\ used \in {{}, {1}} /\ (used # {} => table \in Profiles)
  /\ owner = TRUE

\* Transactions begin IMMEDIATE: while one is open, no other can commit.
Writable == \A b \in Operators : job[b].pc # "erase"

Taken(id, name) ==
  table # "notification" /\ \E i \in DOMAIN rows \ {id} : rows[i].name = name

\* mailerProfile, captchaProfile, prepareEmailDelivery, the checks of Update
Invalid(put) == put.name = Blank \/ (table = "captcha" /\ put.secret = Blank)

\* A page sends every field but the slug of a form; a command those given.
\* Only the key of a captcha profile cannot be cleared on its page.
Asks(way, op) ==
  [name : CASE op = "create"                     -> Names \cup {Blank}
            [] table = "form" /\ way = "page"     -> {Keep, Blank}
            [] OTHER -> Names \cup {Blank} \cup (IF way = "command" THEN {Keep} ELSE {}),
   secret : CASE table = "notification"              -> {Keep}
              [] table = "captcha" /\ way = "page"    -> Secrets \cup {Keep}
              [] OTHER                               -> Secrets \cup {Keep, Blank}]

Operations(way) ==
  {"show", "create", "update"}
    \cup (IF table # "form" \/ way = "command" THEN {"delete"} ELSE {})
    \cup (IF table = "form" /\ way = "command" THEN {"rotate"} ELSE {})

Begin(a) ==
  \E way \in Ways : \E op \in Operations(way) :
    IF op = "create" THEN \E ask \in Asks(way, op) : Open(a, way, op, 0, ask, FALSE, {})
    ELSE \E id \in 1..born :
           IF op # "update" THEN Open(a, way, op, id, Nothing, FALSE, {})
           ELSE \E ask \in Asks(way, op) :
                  Open(a, way, op, id, ask, FALSE, {rows[i].secret : i \in {id} \cap DOMAIN rows})

\* Every other update of this row that is under way learns of a new secret.
SeenBy(a, id, secret) ==
  [b \in Operators |-> IF b # a /\ job[b].op = "update" /\ job[b].id = id /\ job[b].pc # "done"
                       THEN [job[b] EXCEPT !.seen = @ \cup {secret}] ELSE job[b]]

Store(a, id, put, pc) ==
  /\ rows' = [rows EXCEPT ![id] = put]
  /\ job' = [SeenBy(a, id, put.secret) EXCEPT ![a].wrote = TRUE, ![a].pc = pc]

Show(a) ==
  /\ At(a, "begin", "show")
  /\ IF Missing(job[a].id) THEN Answer(a, "notfound") ELSE Goto(a, "report")
  /\ UNCHANGED editing

(***************************************************************************)
(* Creating.  The page of a notification looks for its form first.         *)
(***************************************************************************)
CreateCheck(a) ==
  /\ At(a, "begin", "create")
  /\ LET ask == job[a].ask
         put == [ask EXCEPT !.secret = IF @ = Keep THEN Blank ELSE @]
     IN  CASE table = "notification" /\ Page(a) /\ ~owner -> Answer(a, "notfound")
           [] Invalid(put) -> Answer(a, "validation")
           [] OTHER -> job' = [job EXCEPT ![a].put = put, ![a].pc = "commit"]
  /\ UNCHANGED editing

\* The form or profile a row refers to is looked up in the transaction.
Referring == table \in {"form", "notification"}

CreateCommit(a) ==
  /\ At(a, "commit", "create") /\ Writable
  /\ \/ /\ table = "notification" /\ ~owner
        /\ Answer(a, IF Page(a) THEN "internal" ELSE "notfound")
        /\ UNCHANGED editing
     \/ /\ (Referring /\ owner) \/ Taken(0, job[a].put.name)
        /\ Answer(a, "validation")
        /\ UNCHANGED editing
     \/ /\ owner /\ born < MaxRows /\ ~Taken(0, job[a].put.name)
        /\ born' = born + 1
        /\ rows' = With(rows, born', job[a].put)
        /\ job' = [job EXCEPT ![a].made = born', ![a].wrote = TRUE,
                              ![a].pc = IF table = "notification" THEN "reload" ELSE "report"]
        /\ UNCHANGED <<used, owner>>

(***************************************************************************)
(* Changing: read, merge, check, write what was merged, and read again.    *)
(***************************************************************************)
\* Mutant: a field left blank is stored like any other.
Merged_Overwrites(ask, row) == [ask EXCEPT !.secret = IF @ = Keep THEN Blank ELSE @,
                                          !.name = IF @ = Keep THEN row.name ELSE @]

Merged(ask, row) == [f \in DOMAIN ask |-> IF ask[f] = Keep THEN row[f] ELSE ask[f]]

\* The page of a notification looks for its form and not for the row.
ReadsOwner(a) == table = "notification" /\ Page(a)

UpdateRead(a) ==
  /\ At(a, "begin", "update")
  /\ LET id == job[a].id IN
     CASE ReadsOwner(a) /\ owner ->
            job' = [job EXCEPT ![a].put = [job[a].ask EXCEPT !.secret = Blank], ![a].pc = "check"]
       [] ~ReadsOwner(a) /\ ~Missing(id) ->
            job' = [job EXCEPT ![a].put = Merged(job[a].ask, rows[id]), ![a].pc = "check"]
       [] OTHER -> Answer(a, "notfound")
  /\ UNCHANGED editing

\* Profiles and forms are looked up again, by a form before most checks; a
\* form keeps the slug of this second reading when it came from a page.
UpdateCheck(a) ==
  /\ At(a, "check", "update")
  /\ LET id == job[a].id
         gone == table # "notification" /\ Missing(id)
     IN  \/ Invalid(job[a].put) /\ Answer(a, "validation")
         \/ gone /\ (Invalid(job[a].put) => table = "form") /\ Answer(a, "notfound")
         \/ /\ ~gone /\ ~Invalid(job[a].put)
            /\ job' = [job EXCEPT ![a].pc = "commit",
                         ![a].put.name = IF job[a].ask.name = Keep /\ Page(a)
                                         THEN rows[id].name ELSE @]
  /\ UNCHANGED editing

\* An UPDATE of a row that is gone changes nothing and is no error: for a
\* notification the rows affected tell, for the others the reading after it.
UpdateCommit(a) ==
  /\ At(a, "commit", "update") /\ Writable
  /\ LET id == job[a].id IN
     \/ /\ (Referring /\ owner) \/ (~Missing(id) /\ Taken(id, job[a].put.name))
        /\ Answer(a, "validation")
        /\ UNCHANGED rows
     \/ /\ Missing(id)
        /\ IF table = "notification" THEN Answer(a, "notfound") ELSE Goto(a, "reload")
        /\ UNCHANGED rows
     \/ /\ ~Missing(id) /\ ~Taken(id, job[a].put.name)
        /\ Store(a, id, job[a].put, "reload")
  /\ UNCHANGED <<born, used, owner>>

\* Mutant: the transaction did not fail, so the row was changed.
Reload_Trusting(a) ==
  /\ job[a].pc = "reload" /\ job[a].op \in {"create", "update", "rotate"}
  /\ Goto(a, "report")
  /\ UNCHANGED editing

Reload(a) ==
  /\ job[a].pc = "reload" /\ job[a].op \in {"create", "update", "rotate"}
  /\ LET id == IF job[a].op = "create" THEN job[a].made ELSE job[a].id IN
     IF ~Missing(id) THEN Goto(a, "report")
     ELSE Answer(a, IF job[a].op = "create" /\ Page(a) THEN "internal" ELSE "notfound")
  /\ UNCHANGED editing

\* A new token; that the form is there is checked before and after.
RotateRead(a) ==
  /\ At(a, "begin", "rotate")
  /\ IF Missing(job[a].id) THEN Answer(a, "notfound") ELSE Goto(a, "commit")
  /\ UNCHANGED editing

RotateCommit(a) ==
  /\ At(a, "commit", "rotate") /\ Writable
  /\ job' = [job EXCEPT ![a].pc = "reload", ![a].wrote = ~Missing(job[a].id)]
  /\ UNCHANGED editing

(***************************************************************************)
(* Deleting a profile or a notification.  A profile in use stays; its page *)
(* is then shown again, for which it is read again.                        *)
(***************************************************************************)
DeleteRead(a) ==
  /\ At(a, "begin", "delete") /\ table # "form"
  /\ LET reads == ~(table \in Profiles /\ Page(a))
         gone == IF ReadsOwner(a) THEN ~owner ELSE Missing(job[a].id)
     IN  IF reads /\ gone THEN Answer(a, "notfound")
         ELSE Goto(a, IF table \in Profiles THEN "usage" ELSE "remove")
  /\ UNCHANGED editing

InUse(a) == IF Page(a) THEN Goto(a, "conflict") ELSE Answer(a, "conflict")

ProfileUsage(a) ==
  /\ job[a].pc = "usage"
  /\ IF job[a].id \in used THEN InUse(a) ELSE Goto(a, "remove")
  /\ UNCHANGED editing

Remove(a) ==
  /\ job[a].pc = "remove" /\ Writable
  /\ LET id == job[a].id IN
     CASE Missing(id) -> Answer(a, "notfound") /\ UNCHANGED rows
       [] id \in used -> InUse(a) /\ UNCHANGED rows
       [] OTHER -> /\ rows' = Without(rows, id)
                   /\ job' = [job EXCEPT ![a].pc = "report", ![a].wrote = TRUE]
  /\ UNCHANGED <<born, used, owner>>

DeleteConflict(a) ==
  /\ job[a].pc = "conflict"
  /\ Answer(a, IF Missing(job[a].id) THEN "notfound" ELSE "conflict")
  /\ UNCHANGED editing

(***************************************************************************)
(* What others do to the rows: forms and notifications are given profiles  *)
(* or lose them, and the form of the notifications is deleted.             *)
(***************************************************************************)
Assign ==
  /\ table \in Profiles /\ used' \in {used \cup {i} : i \in DOMAIN rows} /\ used' # used
  /\ UNCHANGED <<rows, born, owner, job>>

Release ==
  /\ used # {} /\ used' = {}
  /\ UNCHANGED <<rows, born, owner, job>>

DeleteOwner ==
  /\ table = "notification" /\ owner
  /\ owner' = FALSE /\ rows' = <<>>
  /\ UNCHANGED <<born, used, job>>

Edits(a) ==
  \/ Show(a) \/ CreateCheck(a) \/ CreateCommit(a)
  \/ UpdateRead(a) \/ UpdateCheck(a) \/ UpdateCommit(a) \/ Reload(a)
  \/ RotateRead(a) \/ RotateCommit(a)
  \/ DeleteRead(a) \/ ProfileUsage(a) \/ Remove(a) \/ DeleteConflict(a)
=============================================================================
