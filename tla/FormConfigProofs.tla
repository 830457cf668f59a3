-------------------------- MODULE FormConfigProofs --------------------------
(***************************************************************************)
(* Proofs about FormConfig, for any number of forms, notifications,        *)
(* profiles, concurrent updates and submissions.                           *)
(***************************************************************************)
EXTENDS FormConfig, TLAPS

LEMMA RowTyped ==
  ASSUME NEW f \in Forms \cup {None}, NEW email \in Settings
  PROVE  /\ Row(f, email) \in Notes
         /\ Row(f, email).form = f
         /\ Row(f, email).enabled = email.enabled
         /\ Row(f, email).source = email.source
         /\ Row(f, email).mailer = email.mailer
BY DEF Row, Notes, Settings

LEMMA BlankTyped ==
  /\ Blank \in Settings /\ ~Blank.enabled
  /\ NoRow \in Notes /\ ~NoRow.enabled /\ NoRow.form = None /\ NoRow.mailer = None
  /\ NoEdit \in Edits /\ NoEdit.email = Blank /\ NoEdit.primary = 0
  /\ NoRequest \in Submissions /\ NoRequest.due = {}
<1>1. Blank \in Settings /\ ~Blank.enabled /\ Blank.mailer = None
  BY DEF Blank, Settings, Sources
<1>2. NoRow \in Notes /\ ~NoRow.enabled /\ NoRow.form = None /\ NoRow.mailer = None
  BY <1>1, RowTyped DEF NoRow
<1>3. NoEdit \in Edits /\ NoEdit.email = Blank /\ NoEdit.primary = 0
  BY <1>1 DEF NoEdit, Edits
<1>4. NoRequest \in Submissions /\ NoRequest.due = {}
  BY DEF NoRequest, Submissions
<1> QED
  BY <1>1, <1>2, <1>3, <1>4

\* What the two operations that add a notification do to the table.
LEMMA AddNoteFacts ==
  ASSUME TypeOK, NEW f \in Forms, NEW email \in Settings, AddNote(f, email),
         email.enabled => email.mailer # None
  PROVE  /\ made + 1 \in Ids /\ made' = made + 1 /\ made' \in 0 .. MaxNotes
         /\ note' \in [Ids -> Notes]
         /\ note'[made + 1] = Row(f, email)
         /\ \A i \in Ids : i # made + 1 => note'[i] = note[i]
         /\ \A i \in Ids : note'[i].enabled => note'[i].mailer # None
<1>1. made + 1 \in Ids /\ made' = made + 1 /\ made' \in 0 .. MaxNotes
  BY FormConfigAssumption DEF AddNote, TypeOK, Ids
<1>2. Row(f, email) \in Notes
  BY RowTyped
<1>3. /\ note' \in [Ids -> Notes]
      /\ note'[made + 1] = Row(f, email)
      /\ \A i \in Ids : i # made + 1 => note'[i] = note[i]
  BY <1>1, <1>2 DEF AddNote, TypeOK
<1> QED
  BY <1>1, <1>3, RowTyped DEF TypeOK

LEMMA InitTypeOK == Init => TypeOK
BY BlankTyped, FormConfigAssumption DEF Init, TypeOK, Ids

\* What an update or a submission carries between its steps: a form, and
\* settings that passed the checks made before the transaction.
PendingInv ==
  /\ \A t \in Editors :
       /\ edit[t].pc # "idle" => edit[t].form \in Forms
       /\ prepareEmailDelivery(edit[t].email)
       /\ ~Unsafe(edit[t].email, edit[t].captcha)
  /\ \A r \in Requests : req[r].pc \in {"form", "loaded", "admitted"} => req[r].form \in Forms

\* A step of an update replaces its record.
LEMMA EditSteps ==
  ASSUME TypeOK, NEW t \in Editors, ReadSettings(t) \/ LoadPrimary(t)
  PROVE  \E x \in Edits :
           /\ edit' = [edit EXCEPT ![t] = x]
           /\ x.form \in Forms \/ x.form = edit[t].form
           /\ ReadSettings(t) =>
                /\ x.form \in Forms /\ x.primary = 0 /\ x.pc = "load"
                /\ prepareEmailDelivery(x.email) /\ ~Unsafe(x.email, x.captcha)
           /\ LoadPrimary(t) =>
                /\ edit[t].pc = "load" /\ x.pc = "commit"
                /\ x.form = edit[t].form /\ IsPrimary(x.form, x.primary)
                /\ x.email = edit[t].email /\ x.captcha = edit[t].captcha
<1>1. CASE ReadSettings(t)
  <2>9. PICK f \in Forms, profile \in Captchas \cup {None}, email \in Settings :
          /\ edit[t].pc = "idle"
          /\ prepareEmailDelivery(email) /\ ~Unsafe(email, profile)
          /\ \E requested \in Requested(email) :
               edit' = [edit EXCEPT ![t] = [pc |-> "load", form |-> f, captcha |-> profile,
                          email |-> email, requested |-> requested, primary |-> 0]]
    BY <1>1, Zenon DEF ReadSettings
  <2>1. PICK requested \in Requested(email) :
          edit' = [edit EXCEPT ![t] = [pc |-> "load", form |-> f, captcha |-> profile,
                     email |-> email, requested |-> requested, primary |-> 0]]
    BY <2>9
  <2>0. requested \in BOOLEAN
    <3>1. requested = (email # Blank) \/ requested = TRUE
      BY DEF Requested
    <3> QED
      BY <3>1
  <2> DEFINE x == [pc |-> "load", form |-> f, captcha |-> profile, email |-> email,
                   requested |-> requested, primary |-> 0]
  <2>2. x \in Edits
    BY <2>0 DEF Edits
  <2>3. ~LoadPrimary(t)
    BY <2>9 DEF LoadPrimary
  <2> QED
    BY <2>9, <2>1, <2>2, <2>3
<1>2. CASE LoadPrimary(t)
  <2>1. PICK i \in Ids \cup {0} :
          /\ edit[t].pc = "load"
          /\ IsPrimary(edit[t].form, i)
          /\ edit' = [edit EXCEPT ![t].pc = "commit", ![t].primary = i]
    BY <1>2 DEF LoadPrimary
  <2> DEFINE x == [edit[t] EXCEPT !.pc = "commit", !.primary = i]
  <2>2. edit[t] \in Edits
    BY DEF TypeOK
  <2>3. /\ x \in Edits /\ x.pc = "commit" /\ x.primary = i
        /\ x.form = edit[t].form /\ x.email = edit[t].email /\ x.captcha = edit[t].captcha
    BY <2>2 DEF Edits
  <2>4. edit' = [edit EXCEPT ![t] = x]
    BY <2>1
  <2>5. ~ReadSettings(t)
    BY <2>1 DEF ReadSettings
  <2> HIDE DEF x
  <2> QED
    BY <2>1, <2>3, <2>4, <2>5
<1> QED
  BY <1>1, <1>2

\* A step of a submission before its transaction replaces its record.
LEMMA RequestSteps ==
  ASSUME TypeOK, NEW r \in Requests, LoadForm(r) \/ LoadDeliveries(r) \/ verifyCaptcha(r)
  PROVE  \E x \in Submissions :
           /\ req' = [req EXCEPT ![r] = x]
           /\ LoadForm(r) => req[r].pc = "idle" /\ x.pc = "form" /\ x.form \in Forms /\ x.due = req[r].due
           /\ LoadDeliveries(r) =>
                /\ req[r].pc = "form" /\ x.pc = "loaded" /\ x.form = req[r].form
                /\ \A d \in x.due : d.id \in NotesOf(x.form)
           /\ verifyCaptcha(r) =>
                /\ req[r].pc = "loaded" /\ x.pc = "admitted"
                /\ x.form = req[r].form /\ x.due = req[r].due
                /\ x.captcha = req[r].captcha /\ x.public = req[r].public
                /\ x.verified = (x.public /\ x.captcha # None)
<1>0. req[r] \in Submissions
  BY DEF TypeOK
<1>1. CASE LoadForm(r)
  <2>0. PICK f \in Forms, public \in BOOLEAN :
          req' = [req EXCEPT ![r].pc = "form", ![r].form = f, ![r].public = public,
                             ![r].captcha = captcha[f]]
    BY <1>1, Zenon DEF LoadForm
  <2>2. captcha[f] \in Captchas \cup {None}
    BY DEF TypeOK
  <2> DEFINE x == [req[r] EXCEPT !.pc = "form", !.form = f, !.public = public,
                                 !.captcha = captcha[f]]
  <2>1. req[r].pc = "idle" /\ req' = [req EXCEPT ![r] = x]
    BY <1>1, <2>0 DEF LoadForm
  <2>3. x \in Submissions /\ x.pc = "form" /\ x.form \in Forms /\ x.due = req[r].due
    BY <1>0, <2>2 DEF Submissions
  <2>4. ~LoadDeliveries(r) /\ ~verifyCaptcha(r)
    BY <2>1 DEF LoadDeliveries, verifyCaptcha
  <2> HIDE DEF x
  <2> QED
    BY <2>1, <2>3, <2>4 DEF x
<1>2. CASE LoadDeliveries(r)
  <2> DEFINE due == {[id |-> i, source |-> note[i].source] :
                       i \in {j \in NotesOf(req[r].form) : note[j].enabled}}
             x == [req[r] EXCEPT !.pc = "loaded", !.due = due]
  <2>1. req[r].pc = "form" /\ req' = [req EXCEPT ![r] = x]
    BY <1>2 DEF LoadDeliveries
  <2>2. due \in SUBSET [id : Ids, source : Sources] /\ \A d \in due : d.id \in NotesOf(req[r].form)
    BY DEF NotesOf, TypeOK, Notes
  <2> HIDE DEF due
  <2>3. x \in Submissions /\ x.pc = "loaded" /\ x.form = req[r].form /\ x.due = due
    BY <1>0, <2>2 DEF Submissions
  <2>4. ~LoadForm(r) /\ ~verifyCaptcha(r)
    BY <2>1 DEF LoadForm, verifyCaptcha
  <2> HIDE DEF x
  <2> QED
    BY <2>1, <2>2, <2>3, <2>4
<1>3. CASE verifyCaptcha(r)
  <2> DEFINE v == req[r].public /\ req[r].captcha # None
             x == [req[r] EXCEPT !.pc = "admitted", !.verified = v]
  <2>1. req[r].pc = "loaded" /\ req' = [req EXCEPT ![r] = x]
    BY <1>3 DEF verifyCaptcha
  <2>2. v \in BOOLEAN
    OBVIOUS
  <2> HIDE DEF v
  <2>3. /\ x \in Submissions /\ x.pc = "admitted" /\ x.form = req[r].form /\ x.due = req[r].due
        /\ x.captcha = req[r].captcha /\ x.public = req[r].public /\ x.verified = v
    BY <1>0, <2>2 DEF Submissions
  <2>4. ~LoadForm(r) /\ ~LoadDeliveries(r)
    BY <2>1 DEF LoadForm, LoadDeliveries
  <2> HIDE DEF x
  <2>5. x.verified = (x.public /\ x.captcha # None)
    BY <2>3 DEF v
  <2> QED
    BY <2>1, <2>3, <2>4, <2>5
<1> QED
  BY <1>1, <1>2, <1>3

LEMMA NewEventsTyped ==
  ASSUME TypeOK, PendingInv, NEW r \in Requests, req[r].pc = "admitted"
  PROVE  createDeliveryEvents(r) \subseteq Events
<1>1. req[r] \in Submissions /\ req[r].form \in Forms
  BY DEF TypeOK, PendingInv
<1>2. ASSUME NEW d \in req[r].due
      PROVE  NewEmailEvent(r, d) \in Events
  BY <1>1 DEF NewEmailEvent, Events, Submissions
<1> QED
  BY <1>2 DEF createDeliveryEvents

\* Update writes the settings it carries to its primary notification, or adds
\* one, or leaves the table alone.
LEMMA UpdateFacts ==
  ASSUME TypeOK, PendingInv, NEW t \in Editors, Update(t)
  PROVE  /\ edit[t] \in Edits /\ edit[t].form \in Forms
         /\ note' \in [Ids -> Notes] /\ made' \in 0 .. MaxNotes
         /\ \A i \in Ids : note'[i].enabled => note'[i].mailer # None
<1>1. edit[t] \in Edits /\ edit[t].form \in Forms /\ edit[t].email \in Settings
  BY DEF TypeOK, PendingInv, Update, Edits
<1>2. edit[t].email.enabled => edit[t].email.mailer # None
  BY DEF PendingInv, prepareEmailDelivery
<1>3. CASE edit[t].primary # 0
  <2>1. edit[t].primary \in Ids
    BY <1>1, <1>3 DEF Edits
  <2> DEFINE i == edit[t].primary
  <2>2. note[i] \in Notes /\ note[i].form \in Forms \cup {None}
    BY <2>1 DEF TypeOK, Notes
  <2>3. Row(note[i].form, edit[t].email) \in Notes
    BY <1>1, <2>2, RowTyped
  <2>4. /\ note' = [note EXCEPT ![i] = IF note[i].form = None THEN note[i]
                                      ELSE Row(note[i].form, edit[t].email)]
        /\ made' = made
    BY <1>3 DEF Update
  <2> QED
    BY <1>1, <1>2, <2>1, <2>2, <2>3, <2>4, RowTyped DEF TypeOK
<1>4. CASE edit[t].primary = 0
  <2>1. AddNote(edit[t].form, edit[t].email) \/ UNCHANGED <<note, made>>
    BY <1>4 DEF Update
  <2> QED
    BY <1>1, <1>2, <2>1, AddNoteFacts DEF TypeOK
<1> QED
  BY <1>3, <1>4

LEMMA NextTypeOK ==
  ASSUME TypeOK, PendingInv, [Next]_vars
  PROVE  TypeOK'
<1>1. ASSUME NEW f \in Forms, Create(f)
      PROVE  TypeOK'
  <2>1. PICK profile \in Captchas \cup {None}, email \in Settings :
          /\ email.enabled => email.mailer # None
          /\ captcha' = [captcha EXCEPT ![f] = profile]
          /\ AddNote(f, email) \/ UNCHANGED <<made, note>>
    BY <1>1 DEF Create, prepareEmailDelivery
  <2>2. /\ note' \in [Ids -> Notes] /\ made' \in 0 .. MaxNotes
        /\ \A i \in Ids : note'[i].enabled => note'[i].mailer # None
    BY <2>1, AddNoteFacts DEF TypeOK
  <2> QED
    BY <1>1, <2>1, <2>2 DEF Create, TypeOK
<1>2. ASSUME NEW f \in Forms, DeleteForm(f)
      PROVE  TypeOK'
  BY <1>2, BlankTyped DEF DeleteForm, TypeOK
<1>3. ASSUME NEW f \in Forms, CreateEmailDelivery(f)
      PROVE  TypeOK'
  <2>1. PICK email \in Settings : (email.enabled => email.mailer # None) /\ AddNote(f, email)
    BY <1>3 DEF CreateEmailDelivery, EmailAllowed, prepareEmailDelivery
  <2> QED
    BY <1>3, <2>1, AddNoteFacts DEF CreateEmailDelivery, TypeOK
<1>4. ASSUME NEW t \in Editors, ReadSettings(t) \/ LoadPrimary(t)
      PROVE  TypeOK'
  <2>1. PICK x \in Edits : edit' = [edit EXCEPT ![t] = x]
    BY <1>4, EditSteps
  <2>2. UNCHANGED <<life, captcha, note, made, req, events>>
    BY <1>4 DEF ReadSettings, LoadPrimary
  <2> QED
    BY <2>1, <2>2 DEF TypeOK
<1>5. ASSUME NEW t \in Editors, Update(t)
      PROVE  TypeOK'
  <2>1. /\ edit[t] \in Edits /\ edit[t].form \in Forms
        /\ note' \in [Ids -> Notes] /\ made' \in 0 .. MaxNotes
        /\ \A i \in Ids : note'[i].enabled => note'[i].mailer # None
    BY <1>5, UpdateFacts
  <2>2. captcha' = [captcha EXCEPT ![edit[t].form] = edit[t].captcha]
    BY <1>5 DEF Update
  <2>3. edit[t].captcha \in Captchas \cup {None}
    BY <2>1 DEF Edits
  <2>4. edit' = [edit EXCEPT ![t] = NoEdit] /\ UNCHANGED <<life, req, events>>
    BY <1>5 DEF Update
  <2> QED
    BY <2>1, <2>2, <2>3, <2>4, BlankTyped DEF TypeOK
<1>7. ASSUME NEW t \in Editors, UpdateFails(t)
      PROVE  TypeOK'
  BY <1>7, BlankTyped DEF UpdateFails, TypeOK
<1>8. ASSUME NEW i \in Ids, UpdateEmailDelivery(i)
      PROVE  TypeOK'
  <2>1. PICK email \in Settings :
          /\ email.enabled => email.mailer # None
          /\ note' = [note EXCEPT ![i] = Row(note[i].form, email)]
    BY <1>8 DEF UpdateEmailDelivery, EmailAllowed, prepareEmailDelivery
  <2>2. note[i].form \in Forms \cup {None}
    BY DEF TypeOK, Notes
  <2> QED
    BY <1>8, <2>1, <2>2, RowTyped DEF UpdateEmailDelivery, TypeOK
<1>9. ASSUME NEW i \in Ids, DeleteEmailDelivery(i)
      PROVE  TypeOK'
  <2>1. events' \subseteq Events
    BY <1>9 DEF DeleteEmailDelivery, Unlinked, TypeOK, Events
  <2> QED
    BY <1>9, <2>1, BlankTyped DEF DeleteEmailDelivery, TypeOK
<1>10. ASSUME NEW p \in Profiles, CreateProfile(p) \/ deleteProfile(p)
       PROVE  TypeOK'
  BY <1>10 DEF CreateProfile, deleteProfile, TypeOK
<1>11. ASSUME NEW r \in Requests, LoadForm(r) \/ LoadDeliveries(r) \/ verifyCaptcha(r)
       PROVE  TypeOK'
  <2>1. PICK x \in Submissions : req' = [req EXCEPT ![r] = x]
    BY <1>11, RequestSteps
  <2>2. UNCHANGED <<life, captcha, note, made, edit, events>>
    BY <1>11 DEF LoadForm, LoadDeliveries, verifyCaptcha
  <2> QED
    BY <2>1, <2>2 DEF TypeOK
<1>12. ASSUME NEW r \in Requests, RefuseSubmission(r) \/ CreateSubmission(r)
       PROVE  TypeOK'
  <2>1. [NoRequest EXCEPT !.pc = "done"] \in Submissions
    BY BlankTyped DEF Submissions
  <2>2. req' = [req EXCEPT ![r] = [NoRequest EXCEPT !.pc = "done"]]
    BY <1>12 DEF RefuseSubmission, CreateSubmission
  <2>3. events' \subseteq Events
    BY <1>12, NewEventsTyped DEF RefuseSubmission, CreateSubmission, TypeOK
  <2>4. UNCHANGED <<life, captcha, note, made, edit>>
    BY <1>12 DEF RefuseSubmission, CreateSubmission
  <2> QED
    BY <2>1, <2>2, <2>3, <2>4 DEF TypeOK
<1>13. ASSUME NEW e \in events, SendEmail(e) \/ FailEmail(e) \/ RetryEmailEvent(e)
       PROVE  TypeOK'
  <2>1. PICK f : Becomes(e, f) /\ f \in Events
    <3>1. e \in Events
      BY DEF TypeOK
    <3>2. CASE SendEmail(e)
      <4>1. e.note \in Ids
        BY <3>1, <3>2 DEF SendEmail, Sendable, Events
      <4> DEFINE f == [e EXCEPT !.status = "sent", !.via = e.note]
      <4>2. f \in Events
        BY <3>1, <4>1 DEF Events
      <4>3. Becomes(e, f)
        BY <3>2 DEF SendEmail
      <4> HIDE DEF f
      <4> QED
        BY <4>2, <4>3
    <3>3. CASE FailEmail(e) \/ RetryEmailEvent(e)
      BY <3>1, <3>3 DEF FailEmail, RetryEmailEvent, Events
    <3> QED
      BY <1>13, <3>2, <3>3
  <2> QED
    BY <2>1 DEF Becomes, TypeOK
<1>14. CASE Migrate
  <2>1. events' \subseteq Events
    BY <1>14 DEF Migrate, TypeOK, Events
  <2>2. note' \in [Ids -> Notes] /\ \A i \in Ids : note'[i].enabled => note'[i].mailer # None
    BY <1>14 DEF Migrate, TypeOK, Notes
  <2> QED
    BY <1>14, <2>1, <2>2 DEF Migrate, TypeOK
<1>15. CASE UNCHANGED vars
  BY <1>15 DEF vars, TypeOK
<1> QED
  BY <1>1, <1>2, <1>3, <1>4, <1>5, <1>7, <1>8, <1>9, <1>10, <1>11, <1>12, <1>13, <1>14, <1>15
     DEF Next

(***************************************************************************)
(* The inductive invariant.  A row is consistent with the form, the        *)
(* profiles and the captcha of its form; the two ids that are carried      *)
(* across steps (the primary notification of an update, the notifications  *)
(* of a submission) still mean a row of the same form, because ids only    *)
(* grow; what is carried has passed its checks.                            *)
(***************************************************************************)
RowOK(i) ==
  note[i].form # None =>
    /\ i <= made /\ Live(note[i].form)
    /\ note[i].mailer # None => Live(note[i].mailer)
    /\ ~Unsafe(note[i], captcha[note[i].form])

RowInv == \A i \in Ids : RowOK(i)

CaptchaInv == \A f \in Forms : captcha[f] # None => Live(f) /\ Live(captcha[f])

EventInv ==
  \A e \in events : Live(e.form) /\ (e.note # 0 => note[e.note].form = e.form)

\* The row has not come to belong to another form.
Still(i, f) == i <= made /\ note[i].form \in {None, f}

CarriedInv ==
  /\ \A t \in Editors : edit[t].primary # 0 => Still(edit[t].primary, edit[t].form)
  /\ \A r \in Requests :
       /\ req[r].pc = "idle" => req[r].due = {}
       /\ \A d \in req[r].due : Still(d.id, req[r].form)

\* What every step but a deletion does: rows keep their forms, forms live on.
KeepsRows ==
  /\ made <= made' /\ \A i \in Ids : i <= made => note'[i].form = note[i].form
  /\ \A f \in Forms : Live(f) => life'[f] = "live"

IInv == TypeOK /\ PendingInv /\ RowInv /\ CaptchaInv /\ EventInv /\ CarriedInv

LEMMA InitIInv == Init => IInv
<1> SUFFICES ASSUME Init PROVE IInv
  OBVIOUS
<1>1. TypeOK
  BY InitTypeOK
<1>2. PendingInv
  BY BlankTyped DEF Init, PendingInv, prepareEmailDelivery, Unsafe, NoEdit, NoRequest
<1>3. RowInv /\ CaptchaInv /\ EventInv
  BY BlankTyped DEF Init, RowInv, RowOK, CaptchaInv, EventInv
<1>4. CarriedInv
  BY BlankTyped DEF Init, CarriedInv, NoRequest
<1> QED
  BY <1>1, <1>2, <1>3, <1>4 DEF IInv

\* Who writes the updates and the submissions.
LEMMA WhoEdits ==
  ASSUME [Next]_vars
  PROVE  \/ \E t \in Editors : ReadSettings(t) \/ LoadPrimary(t)
         \/ \E t \in Editors : edit' = [edit EXCEPT ![t] = NoEdit]
         \/ edit' = edit
BY DEF Next, vars, Create, DeleteForm, CreateEmailDelivery, Update, UpdateFails,
       UpdateEmailDelivery, DeleteEmailDelivery, CreateProfile, deleteProfile, LoadForm,
       LoadDeliveries, verifyCaptcha, RefuseSubmission, CreateSubmission, SendEmail,
       FailEmail, RetryEmailEvent, Becomes, Migrate

LEMMA WhoSubmits ==
  ASSUME [Next]_vars
  PROVE  \/ \E r \in Requests : LoadForm(r) \/ LoadDeliveries(r) \/ verifyCaptcha(r)
         \/ \E r \in Requests : req' = [req EXCEPT ![r] = [NoRequest EXCEPT !.pc = "done"]]
         \/ req' = req
BY DEF Next, vars, Create, DeleteForm, CreateEmailDelivery, ReadSettings, LoadPrimary,
       Update, UpdateFails, UpdateEmailDelivery, DeleteEmailDelivery, CreateProfile,
       deleteProfile, RefuseSubmission, CreateSubmission, SendEmail, FailEmail,
       RetryEmailEvent, Becomes, Migrate

LEMMA NextPendingInv ==
  ASSUME IInv, [Next]_vars
  PROVE  PendingInv'
<1>1. \A t \in Editors :
        /\ edit'[t].pc # "idle" => edit'[t].form \in Forms
        /\ prepareEmailDelivery(edit'[t].email)
        /\ ~Unsafe(edit'[t].email, edit'[t].captcha)
  <2>1. ASSUME NEW t \in Editors, ReadSettings(t) \/ LoadPrimary(t)
        PROVE  <1>1!:
    <3>1. PICK x \in Edits :
            /\ edit' = [edit EXCEPT ![t] = x]
            /\ x.form \in Forms
            /\ prepareEmailDelivery(x.email) /\ ~Unsafe(x.email, x.captcha)
      BY <2>1, EditSteps DEF IInv, PendingInv
    <3> QED
      BY <3>1 DEF IInv, PendingInv, TypeOK
  <2>2. ASSUME NEW t \in Editors, edit' = [edit EXCEPT ![t] = NoEdit]
        PROVE  <1>1!:
    <3>1. NoEdit.pc = "idle" /\ prepareEmailDelivery(NoEdit.email) /\ ~Unsafe(NoEdit.email, NoEdit.captcha)
      BY BlankTyped DEF NoEdit, prepareEmailDelivery, Unsafe
    <3> QED
      BY <2>2, <3>1 DEF IInv, PendingInv, TypeOK
  <2>3. CASE edit' = edit
    BY <2>3 DEF IInv, PendingInv
  <2> QED
    BY <2>1, <2>2, <2>3, WhoEdits
<1>2. \A r \in Requests : req'[r].pc \in {"form", "loaded", "admitted"} => req'[r].form \in Forms
  <2>1. ASSUME NEW r \in Requests, LoadForm(r) \/ LoadDeliveries(r) \/ verifyCaptcha(r)
        PROVE  <1>2!:
    <3>1. PICK x \in Submissions : req' = [req EXCEPT ![r] = x] /\ x.form \in Forms
      BY <2>1, RequestSteps DEF IInv, PendingInv
    <3> QED
      BY <3>1 DEF IInv, PendingInv, TypeOK
  <2>2. ASSUME NEW r \in Requests, req' = [req EXCEPT ![r] = [NoRequest EXCEPT !.pc = "done"]]
        PROVE  <1>2!:
    BY <2>2 DEF IInv, PendingInv, TypeOK, NoRequest
  <2>3. CASE req' = req
    BY <2>3 DEF IInv, PendingInv
  <2> QED
    BY <2>1, <2>2, <2>3, WhoSubmits
<1> QED
  BY <1>1, <1>2 DEF PendingInv, prepareEmailDelivery, Unsafe

\* The operations that change the notifications, the captcha of a form or the
\* life of a row, one by one.
LEMMA CreateRows ==
  ASSUME IInv, NEW f \in Forms, Create(f)
  PROVE  RowInv' /\ CaptchaInv' /\ KeepsRows
<1>1. PICK profile \in Captchas \cup {None}, email \in Settings :
        /\ email.enabled => email.mailer # None
        /\ ~Unsafe(email, profile)
        /\ validateProfileReferences(email.mailer, profile)
        /\ captcha' = [captcha EXCEPT ![f] = profile]
        /\ AddNote(f, email) \/ UNCHANGED <<made, note>>
  BY DEF Create, prepareEmailDelivery
<1>2. life[f] = "new" /\ life' = [life EXCEPT ![f] = "live"]
  BY DEF Create
<1>3. TypeOK /\ RowInv /\ CaptchaInv
  BY DEF IInv
<1>4. life'[f] = "live" /\ \A x \in Forms \cup Profiles : Live(x) => life'[x] = "live"
  BY <1>2, <1>3 DEF TypeOK, Live
<1>5. CaptchaInv'
  <2> SUFFICES ASSUME NEW g \in Forms, captcha'[g] # None
               PROVE  life'[g] = "live" /\ life'[captcha'[g]] = "live"
    BY DEF CaptchaInv, Live
  <2>1. CASE g = f
    <3>1. captcha'[g] = profile /\ profile \in Captchas
      BY <1>1, <1>3, <2>1 DEF TypeOK
    <3>2. Live(profile)
      BY <1>1, <3>1 DEF validateProfileReferences
    <3> QED
      BY <1>4, <2>1, <3>1, <3>2 DEF Profiles
  <2>2. CASE g # f
    <3>1. captcha'[g] = captcha[g] /\ captcha[g] \in Captchas
      BY <1>1, <1>3, <2>2 DEF TypeOK
    <3> QED
      BY <1>3, <1>4, <3>1 DEF CaptchaInv, Profiles
  <2> QED
    BY <2>1, <2>2
<1>6. \A i \in Ids : note[i].form # None => note[i].form \in Forms /\ note[i].form # f
  BY <1>2, <1>3 DEF RowInv, RowOK, Live, TypeOK, Notes
<1>7. ASSUME NEW i \in Ids, note'[i] = note[i], made <= made'
      PROVE  RowOK(i)'
  <2> SUFFICES ASSUME note[i].form # None
               PROVE  RowOK(i)'
    BY <1>7 DEF RowOK
  <2>1. note[i].form \in Forms /\ captcha'[note[i].form] = captcha[note[i].form]
    BY <1>1, <1>3, <1>6 DEF TypeOK
  <2>2. note[i].mailer \in Mailers \cup {None}
    BY <1>3 DEF TypeOK, Notes
  <2>4. RowOK(i)
    BY <1>3 DEF RowInv
  <2>6. made \in Nat /\ made' \in Nat
    BY <1>1, <1>3, AddNoteFacts, FormConfigAssumption DEF TypeOK
  <2>3. i <= made'
    BY <1>7, <2>4, <2>6 DEF RowOK, Ids
  <2>5. life'[note[i].form] = "live" /\ (note[i].mailer # None => life'[note[i].mailer] = "live")
    BY <1>4, <2>1, <2>2, <2>4 DEF RowOK, Profiles
  <2> QED
    BY <1>7, <2>1, <2>3, <2>4, <2>5 DEF RowOK, Live, Unsafe
<1>8. CASE UNCHANGED <<made, note>>
  <2>1. made <= made'
    BY <1>3, <1>8 DEF TypeOK
  <2> QED
    BY <1>4, <1>5, <1>7, <1>8, <2>1 DEF RowInv, KeepsRows
<1>9. CASE AddNote(f, email)
  <2>1. /\ made + 1 \in Ids /\ made' = made + 1 /\ note'[made + 1] = Row(f, email)
        /\ \A i \in Ids : i # made + 1 => note'[i] = note[i]
    BY <1>1, <1>3, <1>9, AddNoteFacts
  <2>2. ASSUME NEW j \in Ids, j = made + 1
        PROVE  RowOK(j)'
    <3>1. captcha'[f] = profile
      BY <1>1, <1>3 DEF TypeOK
    <3>2. email.mailer \in Mailers \cup {None}
      BY DEF Settings
    <3>3. email.mailer # None => life'[email.mailer] = "live"
      BY <1>1, <1>4, <3>2 DEF validateProfileReferences, Profiles
    <3>4. note'[j] = Row(f, email) /\ j <= made'
      BY <2>1, <2>2, FormConfigAssumption DEF Ids
    <3> QED
      BY <1>1, <1>4, <3>1, <3>3, <3>4, RowTyped DEF RowOK, Unsafe, Live
  <2>3. made \in Nat /\ made <= made'
    BY <1>3, <2>1, FormConfigAssumption DEF TypeOK
  <2>4. RowInv'
    <3> SUFFICES ASSUME NEW i \in Ids
                 PROVE  RowOK(i)'
      BY DEF RowInv
    <3> QED
      BY <1>7, <2>1, <2>2, <2>3
  <2>5. \A i \in Ids : i <= made => note'[i] = note[i]
    BY <2>1, <2>3 DEF Ids
  <2> QED
    BY <1>4, <1>5, <2>3, <2>4, <2>5 DEF KeepsRows
<1> QED
  BY <1>1, <1>8, <1>9

LEMMA CreateEmailDeliveryRows ==
  ASSUME IInv, NEW f \in Forms, CreateEmailDelivery(f)
  PROVE  RowInv' /\ CaptchaInv' /\ KeepsRows
<1>1. PICK email \in Settings :
        /\ Live(f) /\ prepareEmailDelivery(email) /\ ~Unsafe(email, captcha[f])
        /\ validateProfileReferences(email.mailer, None) /\ AddNote(f, email)
  BY DEF CreateEmailDelivery, EmailAllowed
<1>2. TypeOK /\ RowInv /\ CaptchaInv /\ UNCHANGED <<life, captcha>>
  BY DEF IInv, CreateEmailDelivery
<1>3. /\ made + 1 \in Ids /\ made' = made + 1 /\ note'[made + 1] = Row(f, email)
      /\ \A i \in Ids : i # made + 1 => note'[i] = note[i]
  BY <1>1, <1>2, AddNoteFacts DEF prepareEmailDelivery
<1>4. made \in Nat
  BY <1>2, FormConfigAssumption DEF TypeOK
<1>5. ASSUME NEW i \in Ids
      PROVE  RowOK(i)'
  <2>1. CASE i = made + 1
    BY <1>1, <1>2, <1>3, <1>4, <2>1, RowTyped
       DEF RowOK, Unsafe, validateProfileReferences, Live, Ids
  <2>2. CASE i # made + 1
    <3>1. RowOK(i) /\ note'[i] = note[i]
      BY <1>2, <1>3, <2>2 DEF RowInv
    <3> QED
      BY <1>2, <1>3, <1>4, <3>1 DEF RowOK, Unsafe, Live, Ids
  <2> QED
    BY <2>1, <2>2
<1>6. KeepsRows
  BY <1>2, <1>3, <1>4 DEF KeepsRows, Live, Ids
<1> QED
  BY <1>2, <1>5, <1>6 DEF RowInv, CaptchaInv, Live

\* The primary notification that an update carries is a row of its form or of
\* none by now, so the check of the settings among themselves and the check of
\* the other notifications together cover the form.
LEMMA UpdateRows ==
  ASSUME IInv, NEW t \in Editors, Update(t)
  PROVE  RowInv' /\ CaptchaInv' /\ KeepsRows
<1> DEFINE e == edit[t]
<1>1. /\ e \in Edits /\ e.form \in Forms /\ e.email \in Settings
      /\ e.captcha \in Captchas \cup {None} /\ e.primary \in Ids \cup {0}
      /\ e.email.mailer \in Mailers \cup {None}
  BY UpdateFacts DEF IInv, Edits, Settings
<1>2. TypeOK /\ RowInv /\ CaptchaInv /\ UNCHANGED life
  BY DEF IInv, Update
<1>3. /\ prepareEmailDelivery(e.email) /\ ~Unsafe(e.email, e.captcha)
      /\ e.primary # 0 => Still(e.primary, e.form)
  BY DEF IInv, PendingInv, CarriedInv
<1>4. /\ Live(e.form)
      /\ validateProfileReferences(e.email.mailer, e.captcha)
      /\ validateAdditionalDynamicRecipients(e.form, e.primary, e.captcha)
      /\ captcha' = [captcha EXCEPT ![e.form] = e.captcha]
  BY DEF Update
<1>5. made \in Nat /\ \A i \in Ids : i \in Nat /\ i # 0
  BY <1>2, FormConfigAssumption DEF TypeOK, Ids
<1>6. captcha'[e.form] = e.captcha /\ \A f \in Forms : f # e.form => captcha'[f] = captcha[f]
  BY <1>1, <1>2, <1>4 DEF TypeOK
<1>7. CaptchaInv'
  <2> SUFFICES ASSUME NEW f \in Forms, captcha'[f] # None
               PROVE  life'[f] = "live" /\ life'[captcha'[f]] = "live"
    BY DEF CaptchaInv, Live
  <2> QED
    BY <1>2, <1>4, <1>6 DEF CaptchaInv, Live, validateProfileReferences
<1>8. ASSUME NEW i \in Ids, i # e.primary, note'[i] = note[i], made' \in Nat, made <= made'
      PROVE  RowOK(i)'
  <2>1. RowOK(i) /\ note[i].form \in Forms \cup {None}
    BY <1>2 DEF RowInv, TypeOK, Notes
  <2>2. note[i].form # None => ~Unsafe(note[i], captcha'[note[i].form])
    <3>1. CASE note[i].form = e.form
      BY <1>4, <1>6, <1>8, <3>1 DEF validateAdditionalDynamicRecipients, NotesOf
    <3>2. CASE note[i].form # e.form
      BY <1>6, <2>1, <3>2 DEF RowOK
    <3> QED
      BY <3>1, <3>2
  <2> QED
    BY <1>2, <1>5, <1>8, <2>1, <2>2 DEF RowOK, Unsafe, Live
<1>9. ASSUME NEW i \in Ids, note'[i] = Row(e.form, e.email), i <= made'
      PROVE  RowOK(i)'
  BY <1>1, <1>2, <1>3, <1>4, <1>6, <1>9, RowTyped
     DEF RowOK, Unsafe, Live, validateProfileReferences
<1>10. CASE e.primary # 0
  <2> DEFINE p == e.primary
  <2>1. p \in Ids /\ note[p] \in Notes /\ note[p].form \in {None, e.form} /\ p <= made
    BY <1>1, <1>2, <1>3, <1>10 DEF TypeOK, Still
  <2>2. /\ note' = [note EXCEPT ![p] = IF note[p].form = None THEN note[p]
                                      ELSE Row(note[p].form, e.email)]
        /\ made' = made
    BY <1>10 DEF Update
  <2>3. /\ \A i \in Ids : i # p => note'[i] = note[i]
        /\ note[p].form = None => note'[p] = note[p]
        /\ note[p].form # None => note'[p] = Row(e.form, e.email)
    BY <1>2, <2>1, <2>2 DEF TypeOK
  <2> HIDE DEF e
  <2>4. note'[p].form = note[p].form
    BY <1>1, <2>1, <2>3, RowTyped
  <2>5. made <= made' /\ made' \in Nat
    BY <1>5, <2>2
  <2>6. ASSUME NEW i \in Ids
        PROVE  RowOK(i)' /\ note'[i].form = note[i].form
    <3>1. CASE i # p
      BY <1>8, <2>3, <2>5, <3>1
    <3>2. CASE i = p /\ note[p].form # None
      BY <1>9, <2>1, <2>2, <2>3, <2>4, <3>2
    <3>3. CASE i = p /\ note[p].form = None
      BY <2>4, <3>3 DEF RowOK
    <3> QED
      BY <3>1, <3>2, <3>3
  <2> QED
    BY <1>2, <1>7, <2>5, <2>6 DEF RowInv, KeepsRows, Live
<1>11. CASE e.primary = 0 /\ UNCHANGED <<note, made>>
  <2>1. made <= made' /\ made' \in Nat /\ \A i \in Ids : note'[i] = note[i] /\ i # e.primary
    BY <1>5, <1>11
  <2> HIDE DEF e
  <2> QED
    BY <1>2, <1>7, <1>8, <2>1 DEF RowInv, KeepsRows, Live
<1>12. CASE e.primary = 0 /\ AddNote(e.form, e.email)
  <2>1. /\ made + 1 \in Ids /\ made' = made + 1 /\ note'[made + 1] = Row(e.form, e.email)
        /\ \A i \in Ids : i # made + 1 => note'[i] = note[i]
    BY <1>1, <1>2, <1>3, <1>12, AddNoteFacts DEF prepareEmailDelivery
  <2>2. made <= made' /\ made' \in Nat /\ made + 1 <= made'
    BY <1>5, <2>1
  <2> HIDE DEF e
  <2>3. ASSUME NEW i \in Ids
        PROVE  RowOK(i)'
    <3>1. CASE i = made + 1
      BY <1>9, <2>1, <2>2, <3>1
    <3>2. CASE i # made + 1
      BY <1>5, <1>8, <1>12, <2>1, <2>2, <3>2
    <3> QED
      BY <3>1, <3>2
  <2>4. \A i \in Ids : i <= made => note'[i].form = note[i].form
    BY <1>5, <2>1
  <2> QED
    BY <1>2, <1>7, <2>2, <2>3, <2>4 DEF RowInv, KeepsRows, Live
<1>13. e.primary # 0 \/ (e.primary = 0 /\ UNCHANGED <<note, made>>)
         \/ (e.primary = 0 /\ AddNote(e.form, e.email))
  BY DEF Update
<1> QED
  BY <1>10, <1>11, <1>12, <1>13

LEMMA UpdateEmailDeliveryRows ==
  ASSUME IInv, NEW i \in Ids, UpdateEmailDelivery(i)
  PROVE  RowInv' /\ CaptchaInv' /\ KeepsRows
<1>1. PICK email \in Settings :
        EmailAllowed(note[i].form, email) /\ note' = [note EXCEPT ![i] = Row(note[i].form, email)]
  BY DEF UpdateEmailDelivery
<1>2. TypeOK /\ RowInv /\ CaptchaInv /\ UNCHANGED <<life, captcha, made>>
  BY DEF IInv, UpdateEmailDelivery
<1>3. /\ \A j \in Ids : j # i => note'[j] = note[j]
      /\ note'[i] = Row(note[i].form, email) /\ note[i].form \in Forms \cup {None}
  BY <1>1, <1>2 DEF TypeOK, Notes
<1>4. RowOK(i)'
  BY <1>1, <1>2, <1>3, RowTyped
     DEF RowOK, RowInv, EmailAllowed, Unsafe, validateProfileReferences, Live
<1>5. ASSUME NEW j \in Ids, j # i
      PROVE  RowOK(j)'
  BY <1>2, <1>3, <1>5 DEF RowInv, RowOK, Unsafe, Live
<1>6. KeepsRows
  BY <1>2, <1>3, RowTyped, FormConfigAssumption DEF KeepsRows, TypeOK, Live
<1> QED
  BY <1>2, <1>4, <1>5, <1>6 DEF RowInv, CaptchaInv, Live

\* The backfill only disables notifications.
LEMMA MigrateRows ==
  ASSUME IInv, Migrate
  PROVE  RowInv' /\ CaptchaInv' /\ KeepsRows
<1>1. TypeOK /\ RowInv /\ CaptchaInv /\ UNCHANGED <<life, captcha, made>>
  BY DEF IInv, Migrate
<1>2. ASSUME NEW i \in Ids
      PROVE  /\ note'[i].form = note[i].form /\ note'[i].mailer = note[i].mailer
             /\ note'[i].source = note[i].source /\ (note'[i].enabled => note[i].enabled)
  <2>1. note[i] \in Notes
    BY <1>1 DEF TypeOK
  <2>2. note'[i] = note[i] \/ note'[i] = [note[i] EXCEPT !.enabled = FALSE]
    BY DEF Migrate
  <2> QED
    BY <2>1, <2>2 DEF Notes
<1>3. RowInv'
  BY <1>1, <1>2 DEF RowInv, RowOK, Unsafe, Live
<1> QED
  BY <1>1, <1>2, <1>3, FormConfigAssumption DEF KeepsRows, CaptchaInv, TypeOK, Live

LEMMA ProfileRows ==
  ASSUME IInv, NEW p \in Profiles, CreateProfile(p) \/ deleteProfile(p)
  PROVE  RowInv' /\ CaptchaInv' /\ KeepsRows
<1>1. TypeOK /\ RowInv /\ CaptchaInv /\ UNCHANGED <<captcha, note, made>>
  BY DEF IInv, CreateProfile, deleteProfile
<1>2. \A x \in Forms \cup Profiles : Live(x) /\ (x = p => ~deleteProfile(p)) => life'[x] = "live"
  BY <1>1 DEF CreateProfile, deleteProfile, TypeOK, Live
<1>3. deleteProfile(p) =>
        /\ \A f \in Forms : captcha[f] # p
        /\ \A i \in Ids : note[i].mailer # p
  BY DEF deleteProfile, Referenced
<1>4. \A f \in Forms : f # p
  BY FormConfigAssumption DEF Profiles
<1>5. CaptchaInv'
  <2> SUFFICES ASSUME NEW f \in Forms, captcha[f] # None
               PROVE  life'[f] = "live" /\ life'[captcha[f]] = "live"
    BY <1>1 DEF CaptchaInv, Live
  <2>1. captcha[f] \in Profiles /\ Live(captcha[f]) /\ Live(f)
    BY <1>1 DEF CaptchaInv, TypeOK, Profiles
  <2> QED
    BY <1>2, <1>3, <1>4, <2>1
<1>6. ASSUME NEW i \in Ids
      PROVE  RowOK(i)'
  <2>1. RowOK(i) /\ note[i].form \in Forms \cup {None} /\ note[i].mailer \in Profiles \cup {None}
    BY <1>1 DEF RowInv, TypeOK, Notes, Profiles
  <2> QED
    BY <1>1, <1>2, <1>3, <1>4, <2>1 DEF RowOK, Live, Unsafe
<1>7. KeepsRows
  BY <1>1, <1>2, <1>4, FormConfigAssumption DEF KeepsRows, TypeOK
<1> QED
  BY <1>5, <1>6, <1>7 DEF RowInv

LEMMA DeleteRows ==
  ASSUME IInv, \/ \E f \in Forms : DeleteForm(f)
               \/ \E i \in Ids : DeleteEmailDelivery(i)
  PROVE  /\ RowInv' /\ CaptchaInv' /\ made' = made
         /\ \A i \in Ids : note'[i].form \in {None, note[i].form}
<1>1. TypeOK /\ RowInv /\ CaptchaInv /\ made' = made
  BY DEF IInv, DeleteForm, DeleteEmailDelivery
<1>2. \A i \in Ids : note'[i] \in {NoRow, note[i]}
  BY <1>1 DEF DeleteForm, DeleteEmailDelivery, TypeOK
<1>3. ASSUME NEW f \in Forms, DeleteForm(f)
      PROVE  RowInv' /\ CaptchaInv'
  <2>1. /\ life' = [life EXCEPT ![f] = "gone"]
        /\ captcha' = [captcha EXCEPT ![f] = None]
        /\ \A i \in Ids : note[i].form = f => note'[i] = NoRow
    BY <1>3 DEF DeleteForm
  <2>2. \A x \in Forms \cup Profiles : x # f /\ Live(x) => life'[x] = "live"
    BY <1>1, <2>1 DEF TypeOK, Live
  <2>3. \A p \in Profiles : p # f
    BY FormConfigAssumption DEF Profiles
  <2>4. CaptchaInv'
    <3> SUFFICES ASSUME NEW g \in Forms, captcha'[g] # None
                 PROVE  life'[g] = "live" /\ life'[captcha'[g]] = "live"
      BY DEF CaptchaInv, Live
    <3>1. g # f /\ captcha'[g] = captcha[g] /\ captcha[g] \in Profiles
      BY <1>1, <2>1 DEF TypeOK, Profiles
    <3> QED
      BY <1>1, <2>2, <2>3, <3>1 DEF CaptchaInv
  <2>5. ASSUME NEW i \in Ids
        PROVE  RowOK(i)'
    <3>1. CASE note'[i] = NoRow
      BY <3>1, BlankTyped DEF RowOK
    <3>2. CASE note'[i] = note[i] /\ note[i].form # None /\ note[i].form # f
      <4>1. RowOK(i) /\ note[i].form \in Forms /\ note[i].mailer \in Profiles \cup {None}
        BY <1>1, <3>2 DEF RowInv, TypeOK, Notes, Profiles
      <4>2. captcha'[note[i].form] = captcha[note[i].form]
        BY <1>1, <2>1, <3>2, <4>1 DEF TypeOK
      <4> QED
        BY <1>1, <2>2, <2>3, <3>2, <4>1, <4>2 DEF RowOK, Live, Unsafe
    <3>3. CASE note'[i] = note[i] /\ note[i].form = None
      BY <3>3 DEF RowOK
    <3> QED
      BY <1>2, <2>1, <3>1, <3>2, <3>3
  <2> QED
    BY <2>4, <2>5 DEF RowInv
<1>4. ASSUME NEW d \in Ids, DeleteEmailDelivery(d)
      PROVE  RowInv' /\ CaptchaInv'
  <2>1. UNCHANGED <<life, captcha>>
    BY <1>4 DEF DeleteEmailDelivery
  <2>2. ASSUME NEW i \in Ids
        PROVE  RowOK(i)'
    <3>1. RowOK(i)
      BY <1>1 DEF RowInv
    <3> QED
      BY <1>1, <1>2, <2>1, <3>1, BlankTyped DEF RowOK, Live, Unsafe
  <2> QED
    BY <1>1, <2>1, <2>2 DEF RowInv, CaptchaInv, Live
<1> QED
  BY <1>1, <1>2, <1>3, <1>4, BlankTyped

\* A step rewrites rows in place and adds new ones, or deletes some.
LEMMA NextRows ==
  ASSUME IInv, [Next]_vars
  PROVE  /\ RowInv' /\ CaptchaInv'
         /\ \/ KeepsRows
            \/ \E f \in Forms : DeleteForm(f)
            \/ \E i \in Ids : DeleteEmailDelivery(i)
<1>1. CASE UNCHANGED <<life, captcha, note, made>>
  <2>1. RowInv' /\ CaptchaInv'
    BY <1>1 DEF IInv, RowInv, RowOK, CaptchaInv, Live
  <2>2. KeepsRows
    BY <1>1, FormConfigAssumption DEF IInv, TypeOK, KeepsRows, Live
  <2> QED
    BY <2>1, <2>2
<1>2. \/ UNCHANGED <<life, captcha, note, made>>
      \/ \E f \in Forms : Create(f) \/ DeleteForm(f) \/ CreateEmailDelivery(f)
      \/ \E t \in Editors : Update(t)
      \/ \E i \in Ids : UpdateEmailDelivery(i) \/ DeleteEmailDelivery(i)
      \/ \E p \in Profiles : CreateProfile(p) \/ deleteProfile(p)
      \/ Migrate
  BY DEF Next, vars, ReadSettings, LoadPrimary, UpdateFails, LoadForm, LoadDeliveries,
         verifyCaptcha, RefuseSubmission, CreateSubmission, SendEmail, FailEmail,
         RetryEmailEvent, Becomes
<1> QED
  BY <1>1, <1>2, CreateRows, CreateEmailDeliveryRows, UpdateRows, UpdateEmailDeliveryRows,
     ProfileRows, MigrateRows, DeleteRows

LEMMA StillStep ==
  ASSUME IInv, [Next]_vars, NEW i \in Ids, NEW f, Still(i, f)
  PROVE  i <= made' /\ note'[i].form \in {None, f}
<1>1. made \in Nat /\ i \in Nat
  BY FormConfigAssumption DEF IInv, TypeOK, Ids
<1>2. KeepsRows \/ (made' = made /\ note'[i].form \in {None, note[i].form})
  BY NextRows, DeleteRows
<1>3. made' \in Nat
  BY NextTypeOK, FormConfigAssumption DEF IInv, TypeOK
<1> QED
  BY <1>1, <1>2, <1>3 DEF Still, KeepsRows

\* A row that is read by its form's name is still that form's.
LEMMA ReadStill ==
  ASSUME TypeOK, RowInv, NEW f \in Forms, NEW i \in NotesOf(f)
  PROVE  i \in Ids /\ Still(i, f)
<1>1. i \in Ids /\ note[i].form = f /\ f # None
  BY FormConfigAssumption DEF NotesOf
<1> QED
  BY <1>1 DEF RowInv, RowOK, Still

LEMMA NextCarriedInv ==
  ASSUME IInv, [Next]_vars
  PROVE  CarriedInv'
<1>0. TypeOK /\ PendingInv /\ RowInv /\ CarriedInv
  BY DEF IInv
<1>1. ASSUME NEW t \in Editors, edit'[t].primary # 0
      PROVE  edit'[t].primary <= made' /\ note'[edit'[t].primary].form \in {None, edit'[t].form}
  <2>1. ASSUME NEW x \in Edits, x.primary # 0, Still(x.primary, x.form), edit'[t] = x
        PROVE  edit'[t].primary <= made' /\ note'[edit'[t].primary].form \in {None, edit'[t].form}
    <3>1. x.primary \in Ids
      BY <2>1 DEF Edits
    <3> QED
      BY <2>1, <3>1, StillStep
  <2>2. edit[t] \in Edits /\ (edit[t].primary # 0 => Still(edit[t].primary, edit[t].form))
    BY <1>0 DEF TypeOK, CarriedInv
  <2>3. CASE edit'[t] = edit[t]
    BY <1>1, <2>1, <2>2, <2>3
  <2>4. CASE edit'[t] # edit[t] /\ \E u \in Editors : ReadSettings(u) \/ LoadPrimary(u)
    <3>1. PICK u \in Editors : ReadSettings(u) \/ LoadPrimary(u)
      BY <2>4
    <3>2. PICK x \in Edits : /\ edit' = [edit EXCEPT ![u] = x] /\ x.form \in Forms
                             /\ x.primary = 0 \/ IsPrimary(x.form, x.primary)
      BY <1>0, <3>1, EditSteps DEF PendingInv
    <3>3. edit'[t] = x
      BY <1>0, <2>4, <3>2 DEF TypeOK
    <3>4. x.primary \in NotesOf(x.form)
      BY <1>1, <3>2, <3>3 DEF IsPrimary
    <3> QED
      BY <1>0, <1>1, <2>1, <3>2, <3>3, <3>4, ReadStill
  <2>5. CASE edit'[t] # edit[t] /\ \E u \in Editors : edit' = [edit EXCEPT ![u] = NoEdit]
    <3>1. edit'[t] = NoEdit
      BY <1>0, <2>5 DEF TypeOK
    <3> QED
      BY <1>1, <3>1, BlankTyped
  <2> QED
    BY <2>3, <2>4, <2>5, WhoEdits
<1>2. ASSUME NEW r \in Requests
      PROVE  /\ req'[r].pc = "idle" => req'[r].due = {}
             /\ \A d \in req'[r].due : d.id <= made' /\ note'[d.id].form \in {None, req'[r].form}
  <2>1. ASSUME NEW x \in Submissions, \A d \in x.due : Still(d.id, x.form), req'[r] = x
        PROVE  \A d \in req'[r].due : d.id <= made' /\ note'[d.id].form \in {None, req'[r].form}
    <3>1. \A d \in x.due : d.id \in Ids
      BY DEF Submissions
    <3> QED
      BY <2>1, <3>1, StillStep
  <2>2. req[r] \in Submissions /\ (req[r].pc = "idle" => req[r].due = {})
          /\ \A d \in req[r].due : Still(d.id, req[r].form)
    BY <1>0 DEF TypeOK, CarriedInv
  <2>3. CASE req'[r] = req[r]
    BY <2>1, <2>2, <2>3
  <2>4. CASE req'[r] # req[r]
             /\ \E s \in Requests : LoadForm(s) \/ LoadDeliveries(s) \/ verifyCaptcha(s)
    <3>1. PICK s \in Requests : LoadForm(s) \/ LoadDeliveries(s) \/ verifyCaptcha(s)
      BY <2>4
    <3>2. PICK x \in Submissions :
            /\ req' = [req EXCEPT ![s] = x]
            /\ x.pc # "idle" /\ x.form \in Forms
            /\ \/ x.due = req[s].due /\ (req[s].pc = "idle" \/ x.form = req[s].form)
               \/ \A d \in x.due : d.id \in NotesOf(x.form)
      BY <1>0, <3>1, RequestSteps DEF PendingInv
    <3>3. req'[r] = x /\ s = r
      BY <1>0, <2>4, <3>2 DEF TypeOK
    <3>4. \A d \in x.due : Still(d.id, x.form)
      BY <1>0, <2>2, <3>2, <3>3, ReadStill
    <3> QED
      BY <2>1, <3>2, <3>3, <3>4
  <2>5. CASE req'[r] # req[r]
             /\ \E s \in Requests : req' = [req EXCEPT ![s] = [NoRequest EXCEPT !.pc = "done"]]
    <3>1. req'[r] = [NoRequest EXCEPT !.pc = "done"]
      BY <1>0, <2>5 DEF TypeOK
    <3> QED
      BY <3>1 DEF NoRequest
  <2> QED
    BY <2>3, <2>4, <2>5, WhoSubmits
<1> QED
  BY <1>1, <1>2 DEF CarriedInv, Still

\* What survives a step other than a deletion.
LEMMA EventStays ==
  ASSUME IInv, KeepsRows, NEW e \in Events, Live(e.form),
         e.note # 0 => note[e.note].form = e.form
  PROVE  life'[e.form] = "live" /\ (e.note # 0 => note'[e.note].form = e.form)
<1>1. e.form \in Forms /\ e.form # None /\ (e.note # 0 => e.note \in Ids)
  BY FormConfigAssumption DEF Events
<1>2. e.note # 0 => e.note <= made
  BY <1>1 DEF IInv, RowInv, RowOK
<1> QED
  BY <1>1, <1>2 DEF KeepsRows

LEMMA NextEventInv ==
  ASSUME IInv, [Next]_vars
  PROVE  EventInv'
<1>0. TypeOK /\ PendingInv /\ RowInv /\ CarriedInv /\ EventInv
  BY DEF IInv
<1>1. ASSUME KeepsRows, events' = events
      PROVE  EventInv'
  <2>1. \A d \in events : life'[d.form] = "live" /\ (d.note # 0 => note'[d.note].form = d.form)
    BY <1>0, <1>1, EventStays DEF TypeOK, EventInv
  <2> QED
    BY <1>1, <2>1 DEF EventInv, Live
<1>2. ASSUME NEW f \in Forms, DeleteForm(f)
      PROVE  EventInv'
  <2> SUFFICES ASSUME NEW e \in events'
               PROVE  life'[e.form] = "live" /\ (e.note # 0 => note'[e.note].form = e.form)
    BY DEF EventInv, Live
  <2>1. e \in events /\ e.form # f /\ e \in Events
    BY <1>0, <1>2 DEF DeleteForm, TypeOK
  <2>2. e.form \in Forms /\ (e.note # 0 => e.note \in Ids)
    BY <2>1 DEF Events
  <2> QED
    BY <1>0, <1>2, <2>1, <2>2 DEF DeleteForm, TypeOK, EventInv, Live
<1>3. ASSUME NEW i \in Ids, DeleteEmailDelivery(i)
      PROVE  EventInv'
  <2> SUFFICES ASSUME NEW e \in events'
               PROVE  life'[e.form] = "live" /\ (e.note # 0 => note'[e.note].form = e.form)
    BY DEF EventInv, Live
  <2>1. PICK d \in events : e = IF d.note = i THEN [d EXCEPT !.note = 0] ELSE d
    BY <1>3 DEF DeleteEmailDelivery, Unlinked
  <2>2. d \in Events
    BY <1>0 DEF TypeOK
  <2>3. e.form = d.form /\ (e.note # 0 => e.note = d.note /\ d.note # i) /\ (d.note # 0 => d.note \in Ids)
    BY <2>1, <2>2 DEF Events
  <2> QED
    BY <1>0, <1>3, <2>3 DEF DeleteEmailDelivery, TypeOK, EventInv, Live
<1>4. ASSUME NEW r \in Requests, CreateSubmission(r)
      PROVE  EventInv'
  <2> SUFFICES ASSUME NEW e \in events'
               PROVE  Live(e.form) /\ (e.note # 0 => note[e.note].form = e.form)
    BY <1>4 DEF CreateSubmission, EventInv, Live
  <2>1. CASE e \in events
    BY <1>0, <2>1 DEF EventInv
  <2>2. CASE e \in createDeliveryEvents(r)
    <3>1. PICK d \in req[r].due : e = NewEmailEvent(r, d)
      BY <2>2 DEF createDeliveryEvents
    <3>2. e.form = req[r].form /\ e.note = d.id
      BY <3>1 DEF NewEmailEvent
    <3>3. Still(d.id, req[r].form)
      BY <1>0 DEF CarriedInv
    <3> QED
      BY <1>4, <2>2, <3>2, <3>3 DEF CreateSubmission, Still
  <2> QED
    BY <1>4, <2>1, <2>2 DEF CreateSubmission
<1>5. ASSUME NEW e \in events, SendEmail(e) \/ FailEmail(e) \/ RetryEmailEvent(e)
      PROVE  EventInv'
  <2>1. PICK f : Becomes(e, f) /\ f.form = e.form /\ f.note = e.note
    <3>1. e \in Events
      BY <1>0 DEF TypeOK
    <3>2. ASSUME SendEmail(e)
          PROVE  \E f : Becomes(e, f) /\ f.form = e.form /\ f.note = e.note
      <4> DEFINE f == [e EXCEPT !.status = "sent", !.via = e.note]
      <4>1. f.form = e.form /\ f.note = e.note
        BY <3>1 DEF Events
      <4>2. Becomes(e, f)
        BY <3>2 DEF SendEmail
      <4> HIDE DEF f
      <4> QED
        BY <4>1, <4>2
    <3> QED
      BY <1>5, <3>1, <3>2 DEF FailEmail, RetryEmailEvent, Events
  <2>2. UNCHANGED <<life, note>> /\ events' = (events \ {e}) \cup {f}
    BY <2>1 DEF Becomes
  <2> QED
    BY <1>0, <2>1, <2>2 DEF EventInv, Live
<1>6. CASE Migrate
  <2> SUFFICES ASSUME NEW e \in events'
               PROVE  life'[e.form] = "live" /\ (e.note # 0 => note'[e.note].form = e.form)
    BY DEF EventInv, Live
  <2>1. KeepsRows
    BY <1>6, MigrateRows
  <2>2. PICK primary \in [Forms -> Ids \cup {0}] :
          /\ \A f \in Forms : IsPrimary(f, primary[f])
          /\ events' = {IF d.note = 0 THEN [d EXCEPT !.note = primary[d.form]] ELSE d : d \in events}
    BY <1>6 DEF Migrate
  <2>3. PICK d \in events : e = IF d.note = 0 THEN [d EXCEPT !.note = primary[d.form]] ELSE d
    BY <2>2
  <2>4. d \in Events /\ Live(d.form) /\ (d.note # 0 => note[d.note].form = d.form)
    BY <1>0 DEF TypeOK, EventInv
  <2>5. e.form = d.form /\ e \in Events /\ (e.note # 0 => note[e.note].form = e.form)
    <3>1. CASE d.note = 0
      <4>1. /\ d.form \in Forms /\ e = [d EXCEPT !.note = primary[d.form]]
            /\ primary[d.form] \in Ids \cup {0}
        BY <2>2, <2>3, <2>4, <3>1 DEF Events
      <4>2. e.form = d.form /\ e.note = primary[d.form] /\ e \in Events
        BY <2>4, <4>1 DEF Events
      <4> QED
        BY <2>2, <4>1, <4>2 DEF IsPrimary, NotesOf
    <3>2. CASE d.note # 0
      BY <2>3, <2>4, <3>2
    <3> QED
      BY <3>1, <3>2
  <2> QED
    BY <2>1, <2>4, <2>5, EventStays
<1>7. \/ events' = events
      \/ \E f \in Forms : DeleteForm(f)
      \/ \E i \in Ids : DeleteEmailDelivery(i)
      \/ \E r \in Requests : CreateSubmission(r)
      \/ \E e \in events : SendEmail(e) \/ FailEmail(e) \/ RetryEmailEvent(e)
      \/ Migrate
  BY DEF Next, vars, Create, CreateEmailDelivery, ReadSettings, LoadPrimary, Update,
         UpdateFails, UpdateEmailDelivery, CreateProfile, deleteProfile, LoadForm,
         LoadDeliveries, verifyCaptcha, RefuseSubmission
<1> QED
  BY <1>1, <1>2, <1>3, <1>4, <1>5, <1>6, <1>7, NextRows

LEMMA NextIInv == IInv /\ [Next]_vars => IInv'
<1> SUFFICES ASSUME IInv, [Next]_vars PROVE IInv'
  OBVIOUS
<1>1. TypeOK'
  BY NextTypeOK DEF IInv
<1> QED
  BY <1>1, NextPendingInv, NextRows, NextEventInv, NextCarriedInv DEF IInv

LEMMA Invariant == Spec => []IInv
BY InitIInv, NextIInv, PTL DEF Spec

\* In every state the rows, the updates, the submissions and the events have
\* the types above, and every enabled notification names a mailer profile,
\* which prepareEmailDelivery demands of each of the four writers.
THEOREM FormConfigTypeOK == Spec => []TypeOK
<1>1. IInv => TypeOK
  BY DEF IInv
<1> QED
  BY <1>1, Invariant, PTL

\* However many form updates, notification changes, deletions and migrations
\* interleave, no enabled notification with a field recipient belongs to a
\* form without a captcha profile, although Update checks the settings it
\* carries before its transaction and names its primary notification by an id
\* it read earlier.
THEOREM FormConfigSafeguarded == Spec => []Safeguarded
<1>1. IInv => Safeguarded
  BY DEF IInv, RowInv, RowOK, Safeguarded
<1> QED
  BY <1>1, Invariant, PTL

\* Forms and notifications refer to live profiles, notifications and events to
\* live forms, events to notifications of their own form: no deletion, update
\* or backfill in any order leaves a dangling or a crossed reference.
THEOREM FormConfigReferencesExist == Spec => []ReferencesExist
<1>1. IInv => ReferencesExist
  BY DEF IInv, CaptchaInv, RowInv, RowOK, EventInv, ReferencesExist
<1> QED
  BY <1>1, Invariant, PTL

\* Types and references together, as the operations use them.
THEOREM FormConfigInv == Spec => []Inv
BY FormConfigTypeOK, FormConfigReferencesExist, PTL DEF Inv

(***************************************************************************)
(* Submissions.                                                            *)
(***************************************************************************)

\* verifyCaptcha and createDeliveryEvents go by the same copy of the form.
VerifiedInv ==
  \A r \in Requests :
    req[r].pc = "admitted" => req[r].verified = (req[r].public /\ req[r].captcha # None)

LEMMA NextVerifiedInv ==
  ASSUME IInv, VerifiedInv, [Next]_vars
  PROVE  VerifiedInv'
<1> SUFFICES ASSUME NEW r \in Requests, req'[r].pc = "admitted"
             PROVE  req'[r].verified = (req'[r].public /\ req'[r].captcha # None)
  BY DEF VerifiedInv
<1>0. TypeOK
  BY DEF IInv
<1>1. CASE req'[r] = req[r]
  BY <1>1 DEF VerifiedInv
<1>2. CASE req'[r] # req[r]
           /\ \E s \in Requests : LoadForm(s) \/ LoadDeliveries(s) \/ verifyCaptcha(s)
  <2>1. PICK s \in Requests : LoadForm(s) \/ LoadDeliveries(s) \/ verifyCaptcha(s)
    BY <1>2
  <2>2. PICK x \in Submissions :
          /\ req' = [req EXCEPT ![s] = x]
          /\ x.pc = "admitted" => x.verified = (x.public /\ x.captcha # None)
    BY <1>0, <2>1, RequestSteps
  <2>3. req'[r] = x
    BY <1>0, <1>2, <2>2 DEF TypeOK
  <2> QED
    BY <2>2, <2>3
<1>3. CASE req'[r] # req[r]
           /\ \E s \in Requests : req' = [req EXCEPT ![s] = [NoRequest EXCEPT !.pc = "done"]]
  BY <1>0, <1>3 DEF TypeOK, NoRequest
<1> QED
  BY <1>1, <1>2, <1>3, WhoSubmits

LEMMA NextVerifiedAtCreation ==
  ASSUME IInv, VerifiedInv, VerifiedAtCreation, [Next]_vars
  PROVE  VerifiedAtCreation'
<1> SUFFICES ASSUME NEW e \in events', e.public, e.source = "field"
             PROVE  e.verified
  BY DEF VerifiedAtCreation
<1>0. TypeOK
  BY DEF IInv
<1>1. ASSUME NEW d \in events, e.public = d.public, e.source = d.source, e.verified = d.verified
      PROVE  e.verified
  BY <1>1 DEF VerifiedAtCreation
<1>2. CASE e \in events
  BY <1>1, <1>2
<1>3. ASSUME NEW r \in Requests, CreateSubmission(r), e \in createDeliveryEvents(r)
      PROVE  e.verified
  <2>1. PICK d \in req[r].due :
          e = NewEmailEvent(r, d) /\ (d.source = "field" => req[r].captcha # None)
    BY <1>3 DEF createDeliveryEvents
  <2>2. e.public = req[r].public /\ e.source = d.source /\ e.verified = req[r].verified
    BY <2>1 DEF NewEmailEvent
  <2> QED
    BY <1>3, <2>1, <2>2 DEF VerifiedInv, CreateSubmission
<1>4. ASSUME NEW d \in events, SendEmail(d) \/ FailEmail(d) \/ RetryEmailEvent(d), e \notin events
      PROVE  e.verified
  <2>1. d \in Events
    BY <1>0 DEF TypeOK
  <2>2. \/ e = [d EXCEPT !.status = "sent", !.via = d.note]
        \/ e = [d EXCEPT !.status = "failed"]
        \/ e = [d EXCEPT !.status = "queued"]
    BY <1>4 DEF SendEmail, FailEmail, RetryEmailEvent, Becomes
  <2>3. e.public = d.public /\ e.source = d.source /\ e.verified = d.verified
    BY <2>1, <2>2 DEF Events
  <2> QED
    BY <1>1, <2>3
<1>5. ASSUME \/ Migrate
             \/ \E i \in Ids : DeleteEmailDelivery(i)
      PROVE  e.verified
  <2>1. PICK d \in events, i \in Ids \cup {0} : e = d \/ e = [d EXCEPT !.note = i]
    <3>1. CASE Migrate
      <4>1. PICK primary \in [Forms -> Ids \cup {0}] :
              events' = {IF d.note = 0 THEN [d EXCEPT !.note = primary[d.form]] ELSE d : d \in events}
        BY <3>1 DEF Migrate
      <4>2. PICK d \in events : e = d \/ e = [d EXCEPT !.note = primary[d.form]]
        BY <4>1
      <4>3. primary[d.form] \in Ids \cup {0}
        BY <1>0, <4>1 DEF TypeOK, Events
      <4> QED
        BY <4>2, <4>3
    <3>2. CASE \E i \in Ids : DeleteEmailDelivery(i)
      BY <3>2 DEF DeleteEmailDelivery, Unlinked
    <3> QED
      BY <1>5, <3>1, <3>2
  <2>2. e.public = d.public /\ e.source = d.source /\ e.verified = d.verified
    BY <1>0, <2>1 DEF TypeOK, Events
  <2> QED
    BY <1>1, <2>2
<1>6. \/ e \in events
      \/ \E r \in Requests : CreateSubmission(r) /\ e \in createDeliveryEvents(r)
      \/ \E d \in events : SendEmail(d) \/ FailEmail(d) \/ RetryEmailEvent(d)
      \/ Migrate \/ \E i \in Ids : DeleteEmailDelivery(i)
  BY DEF Next, vars, Create, CreateEmailDelivery, ReadSettings, LoadPrimary, Update,
         UpdateFails, UpdateEmailDelivery, CreateProfile, deleteProfile, LoadForm,
         LoadDeliveries, verifyCaptcha, RefuseSubmission, DeleteForm, CreateSubmission
<1> QED
  BY <1>2, <1>3, <1>4, <1>5, <1>6

\* A public submission gets an event for a field-derived recipient only if
\* Turnstile accepted it, whatever happens to the form, its notifications and
\* its captcha profile between the reads and the transaction.
THEOREM FormConfigVerifiedAtCreation == Spec => []VerifiedAtCreation
<1>1. Init => VerifiedInv /\ VerifiedAtCreation
  BY DEF Init, VerifiedInv, VerifiedAtCreation, NoRequest
<1>2. IInv /\ VerifiedInv /\ VerifiedAtCreation /\ [Next]_vars
        => (VerifiedInv /\ VerifiedAtCreation)'
  BY NextVerifiedInv, NextVerifiedAtCreation
<1> QED
  BY <1>1, <1>2, Invariant, PTL DEF Spec
=============================================================================
