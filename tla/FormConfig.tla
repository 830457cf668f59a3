----------------------------- MODULE FormConfig -----------------------------
(***************************************************************************)
(* Form definitions, email notifications and integration profiles, changed *)
(* by the admin pages and by CLI processes while public submissions are    *)
(* under way, and the email events that come of them.                      *)
(*                                                                         *)
(* A transaction is one step.  What is read outside one is a step of its   *)
(* own: loading a form (two queries), a form update (read, load, commit).  *)
(* Row ids are never reused.  Names, templates, addresses and the webhook  *)
(* settings of a form are left out: no property here tells them apart.     *)
(***************************************************************************)
EXTENDS Integers

CONSTANTS
  Forms,
  Mailers,    \* mailer profiles
  Captchas,   \* captcha profiles
  None,       \* a null reference
  Editors,    \* form updates, from a page or a CLI process
  Requests,   \* submissions
  MaxNotes    \* bound: notifications created

ASSUME FormConfigAssumption ==
  /\ None \notin Forms \cup Mailers \cup Captchas
  /\ Forms \cap (Mailers \cup Captchas) = {}
  /\ MaxNotes \in Nat

VARIABLES
  life,      \* each form and profile: not created yet, live, deleted
  captcha,   \* each form's captcha_profile_id
  note,      \* the rows of email_deliveries
  made,      \* the last id given to one
  edit,      \* the form updates
  req,       \* the submissions
  events     \* the rows of email_events; own, source and via are ghosts

vars == <<life, captcha, note, made, edit, req, events>>

Ids == 1 .. MaxNotes
Profiles == Mailers \cup Captchas
Sources == {"static", "field"}
Settings == [enabled : BOOLEAN, source : Sources, mailer : Mailers \cup {None}]
Blank == [enabled |-> FALSE, source |-> "static", mailer |-> None]
Row(f, email) ==
  [form |-> f, enabled |-> email.enabled, source |-> email.source, mailer |-> email.mailer]
NoRow == Row(None, Blank)
NoEdit == [pc |-> "idle", form |-> None, captcha |-> None, email |-> Blank,
           requested |-> FALSE, primary |-> 0]
NoRequest == [pc |-> "idle", form |-> None, public |-> FALSE, captcha |-> None,
              due |-> {}, verified |-> FALSE]

Init ==
  /\ life = [x \in Forms \cup Profiles |-> "new"]
  /\ captcha = [f \in Forms |-> None]
  /\ note = [i \in Ids |-> NoRow]
  /\ made = 0
  /\ edit = [t \in Editors |-> NoEdit]
  /\ req = [r \in Requests |-> NoRequest]
  /\ events = {}

Live(x) == life[x] = "live"
NotesOf(f) == {i \in Ids : note[i].form = f}

\* PrimaryEmailDelivery: the first by id; 0 is none.
IsPrimary(f, i) ==
  IF NotesOf(f) = {} THEN i = 0 ELSE i \in NotesOf(f) /\ \A j \in NotesOf(f) : i <= j

(***************************************************************************)
(* Validation.                                                             *)
(***************************************************************************)

\* Mutant: an enabled notification needs no mailer profile.
prepareEmailDelivery_NoMailer(email) == TRUE

prepareEmailDelivery(email) == email.enabled => email.mailer # None

\* validateDynamicRecipientSafeguard refuses this.
Unsafe(email, profile) == email.enabled /\ email.source = "field" /\ profile = None

\* Mutant: the other notifications of the form are not looked at.
validateAdditionalDynamicRecipients_None(f, primary, profile) == TRUE

validateAdditionalDynamicRecipients(f, primary, profile) ==
  \A i \in NotesOf(f) \ {primary} : ~Unsafe(note[i], profile)

validateProfileReferences(mailer, profile) ==
  (mailer # None => Live(mailer)) /\ (profile # None => Live(profile))

\* emailDeliveryRequested: anything but the defaults, or just an address.
Requested(email) == {email # Blank, TRUE}

AddNote(f, email) ==
  /\ made < MaxNotes
  /\ made' = made + 1
  /\ note' = [note EXCEPT ![made + 1] = Row(f, email)]

(***************************************************************************)
(* Form definitions.                                                       *)
(***************************************************************************)
Create(f) ==
  /\ life[f] = "new"
  /\ \E profile \in Captchas \cup {None}, email \in Settings :
       /\ prepareEmailDelivery(email)
       /\ ~Unsafe(email, profile)
       /\ validateProfileReferences(email.mailer, profile)
       /\ captcha' = [captcha EXCEPT ![f] = profile]
       /\ \E requested \in Requested(email) :
            IF requested THEN AddNote(f, email) ELSE UNCHANGED <<made, note>>
  /\ life' = [life EXCEPT ![f] = "live"]
  /\ UNCHANGED <<edit, req, events>>

\* The settings the update starts from: a page posts them all, the CLI takes
\* those its flags omit from the form as it is now, which a page could have
\* posted.  Update checks them by themselves first.
ReadSettings(t) ==
  /\ edit[t].pc = "idle"
  /\ \E f \in Forms, profile \in Captchas \cup {None}, email \in Settings :
       /\ Live(f)
       /\ prepareEmailDelivery(email) /\ ~Unsafe(email, profile)
       /\ \E requested \in Requested(email) :
            edit' = [edit EXCEPT ![t] = [pc |-> "load", form |-> f, captcha |-> profile,
                       email |-> email, requested |-> requested, primary |-> 0]]
  /\ UNCHANGED <<life, captcha, note, made, req, events>>

\* Update, before its transaction: load the form.
LoadPrimary(t) ==
  /\ edit[t].pc = "load"
  /\ Live(edit[t].form)
  /\ \E i \in Ids \cup {0} :
       /\ IsPrimary(edit[t].form, i)
       /\ edit' = [edit EXCEPT ![t].pc = "commit", ![t].primary = i]
  /\ UNCHANGED <<life, captcha, note, made, req, events>>

\* Update's transaction.  A primary notification deleted since is not an
\* error: no row is updated.
Update(t) ==
  LET e == edit[t] IN
  /\ e.pc = "commit"
  /\ Live(e.form)
  /\ validateProfileReferences(e.email.mailer, e.captcha)
  /\ validateAdditionalDynamicRecipients(e.form, e.primary, e.captcha)
  /\ captcha' = [captcha EXCEPT ![e.form] = e.captcha]
  /\ \/ /\ e.primary # 0
        /\ note' = [note EXCEPT ![e.primary] =
                      IF @.form = None THEN @ ELSE Row(@.form, e.email)]
        /\ UNCHANGED made
     \/ e.primary = 0 /\ e.requested /\ AddNote(e.form, e.email)
     \/ e.primary = 0 /\ ~e.requested /\ UNCHANGED <<note, made>>
  /\ edit' = [edit EXCEPT ![t] = NoEdit]
  /\ UNCHANGED <<life, req, events>>

\* The update is refused, or its form is gone.
UpdateFails(t) ==
  /\ edit[t].pc # "idle"
  /\ edit' = [edit EXCEPT ![t] = NoEdit]
  /\ UNCHANGED <<life, captcha, note, made, req, events>>

DeleteForm(f) ==
  /\ Live(f)
  /\ life' = [life EXCEPT ![f] = "gone"]
  /\ captcha' = [captcha EXCEPT ![f] = None]
  /\ note' = [i \in Ids |-> IF note[i].form = f THEN NoRow ELSE note[i]]
  /\ events' = {e \in events : e.form # f}
  /\ UNCHANGED <<made, edit, req>>

(***************************************************************************)
(* Notifications.                                                          *)
(***************************************************************************)
EmailAllowed(f, email) ==
  /\ Live(f)
  /\ prepareEmailDelivery(email)
  /\ ~Unsafe(email, captcha[f])
  /\ validateProfileReferences(email.mailer, None)

CreateEmailDelivery(f) ==
  /\ \E email \in Settings : EmailAllowed(f, email) /\ AddNote(f, email)
  /\ UNCHANGED <<life, captcha, edit, req, events>>

\* Also from the CLI, whose stale copy is one of the settings a page could
\* have posted.
UpdateEmailDelivery(i) ==
  /\ note[i].form # None
  /\ \E email \in Settings :
       /\ EmailAllowed(note[i].form, email)
       /\ note' = [note EXCEPT ![i] = Row(@.form, email)]
  /\ UNCHANGED <<life, captcha, made, edit, req, events>>

\* email_events.email_delivery_id is set to null.
Unlinked(i) == {IF e.note = i THEN [e EXCEPT !.note = 0] ELSE e : e \in events}

DeleteEmailDelivery(i) ==
  /\ note[i].form # None
  /\ note' = [note EXCEPT ![i] = NoRow]
  /\ events' = Unlinked(i)
  /\ UNCHANGED <<life, captcha, made, edit, req>>

(***************************************************************************)
(* Profiles.                                                               *)
(***************************************************************************)
CreateProfile(p) ==
  /\ life[p] = "new"
  /\ life' = [life EXCEPT ![p] = "live"]
  /\ UNCHANGED <<captcha, note, made, edit, req, events>>

Referenced(p) == (\E f \in Forms : captcha[f] = p) \/ (\E i \in Ids : note[i].mailer = p)

\* Mutant: no foreign key and no trigger.
deleteProfile_Unchecked(p) ==
  /\ Live(p)
  /\ life' = [life EXCEPT ![p] = "gone"]
  /\ UNCHANGED <<captcha, note, made, edit, req, events>>

deleteProfile(p) ==
  /\ Live(p) /\ ~Referenced(p)
  /\ life' = [life EXCEPT ![p] = "gone"]
  /\ UNCHANGED <<captcha, note, made, edit, req, events>>

(***************************************************************************)
(* Submissions.                                                            *)
(***************************************************************************)

\* loadForm reads the form, then its notifications and its captcha profile.
LoadForm(r) ==
  /\ req[r].pc = "idle"
  /\ \E f \in Forms, public \in BOOLEAN :
       /\ Live(f)
       /\ req' = [req EXCEPT ![r].pc = "form", ![r].form = f, ![r].public = public,
                             ![r].captcha = captcha[f]]
  /\ UNCHANGED <<life, captcha, note, made, edit, events>>

\* A public request whose captcha profile is gone by now is refused.
LoadDeliveries(r) ==
  /\ req[r].pc = "form"
  /\ req[r].public /\ req[r].captcha # None => Live(req[r].captcha)
  /\ req' = [req EXCEPT ![r].pc = "loaded",
               ![r].due = {[id |-> i, source |-> note[i].source] :
                             i \in {j \in NotesOf(req[r].form) : note[j].enabled}}]
  /\ UNCHANGED <<life, captcha, note, made, edit, events>>

\* A public request passes with Turnstile's consent, or when the form it has
\* loaded asks for none; the submission create command asks nobody.
verifyCaptcha(r) ==
  /\ req[r].pc = "loaded"
  /\ req' = [req EXCEPT ![r].pc = "admitted",
               ![r].verified = req[r].public /\ req[r].captcha # None]
  /\ UNCHANGED <<life, captcha, note, made, edit, events>>

\* A check before the transaction fails, or the transaction does.
RefuseSubmission(r) ==
  /\ req[r].pc \in {"form", "loaded", "admitted"}
  /\ req' = [req EXCEPT ![r] = [NoRequest EXCEPT !.pc = "done"]]
  /\ UNCHANGED <<life, captcha, note, made, edit, events>>

NewEmailEvent(r, d) ==
  [form |-> req[r].form, request |-> r, note |-> d.id, status |-> "queued",
   public |-> req[r].public, verified |-> req[r].verified,
   own |-> d.id, source |-> d.source, via |-> 0]

\* Mutant: every enabled notification gets an event.
createDeliveryEvents_All(r) == {NewEmailEvent(r, d) : d \in req[r].due}

createDeliveryEvents(r) ==
  {NewEmailEvent(r, d) :
     d \in {x \in req[r].due : x.source = "field" => req[r].captcha # None}}

\* The transaction needs the form and, by the foreign key, every notification
\* an event refers to.
CreateSubmission(r) ==
  /\ req[r].pc = "admitted"
  /\ Live(req[r].form)
  /\ \A e \in createDeliveryEvents(r) : note[e.note].form # None
  /\ events' = events \cup createDeliveryEvents(r)
  /\ req' = [req EXCEPT ![r] = [NoRequest EXCEPT !.pc = "done"]]
  /\ UNCHANGED <<life, captcha, note, made, edit>>

(***************************************************************************)
(* Events.  DeliveryQueue has the claims and the retries of the dispatcher;*)
(* here a delivery reads the current notification and settles the event.   *)
(***************************************************************************)
Becomes(e, f) ==
  /\ events' = (events \ {e}) \cup {f}
  /\ UNCHANGED <<life, captcha, note, made, edit, req>>

Sendable(e) == e.note # 0 /\ note[e.note].enabled

SendEmail(e) ==
  /\ e.status = "queued" /\ Sendable(e)
  /\ Becomes(e, [e EXCEPT !.status = "sent", !.via = e.note])

\* No or a disabled notification, or an attempt too many.
FailEmail(e) ==
  /\ e.status = "queued"
  /\ Becomes(e, [e EXCEPT !.status = "failed"])

RetryEmailEvent(e) ==
  /\ e.status = "failed"
  /\ Becomes(e, [e EXCEPT !.status = "queued"])

\* backfillEmailDeliveryConfiguration, part of Migrate: at every start of the
\* server and of every CLI command that needs the database.
Migrate ==
  /\ note' = [i \in Ids |->
       IF note[i].form # None /\ Unsafe(note[i], captcha[note[i].form])
       THEN [note[i] EXCEPT !.enabled = FALSE] ELSE note[i]]
  /\ \E primary \in [Forms -> Ids \cup {0}] :
       /\ \A f \in Forms : IsPrimary(f, primary[f])
       /\ events' = {IF e.note = 0 THEN [e EXCEPT !.note = primary[e.form]] ELSE e :
                       e \in events}
  /\ UNCHANGED <<life, captcha, made, edit, req>>

Next ==
  \/ \E f \in Forms : Create(f) \/ DeleteForm(f) \/ CreateEmailDelivery(f)
  \/ \E t \in Editors : ReadSettings(t) \/ LoadPrimary(t) \/ Update(t) \/ UpdateFails(t)
  \/ \E i \in Ids : UpdateEmailDelivery(i) \/ DeleteEmailDelivery(i)
  \/ \E p \in Profiles : CreateProfile(p) \/ deleteProfile(p)
  \/ \E r \in Requests : \/ LoadForm(r) \/ LoadDeliveries(r) \/ verifyCaptcha(r)
                         \/ RefuseSubmission(r) \/ CreateSubmission(r)
  \/ \E e \in events : SendEmail(e) \/ FailEmail(e) \/ RetryEmailEvent(e)
  \/ Migrate

Spec == Init /\ [][Next]_vars

(***************************************************************************)
(* Properties.                                                             *)
(***************************************************************************)
Notes == [form : Forms \cup {None}, enabled : BOOLEAN, source : Sources,
          mailer : Mailers \cup {None}]
Edits == [pc : {"idle", "load", "commit"}, form : Forms \cup {None},
          captcha : Captchas \cup {None}, email : Settings,
          requested : BOOLEAN, primary : Ids \cup {0}]
Submissions == [pc : {"idle", "form", "loaded", "admitted", "done"},
                form : Forms \cup {None}, public : BOOLEAN, captcha : Captchas \cup {None},
                due : SUBSET [id : Ids, source : Sources], verified : BOOLEAN]
Events == [form : Forms, request : Requests, note : Ids \cup {0},
           status : {"queued", "sent", "failed"}, public : BOOLEAN, verified : BOOLEAN,
           own : Ids, source : Sources, via : Ids \cup {0}]

\* Types: also, an enabled notification always names a mailer profile, through
\* whichever of the four operations it was written (email_deliveries.go:254).
TypeOK ==
  /\ life \in [Forms \cup Profiles -> {"new", "live", "gone"}]
  /\ captcha \in [Forms -> Captchas \cup {None}]
  /\ note \in [Ids -> Notes]
  /\ \A i \in Ids : note[i].enabled => note[i].mailer # None
  /\ made \in 0 .. MaxNotes
  /\ edit \in [Editors -> Edits]
  /\ req \in [Requests -> Submissions]
  /\ events \subseteq Events

\* "An enabled field-derived recipient requires Turnstile on that endpoint"
\* (docs/configuration.md:49), whatever form and notification updates are
\* interleaved: no order of valid changes ends in an open relay (forms.go:266).
Safeguarded ==
  \A i \in Ids : note[i].form # None => ~Unsafe(note[i], captcha[note[i].form])

\* References between rows hold: forms and notifications use live profiles,
\* notifications and events belong to live forms, an event's notification
\* exists and is one of its form's (integrations.go:109, validation.go:116).
ReferencesExist ==
  /\ \A f \in Forms : captcha[f] # None => Live(f) /\ Live(captcha[f])
  /\ \A i \in Ids : note[i].form # None =>
       /\ i <= made /\ Live(note[i].form)
       /\ note[i].mailer # None => Live(note[i].mailer)
  /\ \A e \in events : Live(e.form) /\ (e.note # 0 => note[e.note].form = e.form)

\* What every operation relies on: types and references.
Inv == TypeOK /\ ReferencesExist

\* A public submission gets an event for a field-derived recipient only if
\* Turnstile accepted it, although the form and its notifications were read
\* one after the other and may have changed since (submissions.go:163).
VerifiedAtCreation ==
  \A e \in events : e.public /\ e.source = "field" => e.verified

\* "A queued event whose notification no longer exists finishes as failed
\* rather than being redirected to another configuration."
\* (docs/email-notifications.md:142)
NotRedirected == \A e \in events : e.status = "sent" => e.via = e.own
=============================================================================
