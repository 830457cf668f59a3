--------------------------- MODULE LegacyMigration ---------------------------
(***************************************************************************)
(* database.Migrate on a database of an older release, by the server and   *)
(* by command-line processes.  Its transactions are separate steps, what   *)
(* it finds out about the schema first may be stale in the later ones, and *)
(* a process can stop between any two.  The administrator acts through a   *)
(* process that has finished.                                              *)
(*                                                                         *)
(* The backfill of notifications, which runs every time, is in FormConfig. *)
(* Malformed JSON counts as absent, as does the overrides column when it   *)
(* is missing; the id of a cloned captcha profile is its name, <<profile,  *)
(* form>>.  Credentials are not edited, so an existing clone never differs *)
(* from the one wanted.                                                    *)
(***************************************************************************)
EXTENDS Integers, Sequences, FiniteSetsExt

CONSTANTS
  Processes,   \* the processes that migrate
  Forms,
  Databases,   \* databases of older releases: initial values of the tables
  Assignable,  \* bound: the forms the administrator edits
  MaxEdits     \* bound: changes by the administrator

ASSUME MigrationAssumption == Assignable \subseteq Forms /\ MaxEdits \in Nat

Blank == ""
NoProfile == << >>
Unedited == <<"unedited">>

OldColumns == {"site_keys_json", "overrides_json", "provider"}
Columns == OldColumns \cup {"site_key", "password_change_required"}
Text == STRING \cup {Blank}
Account == [signedIn : BOOLEAN, required : BOOLEAN]
Policy == [required : {Blank, "yes", "no"}, action : {Blank, "submit", "custom"}, key : Text]
Profile == [provider : Text, secret : Text, siteKey : Text,
            siteKeys : Seq([pattern : Text, key : Text]), policy : Policy]
FormRow(ids) == [captcha : ids \cup {NoProfile}, origins : Seq(Text), overrides : Policy]
Notice == [enabled : BOOLEAN, recipient : Text, override : Text, complete : BOOLEAN]

\* A database of an older release: what is in a column that is missing is the
\* default, references are kept by foreign keys, and no profile has the name
\* of a clone yet.
ASSUME DatabasesAssumption ==
  \A d \in Databases :
    /\ d.columns \subseteq Columns
    /\ d.account \in Account
    /\ d.profile \in [DOMAIN d.profile -> Profile]
    /\ d.form \in [Forms -> FormRow(DOMAIN d.profile)]
    /\ d.notice \in Notice
    /\ "password_change_required" \notin d.columns => ~d.account.required
    /\ "site_key" \notin d.columns => \A id \in DOMAIN d.profile : d.profile[id].siteKey = Blank
    /\ "overrides_json" \notin d.columns => d.notice.override = Blank
    /\ DOMAIN d.profile \cap ({NoProfile, Unedited} \cup ((DOMAIN d.profile) \X Forms)) = {}

VARIABLES
  columns,  \* the columns a migration looks for
  account,  \* the account: has signed in, has to change the password
  profile,  \* captcha profiles by id
  form,     \* each form: captcha reference, allowed origins, overrides
  notice,   \* an email notification and whether its mailer is complete
  hooks,    \* forms with a webhook record
  applied,  \* the marker simplify-core-configuration-v1
  mig,      \* each process: its step of Migrate and what it found out
  edited,   \* ghost: the reference the administrator gave a form last
  changed,  \* ghost: the password was changed
  legacy    \* ghost: the database before the first migration

tables == <<columns, account, profile, form, notice, hooks, applied>>
migrationVars == <<columns, account, profile, form, notice, hooks, applied,
                   mig, edited, changed, legacy>>

NoMigration == [pc |-> "idle", hasSiteKey |-> FALSE]
Edits == {f \in Forms : edited[f] # Unedited}

MigrationInit ==
  \E d \in Databases :
    /\ columns = d.columns
    /\ account = d.account
    /\ profile = d.profile
    /\ form = d.form
    /\ notice = d.notice
    /\ hooks = {}
    /\ applied = FALSE
    /\ mig = [p \in Processes |-> NoMigration]
    /\ edited = [f \in Forms |-> Unedited]
    /\ changed = FALSE
    /\ legacy = d

Has(column) == column \in columns
Step(p, from, to) == mig[p].pc = from /\ mig' = [mig EXCEPT ![p].pc = to]
KeepGhosts == UNCHANGED <<edited, changed, legacy>>

(***************************************************************************)
(* Reading the old captcha configuration.                                  *)
(***************************************************************************)

OrElse(value, other) == IF value # Blank THEN value ELSE other

\* The entries of a list of site keys that have a key, those of them that
\* have one of some patterns, and the key of the first of some entries.
Keyed(siteKeys) == {i \in DOMAIN siteKeys : siteKeys[i].key # Blank}
KeyedFor(siteKeys, patterns) ==
  {i \in DOMAIN siteKeys : siteKeys[i].key # Blank /\ siteKeys[i].pattern \in patterns}
FirstKey(siteKeys, entries) == IF entries = {} THEN Blank ELSE siteKeys[Min(entries)].key

\* The site key of a profile: its policy's, else the first of its list.
legacyCaptchaSiteKey(policy, siteKeys) ==
  OrElse(policy.key, FirstKey(siteKeys, Keyed(siteKeys)))

\* Mutant: the policy has the last word.
resolveLegacyCaptchaSettings_PolicyWins(policy, overrides) ==
  [required |-> OrElse(policy.required, OrElse(overrides.required, "yes")),
   action   |-> OrElse(policy.action, OrElse(overrides.action, "submit")),
   key      |-> OrElse(policy.key, overrides.key)]

\* What a form's overrides say, else what the profile's policy says.
resolveLegacyCaptchaSettings(policy, overrides) ==
  [required |-> OrElse(overrides.required, OrElse(policy.required, "yes")),
   action   |-> OrElse(overrides.action, OrElse(policy.action, "submit")),
   key      |-> OrElse(overrides.key, policy.key)]

\* The key for the first origin that a pattern allows, else the key for
\* every host, else the first.
chooseLegacyCaptchaSiteKey(origins, siteKeys) ==
  LET For(host) == KeyedFor(siteKeys, {host, "*"})
      served == {i \in DOMAIN origins : origins # <<"*">> /\ For(origins[i]) # {}}
  IN  FirstKey(siteKeys, IF served # {} THEN For(origins[Min(served)]) ELSE
                         IF For("*") # {} THEN For("*") ELSE Keyed(siteKeys))

(***************************************************************************)
(* The transactions of Migrate.                                            *)
(***************************************************************************)

\* The questions about the captcha columns, answered before any transaction.
InspectConfiguration(p) ==
  /\ mig[p].pc = "idle"
  /\ mig' = [mig EXCEPT ![p] = [pc |-> "inspect",
               hasSiteKey |-> Has("site_keys_json") /\ Has("site_key")]]
  /\ UNCHANGED tables /\ KeepGhosts

InspectAccounts(p) ==
  /\ Step(p, "inspect", IF Has("password_change_required") THEN "schema" ELSE "accounts")
  /\ UNCHANGED tables /\ KeepGhosts

\* Mutant: the flag stays at its default.
MigratePasswordState_ColumnOnly(p) ==
  /\ Step(p, "accounts", "schema")
  /\ columns' = columns \cup {"password_change_required"}
  /\ UNCHANGED <<account, profile, form, notice, hooks, applied>> /\ KeepGhosts

\* Who has never signed in still has the generated password.
MigratePasswordState(p) ==
  /\ Step(p, "accounts", "schema")
  /\ columns' = columns \cup {"password_change_required"}
  /\ account' = [account EXCEPT !.required = @ \/ ~account.signedIn]
  /\ UNCHANGED <<profile, form, notice, hooks, applied>> /\ KeepGhosts

\* AutoMigrate of the whole schema.
MigrateSchema(p) ==
  /\ Step(p, "schema", "configuration")
  /\ columns' = columns \cup {"site_key", "password_change_required"}
  /\ UNCHANGED <<account, profile, form, notice, hooks, applied>> /\ KeepGhosts

\* Profiles after their site keys were filled in.
migrateCaptchaConfiguration ==
  [id \in DOMAIN profile |->
     [profile[id] EXCEPT
        !.siteKey = OrElse(@, legacyCaptchaSiteKey(profile[id].policy, profile[id].siteKeys))]]

\* Profiles a newer release has configured: read before keys are filled in.
ExplicitProfiles(p) ==
  {id \in DOMAIN profile : mig[p].hasSiteKey /\ profile[id].siteKey # Blank}

\* The profile a form ends with: its own, none, or a clone with another key.
Conversion(f, profiles, explicit) ==
  LET id == form[f].captcha
      old == profiles[id]
      settings == resolveLegacyCaptchaSettings(old.policy, form[f].overrides)
      key == OrElse(settings.key,
               OrElse(chooseLegacyCaptchaSiteKey(form[f].origins, old.siteKeys), old.siteKey))
      incompatible == \/ old.provider # "turnstile" \/ settings.required # "yes"
                      \/ settings.action # "submit" \/ key = Blank \/ old.secret = Blank
  IN  IF id = NoProfile \/ (id \in explicit /\ old.secret # Blank) THEN id ELSE
      IF incompatible THEN NoProfile ELSE
      IF key = old.siteKey THEN id ELSE <<id, f>>

migrateLegacyCaptchaForms(profiles, explicit) ==
  [f \in Forms |-> [form[f] EXCEPT !.captcha = Conversion(f, profiles, explicit)]]

\* The clones the converted forms refer to.
legacyCaptchaClones(profiles, converted) ==
  LET cloned == {f \in Forms : converted[f].captcha \notin DOMAIN profiles \cup {NoProfile}}
      Clone(f) ==
        LET old == profiles[form[f].captcha]
            settings == resolveLegacyCaptchaSettings(old.policy, form[f].overrides)
        IN  [old EXCEPT !.policy = [required |-> Blank, action |-> Blank, key |-> Blank],
               !.siteKeys = << >>,
               !.siteKey = OrElse(settings.key,
                 chooseLegacyCaptchaSiteKey(form[f].origins, old.siteKeys))]
  IN  [id \in DOMAIN profiles \cup {converted[f].captcha : f \in cloned} |->
         IF id \in DOMAIN profiles THEN profiles[id]
         ELSE Clone(CHOOSE f \in cloned : converted[f].captcha = id)]

\* A missing recipient is taken from the old overrides.
migrateEmailConfiguration ==
  IF Has("overrides_json")
  THEN [notice EXCEPT !.recipient = OrElse(@, notice.override)] ELSE notice

\* Mutant: an incomplete notification stays enabled.
disableIncompleteLegacyEmailDeliveries_Not(n) == n

disableIncompleteLegacyEmailDeliveries(n) ==
  [n EXCEPT !.enabled = @ /\ n.recipient # Blank /\ n.complete]

\* Mutant: the marker is never found.
migrationApplied_Never == FALSE

migrationApplied == applied

\* One transaction; only what comes after the marker happens once.
ConvertConfiguration(p) ==
  LET captcha == Has("site_keys_json")
      profiles == IF captcha THEN migrateCaptchaConfiguration ELSE profile
      converted == IF captcha /\ ~migrationApplied
                   THEN migrateLegacyCaptchaForms(profiles, ExplicitProfiles(p)) ELSE form
  IN  /\ Step(p, "configuration", "records")
      /\ IF Has("site_keys_json") \/ Has("overrides_json") \/ Has("provider")
         THEN /\ profile' = legacyCaptchaClones(profiles, converted)
              /\ form' = converted
              /\ notice' = IF migrationApplied \/ ~(Has("overrides_json") \/ Has("provider"))
                           THEN migrateEmailConfiguration
                           ELSE disableIncompleteLegacyEmailDeliveries(migrateEmailConfiguration)
              /\ applied' = TRUE
         ELSE UNCHANGED <<profile, form, notice, applied>>
      /\ UNCHANGED <<columns, account, hooks>> /\ KeepGhosts

\* Every form has a webhook record.
ReconcileDeliveryRecords(p) ==
  /\ Step(p, "records", "done")
  /\ hooks' = Forms
  /\ UNCHANGED <<columns, account, profile, form, notice, applied>> /\ KeepGhosts

Migrate(p) ==
  \/ InspectConfiguration(p) \/ InspectAccounts(p) \/ MigratePasswordState(p)
  \/ MigrateSchema(p) \/ ConvertConfiguration(p) \/ ReconcileDeliveryRecords(p)

\* The process ends, or is killed, wherever it is.
StopMigrating(p) ==
  /\ mig[p].pc # "idle"
  /\ mig' = [mig EXCEPT ![p] = NoMigration]
  /\ UNCHANGED tables /\ KeepGhosts

(***************************************************************************)
(* The administrator, by way of a process that has migrated.               *)
(***************************************************************************)
Migrated == \E p \in Processes : mig[p].pc = "done"

AssignCaptcha(f, id) ==
  /\ Migrated /\ Cardinality(Edits) < MaxEdits /\ edited[f] = Unedited
  /\ form' = [form EXCEPT ![f].captcha = id]
  /\ edited' = [edited EXCEPT ![f] = id]
  /\ UNCHANGED <<columns, account, profile, notice, hooks, applied, mig, changed, legacy>>

storePassword ==
  /\ Migrated /\ ~changed /\ Cardinality(Edits) < MaxEdits
  /\ account' = [account EXCEPT !.required = FALSE]
  /\ changed' = TRUE
  /\ UNCHANGED <<columns, profile, form, notice, hooks, applied, mig, edited, legacy>>

Administrator ==
  \/ \E f \in Assignable, id \in DOMAIN profile \cup {NoProfile} : AssignCaptcha(f, id)
  \/ storePassword

(***************************************************************************)
(* Properties.                                                             *)
(***************************************************************************)
MigrationTypeOK ==
  /\ columns \subseteq Columns
  /\ account \in Account
  /\ profile \in [DOMAIN profile -> Profile]
  /\ form \in [Forms -> FormRow(DOMAIN profile)]
  /\ notice \in Notice
  /\ hooks \subseteq Forms
  /\ applied \in BOOLEAN
  /\ mig \in [Processes -> [hasSiteKey : BOOLEAN, pc :
       {"idle", "inspect", "accounts", "schema", "configuration", "records", "done"}]]

\* What the older release asked of a submission to a form: the site key and
\* secret of the challenge, or nothing when it was not required or could not work.
NoChallenge == [key |-> Blank, secret |-> Blank]
Challenge(f) ==
  LET old == legacy.profile[legacy.form[f].captcha]
      local == legacy.form[f].overrides
      hosts == legacy.form[f].origins
      keys == [i \in DOMAIN old.siteKeys |-> old.siteKeys[i].key]
      For(host) == {i \in DOMAIN keys : keys[i] # Blank /\ old.siteKeys[i].pattern \in {host, "*"}}
      served == {i \in DOMAIN hosts : hosts # <<"*">> /\ For(hosts[i]) # {}}
      mapped == IF served # {} THEN For(hosts[Min(served)]) ELSE
                IF For("*") # {} THEN For("*") ELSE {i \in DOMAIN keys : keys[i] # Blank}
      key == IF local.key # Blank THEN local.key ELSE
             IF old.policy.key # Blank THEN old.policy.key ELSE
             IF mapped # {} THEN keys[Min(mapped)] ELSE old.siteKey
      Said(field, value) == local[field] = value \/ (local[field] = Blank /\ old.policy[field] = value)
      works == /\ old.provider = "turnstile" /\ ~Said("required", "no") /\ ~Said("action", "custom")
               /\ key # Blank /\ old.secret # Blank
  IN  IF legacy.form[f].captcha = NoProfile THEN NoChallenge ELSE
      IF old.siteKey # Blank /\ old.secret # Blank THEN [key |-> old.siteKey, secret |-> old.secret] ELSE
      IF works THEN [key |-> key, secret |-> old.secret] ELSE NoChallenge

\* "preserves effective legacy captcha behavior without blocking submissions"
\* (migrate_test.go:271): once converted, in whatever order processes
\* migrated and stopped, a form asks for the challenge it asked for before.
ProtectionKept ==
  applied /\ Has("site_keys_json") => \A f \in Forms \ Edits :
    LET id == form[f].captcha
    IN  IF Challenge(f) = NoChallenge THEN id = NoProfile
        ELSE id # NoProfile /\ Challenge(f) = [key |-> profile[id].siteKey, secret |-> profile[id].secret]

\* The conversion happens once: a process that looked at the schema before
\* another one converted it does not undo what the administrator did since.
EditsSurvive == \A f \in Edits : form[f].captcha = edited[f]

\* An account that still has its generated password has to change it, one
\* that was in use has not (migrate.go:44), also after an interrupted start.
InitialPasswordMustGo ==
  Has("password_change_required") /\ "password_change_required" \notin legacy.columns =>
    /\ ~legacy.account.signedIn /\ ~changed => account.required
    /\ legacy.account.signedIn => ~account.required

\* A notification that is enabled after the conversion can be sent, one that
\* could be sent before stays enabled and keeps its recipient (migrate.go:457).
RoutesKept ==
  applied /\ (Has("overrides_json") \/ Has("provider")) =>
    /\ notice.recipient = OrElse(legacy.notice.recipient, legacy.notice.override)
    /\ notice.enabled = (legacy.notice.enabled /\ notice.recipient # Blank /\ notice.complete)

\* The conversion keeps what the older release did, for submitters and for
\* recipients (migrate.go:75-122).
EffectKept == ProtectionKept /\ RoutesKept
=============================================================================
