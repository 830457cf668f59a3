--------------------------- MODULE LifecycleProofs ---------------------------
(***************************************************************************)
(* Proofs about LegacyMigration and AppLifecycle, for any databases of     *)
(* older releases, any number of processes, forms, requests, starts and    *)
(* faults.  The invariant of the migration holds under each of its         *)
(* transactions, a process that stops and the administrator; the steps of  *)
(* the server either leave the migration alone or are one of those.        *)
(***************************************************************************)
EXTENDS AppLifecycle, SequenceTheorems, WellFoundedInduction, TLAPS

(***************************************************************************)
(* The inductive invariant of the migration.                               *)
(***************************************************************************)

\* What a process found out, and what the transactions it has behind it did.
SchemaKnown ==
  /\ legacy \in Databases
  /\ account.signedIn = legacy.account.signedIn
  /\ legacy.columns \subseteq columns
  /\ columns \cap OldColumns = legacy.columns \cap OldColumns
  /\ \A p \in Processes :
       /\ mig[p].pc \in {"schema", "configuration", "records", "done"} => Has("password_change_required")
       /\ mig[p].pc \in {"configuration", "records", "done"} => Has("site_key")
       /\ mig[p].pc = "done" => hooks = Forms
       /\ mig[p].pc # "idle" /\ {"site_keys_json", "site_key"} \subseteq legacy.columns => mig[p].hasSiteKey

\* There is nothing to convert, or it was converted.
Converted == applied \/ columns \cap OldColumns = {}

\* Up to the conversion the tables are those of the older release, and nobody
\* edits them before it.
ConvertedOnce ==
  /\ \A p \in Processes : mig[p].pc \in {"records", "done"} => Converted
  /\ edited \in [Forms -> DOMAIN profile \cup {NoProfile, Unedited}]
  /\ Edits # {} => Converted
  /\ ~applied => profile = legacy.profile /\ notice = legacy.notice
  /\ notice.override = legacy.notice.override
  /\ ~applied => \A f \in Forms \ Edits : form[f] = legacy.form[f]
  /\ DOMAIN profile \cap {NoProfile, Unedited} = {}
  /\ ~Has("password_change_required") => account = legacy.account

MigrationInv ==
  /\ MigrationTypeOK /\ SchemaKnown /\ ConvertedOnce
  /\ ProtectionKept /\ RoutesKept /\ EditsSurvive /\ InitialPasswordMustGo

(***************************************************************************)
(* The inductive invariant of the process.                                 *)
(***************************************************************************)
Opening == {"off", "listen", "storage", "connect"}
Preparing == {"server", "started", "migrate", "recover", "account", "checkpoint", "run"}
Stopping == {"shutdown", "jobs", "truncate", "release"}
Ended == {"close", "exited"}

\* The goroutines exist from App.Run on, requests once the listener is served.
Spawned ==
  /\ main \in Opening \cup Preparing \cup {"wait"} \cup Stopping \cup Ended
  /\ main \in Opening \cup Preparing => http = "none" /\ runner = "none"
  /\ http \in {"none", "spawned"} => Working = {}
  /\ main \in Ended => http \in {"none", "stopped"}

\* The database is open from NewApp to Close, the listener up to the shutdown.
Held ==
  /\ main \in Opening => manager = "new"
  /\ manager = "closed" => main = "exited"
  /\ main \in (Opening \cup Preparing \cup {"wait"}) \ {"off", "listen"} => "listener" \in held
  /\ main = "wait" /\ http = "stopped" => faults > 0
  /\ ReleasedAtExit

\* What each part of the shutdown has waited for, unless it ran out of time.
WaitedFor ==
  /\ main \in Stopping => "requests" \in ctx
  /\ "timeout" \notin result /\ main \in {"jobs", "truncate", "release"} \cup Ended =>
       \A r \in Working : request[r].late
  /\ "timeout" \notin result /\ main \in {"truncate", "release"} \cup Ended => ~RunnerAlive
  /\ faults = 0 => "failed" \notin result

\* Whoever uses the database comes after its preparation.
Prepared ==
  \/ main \in {"recover", "account", "checkpoint", "run", "wait"} \cup Stopping
  \/ http # "none" \/ runner # "none"
  => hooks = Forms /\ {"site_key", "password_change_required"} \subseteq columns

ProcessTypeOK ==
  /\ held \subseteq Resources
  /\ manager \in {"new", "open", "closed"}
  /\ ctx \subseteq {"signal", "jobs", "requests", "deadline"}
  /\ http \in {"none", "spawned", "serving", "stopped"}
  /\ runner \in {"none", "spawned", "batch", "waiting", "done"}
  /\ request \in [Requests -> [state : {"none", "active", "answered"}, late : BOOLEAN]]
  /\ result \subseteq {"failed", "timeout"}
  /\ starts \in 0 .. MaxStarts /\ faults \in 0 .. MaxFaults

ProcessInv == ProcessTypeOK /\ Spawned /\ Held /\ WaitedFor /\ Prepared
LifecycleInv == MigrationInv /\ ProcessInv

(***************************************************************************)
(* What the old configuration says.                                        *)
(***************************************************************************)

\* The least entry of a set of indices is one of them.
LEMMA MinIsMember ==
  ASSUME NEW S \in SUBSET Nat, S # {}
  PROVE  Min(S) \in S
<1>1. PICK x \in S : \A y \in S : ~(<<y, x>> \in OpToRel(<, Nat))
  BY NatLessThanWellFounded, WFMin
<1>2. ASSUME NEW y \in S
      PROVE  x <= y
  <2>1. y < x => <<y, x>> \in OpToRel(<, Nat)
    BY Zenon DEF OpToRel
  <2>2. ~(y < x)
    BY Zenon, <1>1, <2>1
  <2>3. x \in Nat /\ y \in Nat
    OBVIOUS
  <2> QED
    BY <2>2, <2>3
<1> QED
  BY <1>2 DEF Min

\* The first key of entries that have one is a key.
LEMMA FirstKeyOf ==
  ASSUME NEW siteKeys \in Seq([pattern : Text, key : Text]),
         NEW entries \in SUBSET Keyed(siteKeys)
  PROVE  /\ FirstKey(siteKeys, entries) \in Text
         /\ FirstKey(siteKeys, entries) = Blank <=> entries = {}
<1>1. CASE entries = {}
  BY <1>1 DEF FirstKey, Text
<1>2. CASE entries # {}
  <2>1. entries \in SUBSET Nat /\ entries \subseteq DOMAIN siteKeys
    BY DEF Keyed
  <2>2. Min(entries) \in entries
    BY <2>1, <1>2, MinIsMember
  <2>3. siteKeys[Min(entries)] \in [pattern : Text, key : Text]
    BY <2>1, <2>2, LenProperties, ElementOfSeq, Zenon
  <2>4. siteKeys[Min(entries)].key # Blank
    BY <2>2 DEF Keyed
  <2> QED
    BY <1>2, <2>3, <2>4 DEF FirstKey
<1> QED
  BY <1>1, <1>2

\* The site key chosen for a form's origins is blank only if there is none.
LEMMA ChosenKey ==
  ASSUME NEW origins \in Seq(Text), NEW siteKeys \in Seq([pattern : Text, key : Text])
  PROVE  /\ chooseLegacyCaptchaSiteKey(origins, siteKeys) \in Text
         /\ chooseLegacyCaptchaSiteKey(origins, siteKeys) = Blank <=> Keyed(siteKeys) = {}
<1> DEFINE For(host) == KeyedFor(siteKeys, {host, "*"})
           served == {i \in DOMAIN origins : origins # <<"*">> /\ For(origins[i]) # {}}
           entries == IF served # {} THEN For(origins[Min(served)]) ELSE
                      IF For("*") # {} THEN For("*") ELSE Keyed(siteKeys)
<1>1. \A host : For(host) \subseteq Keyed(siteKeys)
  BY DEF KeyedFor, Keyed
<1>2. served # {} => For(origins[Min(served)]) # {}
  <2>1. served \in SUBSET Nat
    OBVIOUS
  <2> QED
    BY <2>1, MinIsMember
<1>3. entries \in SUBSET Keyed(siteKeys) /\ (entries = {} <=> Keyed(siteKeys) = {})
  BY <1>1, <1>2
<1>4. chooseLegacyCaptchaSiteKey(origins, siteKeys) = FirstKey(siteKeys, entries)
  BY DEF chooseLegacyCaptchaSiteKey
<1> QED
  BY <1>3, <1>4, FirstKeyOf

LEMMA KeysAreText ==
  ASSUME NEW local \in Policy, NEW old \in Profile, NEW origins \in Seq(Text)
  PROVE  /\ resolveLegacyCaptchaSettings(old.policy, local).key \in Text
         /\ chooseLegacyCaptchaSiteKey(origins, old.siteKeys) \in Text
         /\ legacyCaptchaSiteKey(old.policy, old.siteKeys) \in Text
<1>1. old.siteKeys \in Seq([pattern : Text, key : Text]) /\ old.policy \in Policy
  BY DEF Profile
<1>2. local.key \in Text /\ old.policy.key \in Text
  BY <1>1 DEF Policy
<1>3. FirstKey(old.siteKeys, Keyed(old.siteKeys)) \in Text
  BY <1>1, FirstKeyOf
<1>4. chooseLegacyCaptchaSiteKey(origins, old.siteKeys) \in Text
  BY <1>1, ChosenKey
<1> QED
  BY <1>2, <1>3, <1>4 DEF resolveLegacyCaptchaSettings, legacyCaptchaSiteKey, OrElse

\* The key and the fate of a form under a profile, as the conversion sees it.
KeyUnder(old, row) ==
  OrElse(resolveLegacyCaptchaSettings(old.policy, row.overrides).key,
    OrElse(chooseLegacyCaptchaSiteKey(row.origins, old.siteKeys), old.siteKey))
WorksUnder(old, row) ==
  LET settings == resolveLegacyCaptchaSettings(old.policy, row.overrides)
  IN  /\ old.provider = "turnstile" /\ settings.required = "yes" /\ settings.action = "submit"
      /\ KeyUnder(old, row) # Blank /\ old.secret # Blank

FormBefore(f) == legacy.form[f]
ProfileBefore(f) == legacy.profile[legacy.form[f].captcha]

\* What the older release asked, in those words, unless the profile has a site
\* key of its own.
LEMMA ChallengeOfForm ==
  ASSUME legacy \in Databases, NEW f \in Forms, FormBefore(f).captcha # NoProfile,
         ~(ProfileBefore(f).siteKey # Blank /\ ProfileBefore(f).secret # Blank)
  PROVE  Challenge(f) = IF WorksUnder(ProfileBefore(f), FormBefore(f))
                        THEN [key |-> KeyUnder(ProfileBefore(f), FormBefore(f)),
                              secret |-> ProfileBefore(f).secret]
                        ELSE NoChallenge
<1> USE DEF FormBefore, ProfileBefore
<1> DEFINE row == legacy.form[f]
           old == legacy.profile[row.captcha]
           local == row.overrides
           hosts == row.origins
           keys == [i \in DOMAIN old.siteKeys |-> old.siteKeys[i].key]
           For(host) == {i \in DOMAIN keys : keys[i] # Blank /\ old.siteKeys[i].pattern \in {host, "*"}}
           served == {i \in DOMAIN hosts : hosts # <<"*">> /\ For(hosts[i]) # {}}
           mapped == IF served # {} THEN For(hosts[Min(served)]) ELSE
                     IF For("*") # {} THEN For("*") ELSE {i \in DOMAIN keys : keys[i] # Blank}
           key == IF local.key # Blank THEN local.key ELSE
                  IF old.policy.key # Blank THEN old.policy.key ELSE
                  IF mapped # {} THEN keys[Min(mapped)] ELSE old.siteKey
           Said(field, value) == local[field] = value \/ (local[field] = Blank /\ old.policy[field] = value)
           works == /\ old.provider = "turnstile" /\ ~Said("required", "no") /\ ~Said("action", "custom")
                    /\ key # Blank /\ old.secret # Blank
           chosen == chooseLegacyCaptchaSiteKey(hosts, old.siteKeys)
<1>1. row \in FormRow(DOMAIN legacy.profile) /\ old \in Profile
  BY DatabasesAssumption DEF FormRow
<1> HIDE DEF old, row
<1>2. local \in Policy /\ old.policy \in Policy /\ hosts \in Seq(Text)
      /\ old.siteKeys \in Seq([pattern : Text, key : Text])
  BY <1>1 DEF FormRow, Profile
<1>3. \A host : For(host) = KeyedFor(old.siteKeys, {host, "*"})
  BY DEF KeyedFor
<1>4. {i \in DOMAIN keys : keys[i] # Blank} = Keyed(old.siteKeys)
  BY DEF Keyed
<1>5. chosen = FirstKey(old.siteKeys, mapped)
  <2> DEFINE candidates == {i \in DOMAIN hosts : hosts # <<"*">> /\ KeyedFor(old.siteKeys, {hosts[i], "*"}) # {}}
  <2>1. served = candidates
    BY <1>3
  <2>2. mapped = IF candidates # {} THEN KeyedFor(old.siteKeys, {hosts[Min(candidates)], "*"}) ELSE
                 IF KeyedFor(old.siteKeys, {"*", "*"}) # {} THEN KeyedFor(old.siteKeys, {"*", "*"})
                 ELSE Keyed(old.siteKeys)
    <3> HIDE DEF candidates, served, For
    <3> QED
      BY <2>1, <1>3, <1>4
  <2> HIDE DEF mapped
  <2> QED
    BY <2>2 DEF chooseLegacyCaptchaSiteKey
<1>6. mapped \in SUBSET Keyed(old.siteKeys)
  BY <1>3, <1>4 DEF KeyedFor, Keyed
<1>7. IF mapped # {} THEN chosen = keys[Min(mapped)] /\ chosen # Blank ELSE chosen = Blank
  <2>1. mapped # {} => Min(mapped) \in mapped
    <3> HIDE DEF mapped
    <3>1. mapped \in SUBSET Nat
      BY <1>2, <1>6, LenProperties DEF Keyed
    <3> QED
      BY <3>1, MinIsMember
  <2>2. mapped # {} => keys[Min(mapped)] = old.siteKeys[Min(mapped)].key
    BY <2>1, <1>6 DEF Keyed
  <2> HIDE DEF mapped
  <2> QED
    BY <1>2, <1>5, <1>6, <2>2, FirstKeyOf DEF FirstKey
<1>8. Challenge(f) = IF works THEN [key |-> key, secret |-> old.secret] ELSE NoChallenge
  BY DEF Challenge, row, old
<1> HIDE DEF mapped, chosen
<1>9. key = KeyUnder(old, row)
  BY <1>7 DEF KeyUnder, resolveLegacyCaptchaSettings, OrElse, chosen
<1>10. /\ Said("required", "no") <=> resolveLegacyCaptchaSettings(old.policy, local).required # "yes"
       /\ Said("action", "custom") <=> resolveLegacyCaptchaSettings(old.policy, local).action # "submit"
  BY <1>2 DEF Policy, resolveLegacyCaptchaSettings, OrElse, Blank
<1>11. works <=> WorksUnder(old, row)
  <2> HIDE DEF key, Said
  <2> QED
    BY <1>9, <1>10 DEF WorksUnder
<1> HIDE DEF works, key
<1> QED
  BY <1>8, <1>9, <1>11 DEF old, row

(***************************************************************************)
(* What the conversion does to profiles and forms.                         *)
(***************************************************************************)

\* Filling in site keys changes nothing else, and no key that is there.
LEMMA FilledProfiles ==
  ASSUME profile \in [DOMAIN profile -> Profile]
  PROVE  /\ migrateCaptchaConfiguration \in [DOMAIN profile -> Profile]
         /\ \A id \in DOMAIN profile :
              /\ migrateCaptchaConfiguration[id].siteKey =
                   OrElse(profile[id].siteKey, legacyCaptchaSiteKey(profile[id].policy, profile[id].siteKeys))
              /\ migrateCaptchaConfiguration[id].provider = profile[id].provider
              /\ migrateCaptchaConfiguration[id].secret = profile[id].secret
              /\ migrateCaptchaConfiguration[id].siteKeys = profile[id].siteKeys
              /\ migrateCaptchaConfiguration[id].policy = profile[id].policy
<1> SUFFICES ASSUME NEW id \in DOMAIN profile
             PROVE  LET filled == [profile[id] EXCEPT !.siteKey =
                          OrElse(@, legacyCaptchaSiteKey(profile[id].policy, profile[id].siteKeys))]
                    IN  /\ filled \in Profile
                        /\ filled.siteKey = OrElse(profile[id].siteKey,
                             legacyCaptchaSiteKey(profile[id].policy, profile[id].siteKeys))
                        /\ filled.provider = profile[id].provider
                        /\ filled.secret = profile[id].secret
                        /\ filled.siteKeys = profile[id].siteKeys
                        /\ filled.policy = profile[id].policy
  BY Zenon DEF migrateCaptchaConfiguration
<1>1. profile[id] \in Profile
  OBVIOUS
<1>2. legacyCaptchaSiteKey(profile[id].policy, profile[id].siteKeys) \in Text
  <2>1. profile[id].policy \in Policy /\ << >> \in Seq(Text)
    BY <1>1, EmptySeq DEF Profile
  <2> QED
    BY <1>1, <2>1, KeysAreText
<1> QED
  BY <1>1, <1>2 DEF Profile, OrElse

\* The outcome for a form, under the profile it refers to.
LEMMA ConversionOfForm ==
  ASSUME NEW f, NEW profiles, NEW explicit
  PROVE  Conversion(f, profiles, explicit) =
           IF form[f].captcha = NoProfile \/ (form[f].captcha \in explicit
                                              /\ profiles[form[f].captcha].secret # Blank)
           THEN form[f].captcha ELSE
           IF ~WorksUnder(profiles[form[f].captcha], form[f]) THEN NoProfile ELSE
           IF KeyUnder(profiles[form[f].captcha], form[f]) = profiles[form[f].captcha].siteKey
           THEN form[f].captcha ELSE <<form[f].captcha, f>>
BY DEF Conversion, WorksUnder, KeyUnder

CloneOf(old, row) ==
  [old EXCEPT !.policy = [required |-> Blank, action |-> Blank, key |-> Blank],
     !.siteKeys = << >>,
     !.siteKey = OrElse(resolveLegacyCaptchaSettings(old.policy, row.overrides).key,
                   chooseLegacyCaptchaSiteKey(row.origins, old.siteKeys))]

LEMMA CloneTyped ==
  ASSUME NEW old \in Profile, NEW ids, NEW row \in FormRow(ids)
  PROVE  /\ CloneOf(old, row) \in Profile
         /\ CloneOf(old, row).secret = old.secret
         /\ CloneOf(old, row).siteKey =
              OrElse(resolveLegacyCaptchaSettings(old.policy, row.overrides).key,
                chooseLegacyCaptchaSiteKey(row.origins, old.siteKeys))
<1>1. row.overrides \in Policy /\ row.origins \in Seq(Text)
  BY DEF FormRow
<1>2. OrElse(resolveLegacyCaptchaSettings(old.policy, row.overrides).key,
        chooseLegacyCaptchaSiteKey(row.origins, old.siteKeys)) \in Text
  BY <1>1, KeysAreText DEF OrElse
<1>3. << >> \in Seq([pattern : Text, key : Text])
  BY EmptySeq
<1>4. [required |-> Blank, action |-> Blank, key |-> Blank] \in Policy
  BY DEF Policy, Text
<1> QED
  BY <1>2, <1>3, <1>4 DEF CloneOf, Profile

\* New profiles are the clones of the forms that need one, under names no
\* profile had.
LEMMA ClonesOfForms ==
  ASSUME profile \in [DOMAIN profile -> Profile], form \in [Forms -> FormRow(DOMAIN profile)],
         NEW profiles \in [DOMAIN profile -> Profile], NEW explicit,
         (DOMAIN profile) \cap ((DOMAIN profile) \X Forms) = {}, NoProfile \notin DOMAIN profile,
         NEW converted, converted = migrateLegacyCaptchaForms(profiles, explicit),
         NEW made, made = legacyCaptchaClones(profiles, converted)
  PROVE  /\ DOMAIN profile \subseteq DOMAIN made
         /\ DOMAIN made \subseteq (DOMAIN profile) \cup ((DOMAIN profile) \X Forms)
         /\ \A id \in DOMAIN profile : made[id] = profiles[id]
         /\ \A f \in Forms : converted[f].captcha \notin (DOMAIN profile) \cup {NoProfile} =>
              /\ converted[f].captcha = <<form[f].captcha, f>>
              /\ form[f].captcha \in DOMAIN profile
              /\ made[<<form[f].captcha, f>>] = CloneOf(profiles[form[f].captcha], form[f])
         /\ made \in [DOMAIN made -> Profile]
         /\ converted \in [Forms -> FormRow(DOMAIN made)]
<1> DEFINE cloned == {f \in Forms : converted[f].captcha \notin (DOMAIN profiles) \cup {NoProfile}}
           Clone(f) == CloneOf(profiles[form[f].captcha], form[f])
<1>1. made = [id \in (DOMAIN profiles) \cup {converted[f].captcha : f \in cloned} |->
                IF id \in DOMAIN profiles THEN profiles[id]
                ELSE Clone(CHOOSE f \in cloned : converted[f].captcha = id)]
  BY DEF legacyCaptchaClones, CloneOf
<1>2. \A f \in Forms : converted[f] = [form[f] EXCEPT !.captcha = Conversion(f, profiles, explicit)]
  BY DEF migrateLegacyCaptchaForms
<1>3. \A f \in Forms : /\ form[f] \in FormRow(DOMAIN profile)
                       /\ form[f].captcha \in (DOMAIN profile) \cup {NoProfile}
                       /\ converted[f].captcha = Conversion(f, profiles, explicit)
  <2> SUFFICES ASSUME NEW f \in Forms
               PROVE  /\ form[f] \in FormRow(DOMAIN profile)
                      /\ form[f].captcha \in (DOMAIN profile) \cup {NoProfile}
                      /\ converted[f].captcha = Conversion(f, profiles, explicit)
    OBVIOUS
  <2>1. form[f] \in FormRow(DOMAIN profile)
    OBVIOUS
  <2>2. form[f] \in [captcha : (DOMAIN profile) \cup {NoProfile}, origins : Seq(Text), overrides : Policy]
    BY <2>1 DEF FormRow
  <2> QED
    BY <1>2, <2>1, <2>2
<1>4. ASSUME NEW f \in cloned
      PROVE  /\ f \in Forms
             /\ form[f].captcha \in DOMAIN profile
             /\ converted[f].captcha = <<form[f].captcha, f>>
             /\ converted[f].captcha \notin DOMAIN profiles
  BY <1>3, <1>4, ConversionOfForm
<1>5. ASSUME NEW f \in cloned
      PROVE  (CHOOSE g \in cloned : converted[g].captcha = converted[f].captcha) = f
  <2>1. \A g \in cloned : converted[g].captcha = converted[f].captcha => g = f
    BY <1>4
  <2> HIDE DEF cloned
  <2> QED
    BY <2>1
<1>6. ASSUME NEW f \in cloned
      PROVE  made[converted[f].captcha] = Clone(f) /\ converted[f].captcha \in DOMAIN made
  <2> HIDE DEF cloned, Clone
  <2> QED
    BY <1>1, <1>4, <1>5
<1>7. DOMAIN made = (DOMAIN profiles) \cup {converted[f].captcha : f \in cloned}
  <2> HIDE DEF cloned, Clone
  <2> QED
    BY <1>1
<1>8. \A id \in DOMAIN profile : made[id] = profiles[id]
  <2> HIDE DEF cloned, Clone
  <2> QED
    BY <1>1
<1>9. made \in [DOMAIN made -> Profile]
  <2>1. \A f \in cloned : Clone(f) \in Profile
    BY <1>3, <1>4, CloneTyped
  <2>2. ASSUME NEW id \in DOMAIN made
        PROVE  made[id] \in Profile
    <3> HIDE DEF cloned, Clone
    <3> QED
      BY <1>6, <1>7, <1>8, <2>1
  <2>3. made = [id \in DOMAIN made |-> made[id]]
    <3> HIDE DEF cloned, Clone
    <3> QED
      BY <1>1
  <2> QED
    BY <2>2, <2>3
<1>10. converted \in [Forms -> FormRow(DOMAIN made)]
  <2>1. ASSUME NEW f \in Forms
        PROVE  converted[f].captcha \in (DOMAIN made) \cup {NoProfile}
    BY <1>6, <1>7
  <2>2. ASSUME NEW f \in Forms
        PROVE  converted[f] \in FormRow(DOMAIN made)
    <3> HIDE DEF cloned
    <3>1. converted[f].captcha = Conversion(f, profiles, explicit)
      BY <1>3
    <3> QED
      BY <1>2, <1>3, <2>1, <3>1 DEF FormRow
  <2>3. converted = [f \in Forms |-> converted[f]]
    BY DEF migrateLegacyCaptchaForms
  <2> QED
    BY <2>2, <2>3
<1>11. DOMAIN made \subseteq (DOMAIN profile) \cup ((DOMAIN profile) \X Forms)
  <2>1. ASSUME NEW f \in cloned
        PROVE  converted[f].captcha \in (DOMAIN profile) \X Forms
    <3>1. f \in Forms /\ form[f].captcha \in DOMAIN profile /\ converted[f].captcha = <<form[f].captcha, f>>
      BY <1>4
    <3> QED
      BY <3>1
  <2> HIDE DEF cloned
  <2> QED
    BY <2>1, <1>7
<1> QED
  BY <1>4, <1>6, <1>7, <1>8, <1>9, <1>10, <1>11

(***************************************************************************)
(* Every transaction keeps the invariant of the migration.                 *)
(***************************************************************************)

Progress == [hasSiteKey : BOOLEAN,
             pc : {"idle", "inspect", "accounts", "schema", "configuration", "records", "done"}]

LEMMA ChallengeStays ==
  ASSUME legacy' = legacy, NEW f
  PROVE  Challenge(f)' = Challenge(f)
BY DEF Challenge, NoChallenge, NoProfile, Blank

\* As long as the tables and the administrator's edits stay, so do the
\* properties of the conversion.
LEMMA EffectsStay ==
  ASSUME ProtectionKept, RoutesKept, EditsSurvive,
         UNCHANGED <<profile, form, notice, applied, edited, legacy>>,
         columns' \cap OldColumns = columns \cap OldColumns
  PROVE  ProtectionKept' /\ RoutesKept' /\ EditsSurvive'
<1>1. Edits' = Edits /\ \A f \in Forms : Challenge(f)' = Challenge(f)
  BY ChallengeStays DEF Edits
<1>2. \A c \in OldColumns : Has(c)' <=> Has(c)
  BY DEF Has
<1>3. "site_keys_json" \in OldColumns /\ "overrides_json" \in OldColumns /\ "provider" \in OldColumns
  BY DEF OldColumns
<1>4. ProtectionKept'
  BY <1>1, <1>2, <1>3 DEF ProtectionKept
<1>5. RoutesKept'
  BY <1>2, <1>3 DEF RoutesKept
<1>6. EditsSurvive'
  BY <1>1 DEF EditsSurvive
<1> QED
  BY <1>4, <1>5, <1>6

LEMMA InitialMigration ==
  ASSUME MigrationInit
  PROVE  MigrationInv
<1>1. PICK d \in Databases :
        /\ columns = d.columns /\ account = d.account /\ profile = d.profile /\ form = d.form
        /\ notice = d.notice /\ legacy = d
  BY DEF MigrationInit
<1>2. /\ hooks = {} /\ applied = FALSE /\ mig = [p \in Processes |-> NoMigration]
      /\ edited = [f \in Forms |-> Unedited] /\ changed = FALSE
  BY DEF MigrationInit
<1>3. Edits = {}
  BY <1>2 DEF Edits
<1>4. \A p \in Processes : mig[p] = [pc |-> "idle", hasSiteKey |-> FALSE]
  BY <1>2 DEF NoMigration
<1>5. MigrationTypeOK
  <2>1. mig \in [Processes -> Progress]
    BY <1>2 DEF NoMigration, Progress
  <2>2. /\ columns \subseteq Columns /\ account \in Account
        /\ profile \in [DOMAIN profile -> Profile] /\ form \in [Forms -> FormRow(DOMAIN profile)]
        /\ notice \in Notice
    BY <1>1, DatabasesAssumption
  <2> QED
    BY <1>2, <2>1, <2>2 DEF MigrationTypeOK, Progress
<1>6. SchemaKnown
  BY <1>1, <1>4 DEF SchemaKnown
<1>7. ConvertedOnce
  <2>1. DOMAIN profile \cap {NoProfile, Unedited} = {}
    BY <1>1, DatabasesAssumption
  <2> QED
    BY <1>1, <1>2, <1>3, <1>4, <2>1 DEF ConvertedOnce
<1>8. ProtectionKept /\ RoutesKept /\ EditsSurvive
  BY <1>2, <1>3 DEF ProtectionKept, RoutesKept, EditsSurvive
<1>9. InitialPasswordMustGo
  BY <1>1 DEF InitialPasswordMustGo, Has
<1> QED
  BY <1>5, <1>6, <1>7, <1>8, <1>9 DEF MigrationInv

\* A process that looks at the schema, stops, or is reset changes no table.
LEMMA LookingKeeps ==
  ASSUME MigrationInv, NEW p \in Processes, NEW now, mig' = [mig EXCEPT ![p] = now],
         UNCHANGED <<tables, edited, changed, legacy>>,
         \/ now = NoMigration
         \/ now.pc \in {"inspect", "accounts", "schema"} /\ now \in Progress
            /\ (now.pc = "schema" => Has("password_change_required"))
            /\ ({"site_keys_json", "site_key"} \subseteq legacy.columns => now.hasSiteKey)
  PROVE  MigrationInv'
<1> USE DEF tables
<1>1. ProtectionKept' /\ RoutesKept' /\ EditsSurvive'
  BY EffectsStay DEF MigrationInv
<1>2. \A q \in Processes : mig'[q] = IF q = p THEN now ELSE mig[q]
  BY DEF MigrationInv, MigrationTypeOK
<1>3. now \in Progress
      /\ now.pc \in {"idle", "inspect", "accounts", "schema"}
  <2>1. NoMigration \in Progress /\ NoMigration.pc = "idle"
    BY DEF NoMigration, Progress
  <2> QED
    BY <2>1
<1>4. MigrationTypeOK'
  BY <1>3 DEF MigrationInv, MigrationTypeOK, Progress
<1>5. SchemaKnown'
  <2>1. now.pc = "schema" => Has("password_change_required")
    BY DEF NoMigration
  <2>2. now.pc # "idle" /\ {"site_keys_json", "site_key"} \subseteq legacy.columns => now.hasSiteKey
    BY DEF NoMigration
  <2> QED
    BY <1>2, <1>3, <2>1, <2>2 DEF MigrationInv, SchemaKnown, Has
<1>6. ConvertedOnce'
  BY <1>2, <1>3 DEF MigrationInv, ConvertedOnce, Converted, Edits, Has
<1>7. InitialPasswordMustGo'
  BY DEF MigrationInv, InitialPasswordMustGo, Has
<1> QED
  BY <1>1, <1>4, <1>5, <1>6, <1>7 DEF MigrationInv

LEMMA InspectionKeeps ==
  ASSUME MigrationInv, NEW p \in Processes, InspectConfiguration(p) \/ InspectAccounts(p)
  PROVE  MigrationInv'
<1>0. mig[p] \in Progress
  BY DEF MigrationInv, MigrationTypeOK, Progress
<1>1. CASE InspectConfiguration(p)
  <2> DEFINE now == [pc |-> "inspect", hasSiteKey |-> Has("site_keys_json") /\ Has("site_key")]
  <2>1. {"site_keys_json", "site_key"} \subseteq legacy.columns => now.hasSiteKey
    BY DEF MigrationInv, SchemaKnown, Has
  <2>2. mig' = [mig EXCEPT ![p] = now] /\ UNCHANGED <<tables, edited, changed, legacy>>
    BY <1>1 DEF InspectConfiguration, KeepGhosts
  <2>3. now.pc \in {"inspect", "accounts", "schema"} /\ now \in Progress
        /\ now.pc # "schema"
    BY DEF Progress
  <2> HIDE DEF now
  <2> QED
    BY <2>1, <2>2, <2>3, LookingKeeps
<1>2. CASE InspectAccounts(p)
  <2> DEFINE now == [mig[p] EXCEPT !.pc =
                       IF Has("password_change_required") THEN "schema" ELSE "accounts"]
  <2>1. mig' = [mig EXCEPT ![p] = now] /\ UNCHANGED <<tables, edited, changed, legacy>>
    BY <1>2 DEF InspectAccounts, Step, KeepGhosts
  <2>2. now.hasSiteKey = mig[p].hasSiteKey /\ mig[p].pc = "inspect"
    BY <1>0, <1>2 DEF InspectAccounts, Step
  <2>3. {"site_keys_json", "site_key"} \subseteq legacy.columns => now.hasSiteKey
    BY <2>2 DEF MigrationInv, SchemaKnown
  <2>4. now.pc \in {"inspect", "accounts", "schema"} /\ now \in Progress
        /\ (now.pc = "schema" => Has("password_change_required"))
    BY <1>0 DEF Progress
  <2> HIDE DEF now
  <2> QED
    BY <2>1, <2>3, <2>4, LookingKeeps
<1> QED
  BY <1>1, <1>2

\* What a step of a process does to its progress.
LEMMA StepMoves ==
  ASSUME MigrationTypeOK, NEW p \in Processes, NEW from,
         NEW to \in {"schema", "configuration", "records", "done"}, Step(p, from, to)
  PROVE  /\ mig[p].pc = from
         /\ mig' \in [Processes -> Progress]
         /\ \A q \in Processes : /\ mig'[q].hasSiteKey = mig[q].hasSiteKey
                                 /\ mig'[q].pc = IF q = p THEN to ELSE mig[q].pc
BY DEF Step, MigrationTypeOK, Progress

LEMMA PasswordStateKeeps ==
  ASSUME MigrationInv, NEW p \in Processes, MigratePasswordState(p)
  PROVE  MigrationInv'
<1> USE DEF KeepGhosts, MigratePasswordState
<1>1. /\ mig[p].pc = "accounts" /\ mig' \in [Processes -> Progress]
      /\ \A q \in Processes : /\ mig'[q].hasSiteKey = mig[q].hasSiteKey
                              /\ mig'[q].pc = IF q = p THEN "schema" ELSE mig[q].pc
  BY StepMoves DEF MigrationInv
<1>2. columns' = columns \cup {"password_change_required"} /\ columns' \cap OldColumns = columns \cap OldColumns
  BY DEF OldColumns
<1>3. ProtectionKept' /\ RoutesKept' /\ EditsSurvive'
  BY <1>2, EffectsStay DEF MigrationInv
<1>4. account' \in Account /\ account'.signedIn = account.signedIn
      /\ account'.required = (account.required \/ ~account.signedIn)
  BY DEF MigrationInv, MigrationTypeOK, Account
<1>5. MigrationTypeOK'
  <2>1. columns' \subseteq Columns
    BY <1>2 DEF MigrationInv, MigrationTypeOK, Columns
  <2> QED
    BY <1>1, <1>4, <2>1 DEF MigrationInv, MigrationTypeOK, Progress
<1>6. SchemaKnown'
  BY <1>1, <1>2, <1>4 DEF MigrationInv, SchemaKnown, Has
<1>7. ConvertedOnce'
  BY <1>1, <1>2 DEF MigrationInv, ConvertedOnce, Converted, Edits, Has
<1>8. InitialPasswordMustGo'
  <2> SUFFICES ASSUME "password_change_required" \notin legacy.columns
               PROVE  /\ ~legacy.account.signedIn /\ ~changed => account'.required
                      /\ legacy.account.signedIn => ~account'.required
    BY DEF InitialPasswordMustGo
  <2>1. account.signedIn = legacy.account.signedIn
    BY DEF MigrationInv, SchemaKnown
  <2>2. legacy.account.signedIn => ~account.required
    <3>1. CASE Has("password_change_required")
      BY <3>1 DEF MigrationInv, InitialPasswordMustGo
    <3>2. CASE ~Has("password_change_required")
      BY <3>2, DatabasesAssumption DEF MigrationInv, SchemaKnown, ConvertedOnce
    <3> QED
      BY <3>1, <3>2
  <2>3. account.required \in BOOLEAN /\ account.signedIn \in BOOLEAN
    BY DEF MigrationInv, MigrationTypeOK, Account
  <2> QED
    BY <1>4, <2>1, <2>2, <2>3
<1> QED
  BY <1>3, <1>5, <1>6, <1>7, <1>8 DEF MigrationInv

LEMMA SchemaKeeps ==
  ASSUME MigrationInv, NEW p \in Processes, MigrateSchema(p)
  PROVE  MigrationInv'
<1> USE DEF KeepGhosts, MigrateSchema
<1>1. /\ mig[p].pc = "schema" /\ mig' \in [Processes -> Progress]
      /\ \A q \in Processes : /\ mig'[q].hasSiteKey = mig[q].hasSiteKey
                              /\ mig'[q].pc = IF q = p THEN "configuration" ELSE mig[q].pc
  BY StepMoves DEF MigrationInv
<1>2. columns' = columns \cup {"site_key", "password_change_required"}
      /\ columns' \cap OldColumns = columns \cap OldColumns
  BY DEF OldColumns
<1>3. ProtectionKept' /\ RoutesKept' /\ EditsSurvive'
  BY <1>2, EffectsStay DEF MigrationInv
<1>4. Has("password_change_required")
  BY <1>1 DEF MigrationInv, SchemaKnown
<1>5. MigrationTypeOK'
  <2>1. columns' \subseteq Columns
    BY <1>2 DEF MigrationInv, MigrationTypeOK, Columns
  <2> QED
    BY <1>1, <2>1 DEF MigrationInv, MigrationTypeOK, Progress
<1>6. SchemaKnown'
  BY <1>1, <1>2, <1>4 DEF MigrationInv, SchemaKnown, Has
<1>7. ConvertedOnce'
  BY <1>1, <1>2, <1>4 DEF MigrationInv, ConvertedOnce, Converted, Edits, Has
<1>8. InitialPasswordMustGo'
  BY <1>4 DEF MigrationInv, InitialPasswordMustGo, Has
<1> QED
  BY <1>3, <1>5, <1>6, <1>7, <1>8 DEF MigrationInv

LEMMA RecordsKeep ==
  ASSUME MigrationInv, NEW p \in Processes, ReconcileDeliveryRecords(p)
  PROVE  MigrationInv'
<1> USE DEF KeepGhosts, ReconcileDeliveryRecords
<1>1. /\ mig[p].pc = "records" /\ mig' \in [Processes -> Progress]
      /\ \A q \in Processes : /\ mig'[q].hasSiteKey = mig[q].hasSiteKey
                              /\ mig'[q].pc = IF q = p THEN "done" ELSE mig[q].pc
  BY StepMoves DEF MigrationInv
<1>2. ProtectionKept' /\ RoutesKept' /\ EditsSurvive'
  BY EffectsStay DEF MigrationInv
<1>3. MigrationTypeOK'
  BY <1>1 DEF MigrationInv, MigrationTypeOK, Progress
<1>4. SchemaKnown'
  BY <1>1 DEF MigrationInv, SchemaKnown, Has
<1>5. ConvertedOnce'
  BY <1>1 DEF MigrationInv, ConvertedOnce, Converted, Edits, Has
<1>6. InitialPasswordMustGo'
  BY DEF MigrationInv, InitialPasswordMustGo, Has
<1> QED
  BY <1>2, <1>3, <1>4, <1>5, <1>6 DEF MigrationInv

\* The administrator finds a converted database with the whole schema.
LEMMA AdministratorFinds ==
  ASSUME MigrationInv, Migrated
  PROVE  Converted /\ Has("password_change_required")
BY DEF MigrationInv, Migrated, ConvertedOnce, SchemaKnown

LEMMA PasswordChangeKeeps ==
  ASSUME MigrationInv, storePassword
  PROVE  MigrationInv'
<1> USE DEF storePassword
<1>1. ProtectionKept' /\ RoutesKept' /\ EditsSurvive'
  BY EffectsStay DEF MigrationInv
<1>2. account' \in Account /\ account'.signedIn = account.signedIn /\ ~account'.required
  BY DEF MigrationInv, MigrationTypeOK, Account
<1>3. MigrationTypeOK'
  BY <1>2 DEF MigrationInv, MigrationTypeOK
<1>4. SchemaKnown'
  BY <1>2 DEF MigrationInv, SchemaKnown, Has
<1>5. ConvertedOnce'
  BY AdministratorFinds DEF MigrationInv, ConvertedOnce, Converted, Edits, Has
<1>6. InitialPasswordMustGo'
  BY <1>2 DEF InitialPasswordMustGo
<1> QED
  BY <1>1, <1>3, <1>4, <1>5, <1>6 DEF MigrationInv

LEMMA AssignmentKeeps ==
  ASSUME MigrationInv, NEW f \in Assignable, NEW id \in (DOMAIN profile) \cup {NoProfile},
         AssignCaptcha(f, id)
  PROVE  MigrationInv'
<1> USE DEF AssignCaptcha
<1>1. f \in Forms /\ id # Unedited
  <2>1. NoProfile # Unedited
    BY DEF NoProfile, Unedited
  <2> QED
    BY <2>1, MigrationAssumption DEF MigrationInv, ConvertedOnce
<1>2. form' \in [Forms -> FormRow(DOMAIN profile)] /\ form'[f].captcha = id
      /\ \A g \in Forms : g # f => form'[g] = form[g]
  <2>1. form[f] \in [captcha : (DOMAIN profile) \cup {NoProfile}, origins : Seq(Text), overrides : Policy]
        /\ form \in [Forms -> FormRow(DOMAIN profile)]
    BY <1>1 DEF MigrationInv, MigrationTypeOK, FormRow
  <2>2. [form[f] EXCEPT !.captcha = id] \in FormRow(DOMAIN profile)
        /\ [form[f] EXCEPT !.captcha = id].captcha = id
    BY <2>1 DEF FormRow
  <2>3. form' = [form EXCEPT ![f] = [form[f] EXCEPT !.captcha = id]]
    OBVIOUS
  <2> QED
    BY <1>1, <2>1, <2>2, <2>3
<1>3. edited' \in [Forms -> (DOMAIN profile) \cup {NoProfile, Unedited}] /\ Edits' = Edits \cup {f}
      /\ edited'[f] = id /\ \A g \in Forms : g # f => edited'[g] = edited[g]
  BY <1>1 DEF MigrationInv, ConvertedOnce, Edits
<1>4. MigrationTypeOK'
  BY <1>2 DEF MigrationInv, MigrationTypeOK
<1>5. SchemaKnown'
  BY DEF MigrationInv, SchemaKnown, Has
<1>6. ConvertedOnce'
  BY <1>2, <1>3, AdministratorFinds DEF MigrationInv, ConvertedOnce, Converted, Has
<1>7. ProtectionKept'
  <2>1. \A g \in Forms : Challenge(g)' = Challenge(g)
    BY ChallengeStays
  <2>2. Has("site_keys_json")' <=> Has("site_keys_json")
    BY DEF Has
  <2>3. \A g \in Forms \ Edits' : g \in Forms \ Edits /\ form'[g] = form[g]
    BY <1>2, <1>3
  <2> QED
    BY <2>1, <2>2, <2>3 DEF MigrationInv, ProtectionKept
<1>8. EditsSurvive'
  BY <1>2, <1>3 DEF MigrationInv, EditsSurvive, Edits
<1>9. RoutesKept' /\ InitialPasswordMustGo'
  BY DEF MigrationInv, RoutesKept, InitialPasswordMustGo, Has
<1> QED
  BY <1>4, <1>5, <1>6, <1>7, <1>8, <1>9 DEF MigrationInv

(***************************************************************************)
(* The conversion itself.                                                  *)
(***************************************************************************)

\* A challenge that is asked has a key.
LEMMA ChallengeHasKey ==
  ASSUME legacy \in Databases, NEW f \in Forms, Challenge(f) # NoChallenge
  PROVE  Challenge(f).key # Blank
<1>1. CASE FormBefore(f).captcha = NoProfile
  BY <1>1 DEF Challenge, FormBefore
<1>2. CASE FormBefore(f).captcha # NoProfile /\ ProfileBefore(f).siteKey # Blank
           /\ ProfileBefore(f).secret # Blank
  <2>1. Challenge(f) = [key |-> ProfileBefore(f).siteKey, secret |-> ProfileBefore(f).secret]
    BY <1>2 DEF Challenge, FormBefore, ProfileBefore
  <2> QED
    BY <1>2, <2>1
<1>3. CASE FormBefore(f).captcha # NoProfile
           /\ ~(ProfileBefore(f).siteKey # Blank /\ ProfileBefore(f).secret # Blank)
  BY <1>3, ChallengeOfForm DEF WorksUnder
<1> QED
  BY <1>1, <1>2, <1>3

\* A filled in key changes nothing for a form whose profile had no use for it.
LEMMA FilledKeyUnder ==
  ASSUME NEW old \in Profile, NEW filled, NEW ids, NEW row \in FormRow(ids),
         filled.provider = old.provider, filled.secret = old.secret,
         filled.siteKeys = old.siteKeys, filled.policy = old.policy,
         filled.siteKey = OrElse(old.siteKey, legacyCaptchaSiteKey(old.policy, old.siteKeys)),
         ~(old.siteKey # Blank /\ old.secret # Blank)
  PROVE  /\ WorksUnder(filled, row) <=> WorksUnder(old, row)
         /\ WorksUnder(old, row) => KeyUnder(filled, row) = KeyUnder(old, row)
<1>1. old.siteKeys \in Seq([pattern : Text, key : Text]) /\ row.origins \in Seq(Text)
  BY DEF Profile, FormRow
<1> DEFINE local == resolveLegacyCaptchaSettings(old.policy, row.overrides).key
           chosen == chooseLegacyCaptchaSiteKey(row.origins, old.siteKeys)
<1>2. local = Blank => old.policy.key = Blank
  BY DEF resolveLegacyCaptchaSettings, OrElse
<1>3. chosen = Blank => FirstKey(old.siteKeys, Keyed(old.siteKeys)) = Blank
  BY <1>1, ChosenKey, FirstKeyOf
<1>4. local = Blank /\ chosen = Blank => legacyCaptchaSiteKey(old.policy, old.siteKeys) = Blank
  BY <1>2, <1>3 DEF legacyCaptchaSiteKey, OrElse
<1>5. KeyUnder(filled, row) = OrElse(local, OrElse(chosen, filled.siteKey))
      /\ KeyUnder(old, row) = OrElse(local, OrElse(chosen, old.siteKey))
  BY DEF KeyUnder
<1>6. old.secret # Blank => KeyUnder(filled, row) = KeyUnder(old, row)
  <2> HIDE DEF local, chosen
  <2> QED
    BY <1>4, <1>5 DEF OrElse
<1> QED
  BY <1>6 DEF WorksUnder

\* The first conversion gives every form the challenge the older release asked.
LEMMA ConversionKeepsChallenge ==
  ASSUME MigrationInv, ~applied, Has("site_keys_json"),
         NEW p \in Processes, mig[p].pc = "configuration",
         NEW converted,
         converted = migrateLegacyCaptchaForms(migrateCaptchaConfiguration, ExplicitProfiles(p)),
         NEW made, made = legacyCaptchaClones(migrateCaptchaConfiguration, converted),
         NEW f \in Forms
  PROVE  LET id == converted[f].captcha
         IN  IF Challenge(f) = NoChallenge THEN id = NoProfile
             ELSE id # NoProfile /\ Challenge(f) = [key |-> made[id].siteKey, secret |-> made[id].secret]
<1> DEFINE row == form[f]
           id == form[f].captcha
           old == profile[id]
           filled == migrateCaptchaConfiguration[id]
           explicit == ExplicitProfiles(p)
<1>1. legacy \in Databases /\ profile = legacy.profile /\ row = legacy.form[f]
      /\ profile \in [DOMAIN profile -> Profile] /\ form \in [Forms -> FormRow(DOMAIN profile)]
  <2>1. Edits = {}
    BY DEF MigrationInv, ConvertedOnce, Converted, Has, OldColumns
  <2> QED
    BY <2>1 DEF MigrationInv, SchemaKnown, ConvertedOnce, MigrationTypeOK
<1>2. row = FormBefore(f) /\ old = ProfileBefore(f)
  BY <1>1 DEF FormBefore, ProfileBefore
<1>3. row \in FormRow(DOMAIN profile) /\ id \in (DOMAIN profile) \cup {NoProfile}
  <2>1. row \in [captcha : (DOMAIN profile) \cup {NoProfile}, origins : Seq(Text), overrides : Policy]
    BY <1>1 DEF FormRow
  <2> QED
    BY <1>1, <2>1
<1>4. converted[f].captcha = Conversion(f, migrateCaptchaConfiguration, explicit)
  <2>1. row \in [captcha : (DOMAIN profile) \cup {NoProfile}, origins : Seq(Text), overrides : Policy]
    BY <1>1 DEF FormRow
  <2>2. converted[f] = [row EXCEPT !.captcha = Conversion(f, migrateCaptchaConfiguration, explicit)]
    BY DEF migrateLegacyCaptchaForms
  <2> QED
    BY <2>1, <2>2
<1>5. CASE id = NoProfile
  <2>1. Challenge(f) = NoChallenge
    BY <1>2, <1>5 DEF Challenge, FormBefore
  <2>2. converted[f].captcha = NoProfile
    BY <1>4, <1>5, ConversionOfForm
  <2> QED
    BY <2>1, <2>2
<1>6. CASE id # NoProfile
  <2>1. id \in DOMAIN profile /\ old \in Profile
    BY <1>1, <1>3, <1>6
  <2>2. /\ migrateCaptchaConfiguration \in [DOMAIN profile -> Profile]
        /\ filled.provider = old.provider /\ filled.secret = old.secret
        /\ filled.siteKeys = old.siteKeys /\ filled.policy = old.policy
        /\ filled.siteKey = OrElse(old.siteKey, legacyCaptchaSiteKey(old.policy, old.siteKeys))
    BY <1>1, <2>1, FilledProfiles
  <2>3. id \in explicit <=> old.siteKey # Blank
    <3>1. CASE "site_key" \in legacy.columns
      <4>1. "site_keys_json" \in legacy.columns
        BY DEF MigrationInv, SchemaKnown, Has, OldColumns
      <4>2. mig[p].hasSiteKey
        BY <3>1, <4>1 DEF MigrationInv, SchemaKnown
      <4> QED
        BY <2>1, <4>2 DEF ExplicitProfiles
    <3>2. CASE "site_key" \notin legacy.columns
      <4>1. old.siteKey = Blank
        BY <1>1, <2>1, <3>2, DatabasesAssumption
      <4> QED
        BY <4>1 DEF ExplicitProfiles
    <3> QED
      BY <3>1, <3>2
  <2>4. DOMAIN profile \cap ((DOMAIN profile) \X Forms) = {} /\ NoProfile \notin DOMAIN profile
    BY <1>1, DatabasesAssumption
  <2>5. /\ \A i \in DOMAIN profile : made[i] = migrateCaptchaConfiguration[i]
        /\ converted[f].captcha \notin (DOMAIN profile) \cup {NoProfile} =>
             made[<<id, f>>] = CloneOf(filled, row)
    BY <1>1, <2>2, <2>4, ClonesOfForms
  <2>6. CASE old.siteKey # Blank /\ old.secret # Blank
    <3>1. Challenge(f) = [key |-> old.siteKey, secret |-> old.secret]
      BY <1>2, <1>6, <2>6 DEF Challenge, FormBefore, ProfileBefore
    <3>2. converted[f].captcha = id
      BY <1>4, <2>2, <2>3, <2>6, ConversionOfForm
    <3>3. made[id].siteKey = old.siteKey /\ made[id].secret = old.secret
      BY <2>1, <2>2, <2>5, <2>6 DEF OrElse
    <3>4. Challenge(f) # NoChallenge
      BY <3>1, <2>6 DEF NoChallenge
    <3> QED
      BY <1>6, <3>1, <3>2, <3>3, <3>4
  <2>7. CASE ~(old.siteKey # Blank /\ old.secret # Blank)
    <3>1. Challenge(f) = IF WorksUnder(old, row) THEN [key |-> KeyUnder(old, row), secret |-> old.secret]
                         ELSE NoChallenge
      BY <1>1, <1>2, <1>6, <2>7, ChallengeOfForm
    <3>2. /\ WorksUnder(filled, row) <=> WorksUnder(old, row)
          /\ WorksUnder(old, row) => KeyUnder(filled, row) = KeyUnder(old, row)
      BY <1>3, <2>1, <2>2, <2>7, FilledKeyUnder
    <3>3. converted[f].captcha =
            IF ~WorksUnder(filled, row) THEN NoProfile ELSE
            IF KeyUnder(filled, row) = filled.siteKey THEN id ELSE <<id, f>>
      BY <1>4, <1>6, <2>2, <2>3, <2>7, ConversionOfForm
    <3>4. CASE ~WorksUnder(old, row)
      BY <3>1, <3>2, <3>3, <3>4
    <3>5. CASE WorksUnder(old, row)
      <4>1. KeyUnder(old, row) # Blank
        BY <3>5 DEF WorksUnder
      <4>2. Challenge(f) = [key |-> KeyUnder(filled, row), secret |-> filled.secret]
            /\ Challenge(f) # NoChallenge
        BY <2>2, <3>1, <3>2, <3>5, <4>1 DEF NoChallenge
      <4>3. CASE KeyUnder(filled, row) = filled.siteKey
        BY <1>6, <2>1, <2>5, <3>2, <3>3, <3>5, <4>2, <4>3
      <4>4. CASE KeyUnder(filled, row) # filled.siteKey
        <5>1. converted[f].captcha = <<id, f>>
          BY <3>2, <3>3, <3>5, <4>4
        <5>2. <<id, f>> \notin DOMAIN profile /\ <<id, f>> # NoProfile
          <6>1. <<id, f>> \in (DOMAIN profile) \X Forms
            BY <2>1
          <6>2. <<id, f>> # << >>
            OBVIOUS
          <6> QED
            BY <2>4, <6>1, <6>2 DEF NoProfile
        <5>3. made[<<id, f>>] = CloneOf(filled, row)
          BY <2>5, <5>1, <5>2
        <5>4. filled \in Profile
          BY <2>1, <2>2
        <5>5. CloneOf(filled, row).secret = filled.secret
              /\ CloneOf(filled, row).siteKey =
                   OrElse(resolveLegacyCaptchaSettings(filled.policy, row.overrides).key,
                     chooseLegacyCaptchaSiteKey(row.origins, filled.siteKeys))
          BY <1>3, <5>4, CloneTyped
        <5>6. CloneOf(filled, row).siteKey = KeyUnder(filled, row)
          BY <4>4, <5>5 DEF KeyUnder, OrElse
        <5> QED
          BY <4>2, <5>1, <5>2, <5>3, <5>5, <5>6
      <4> QED
        BY <4>3, <4>4
    <3> QED
      BY <3>4, <3>5
  <2> QED
    BY <2>6, <2>7
<1> QED
  BY <1>5, <1>6

\* A conversion after the first one creates no profile.
LEMMA NoNewClones ==
  ASSUME form \in [Forms -> FormRow(DOMAIN profile)], NEW profiles \in [DOMAIN profile -> Profile]
  PROVE  legacyCaptchaClones(profiles, form) = profiles
<1>1. ASSUME NEW f \in Forms
      PROVE  form[f].captcha \in (DOMAIN profiles) \cup {NoProfile}
  <2>1. form[f] \in [captcha : (DOMAIN profile) \cup {NoProfile}, origins : Seq(Text), overrides : Policy]
    BY DEF FormRow
  <2> QED
    BY <2>1
<1> DEFINE cloned == {f \in Forms : form[f].captcha \notin (DOMAIN profiles) \cup {NoProfile}}
           Clone(f) == CloneOf(profiles[form[f].captcha], form[f])
<1>2. legacyCaptchaClones(profiles, form) =
        [id \in (DOMAIN profiles) \cup {form[f].captcha : f \in cloned} |->
           IF id \in DOMAIN profiles THEN profiles[id]
           ELSE Clone(CHOOSE f \in cloned : form[f].captcha = id)]
  BY DEF legacyCaptchaClones, CloneOf
<1>3. cloned = {}
  BY <1>1
<1> HIDE DEF cloned, Clone
<1>4. (DOMAIN profiles) \cup {form[f].captcha : f \in cloned} = DOMAIN profiles
  BY <1>3
<1>5. legacyCaptchaClones(profiles, form) = [id \in DOMAIN profiles |-> profiles[id]]
  BY <1>2, <1>4
<1> QED
  BY <1>5

\* Notifications are completed by every conversion, disabled by the first.
LEMMA NoticeConverted ==
  ASSUME MigrationInv, NEW p \in Processes, ConvertConfiguration(p), columns \cap OldColumns # {}
  PROVE  notice' \in Notice /\ RoutesKept' /\ notice'.override = legacy.notice.override
<1> DEFINE old == Has("overrides_json") \/ Has("provider")
<1>1. notice \in Notice /\ legacy.notice \in Notice
  BY DatabasesAssumption DEF MigrationInv, MigrationTypeOK, SchemaKnown
<1>2. /\ applied' = TRUE /\ UNCHANGED <<columns, legacy>>
      /\ notice' = IF applied \/ ~old THEN migrateEmailConfiguration
                   ELSE disableIncompleteLegacyEmailDeliveries(migrateEmailConfiguration)
  BY DEF ConvertConfiguration, KeepGhosts, migrationApplied, Has, OldColumns
<1>3. /\ migrateEmailConfiguration \in Notice
      /\ migrateEmailConfiguration.enabled = notice.enabled
      /\ migrateEmailConfiguration.complete = notice.complete
      /\ migrateEmailConfiguration.override = notice.override
      /\ migrateEmailConfiguration.recipient =
           IF Has("overrides_json") THEN OrElse(notice.recipient, notice.override) ELSE notice.recipient
  BY <1>1 DEF migrateEmailConfiguration, Notice, OrElse
<1> DEFINE filled == migrateEmailConfiguration
           sent == disableIncompleteLegacyEmailDeliveries(filled)
<1>4. /\ sent \in Notice
      /\ sent.enabled = (filled.enabled /\ filled.recipient # Blank /\ filled.complete)
      /\ sent.complete = filled.complete /\ sent.recipient = filled.recipient
      /\ sent.override = filled.override
  BY <1>3 DEF disableIncompleteLegacyEmailDeliveries, Notice
<1>5. notice' \in Notice
  BY <1>2, <1>3, <1>4
<1>6. ASSUME old
      PROVE  /\ notice'.recipient = OrElse(legacy.notice.recipient, legacy.notice.override)
             /\ notice'.enabled = (legacy.notice.enabled /\ notice'.recipient # Blank /\ notice'.complete)
  <2> HIDE DEF sent, filled
  <2>1. CASE applied
    <3>1. /\ notice.recipient = OrElse(legacy.notice.recipient, legacy.notice.override)
          /\ notice.enabled = (legacy.notice.enabled /\ notice.recipient # Blank /\ notice.complete)
      BY <1>6, <2>1 DEF MigrationInv, RoutesKept
    <3>2. notice.override = legacy.notice.override
      BY DEF MigrationInv, ConvertedOnce
    <3>3. notice' = filled
      BY <1>2, <2>1 DEF filled
    <3> QED
      BY <1>3, <3>1, <3>2, <3>3 DEF OrElse, filled
  <2>2. CASE ~applied
    <3>1. notice = legacy.notice
      BY <2>2 DEF MigrationInv, ConvertedOnce
    <3>2. ~Has("overrides_json") => notice.override = Blank
      BY <3>1, DatabasesAssumption DEF MigrationInv, SchemaKnown, Has, OldColumns
    <3>3. filled.recipient = OrElse(legacy.notice.recipient, legacy.notice.override)
      BY <1>3, <3>1, <3>2 DEF OrElse, filled
    <3>4. notice' = sent
      BY <1>2, <1>6, <2>2 DEF sent, filled
    <3> QED
      BY <1>3, <1>4, <3>1, <3>3, <3>4 DEF filled
  <2> QED
    BY <2>1, <2>2
<1>7. old' <=> old
  BY <1>2 DEF Has
<1>8. notice'.override = legacy.notice.override
  BY <1>2, <1>3, <1>4 DEF MigrationInv, ConvertedOnce
<1> QED
  BY <1>2, <1>5, <1>6, <1>7, <1>8 DEF RoutesKept

\* The profiles and forms that a conversion leaves are well formed, no profile
\* goes, and the challenges stay.
LEMMA TablesConverted ==
  ASSUME MigrationInv, NEW p \in Processes, ConvertConfiguration(p), columns \cap OldColumns # {}
  PROVE  /\ profile' \in [DOMAIN profile' -> Profile]
         /\ form' \in [Forms -> FormRow(DOMAIN profile')]
         /\ DOMAIN profile \subseteq DOMAIN profile'
         /\ (DOMAIN profile') \cap {NoProfile, Unedited} = {}
         /\ applied => form' = form
         /\ Edits # {} => applied
         /\ ProtectionKept'
<1> DEFINE captcha == Has("site_keys_json")
           profiles == IF captcha THEN migrateCaptchaConfiguration ELSE profile
           converted == IF captcha /\ ~applied
                        THEN migrateLegacyCaptchaForms(profiles, ExplicitProfiles(p)) ELSE form
<1>1. /\ profile' = legacyCaptchaClones(profiles, converted) /\ form' = converted
      /\ applied' = TRUE /\ UNCHANGED <<columns, edited, legacy>>
      /\ mig[p].pc = "configuration"
  BY DEF ConvertConfiguration, KeepGhosts, Step, migrationApplied, Has, OldColumns
<1>2. /\ profile \in [DOMAIN profile -> Profile] /\ form \in [Forms -> FormRow(DOMAIN profile)]
      /\ (DOMAIN profile) \cap {NoProfile, Unedited} = {} /\ legacy \in Databases
  BY DEF MigrationInv, MigrationTypeOK, ConvertedOnce, SchemaKnown
<1>3. profiles \in [DOMAIN profile -> Profile]
  BY <1>2, FilledProfiles
<1>4. Edits # {} => applied
  BY DEF MigrationInv, ConvertedOnce, Converted
<1>5. Edits' = Edits /\ \A f \in Forms : Challenge(f)' = Challenge(f)
  BY <1>1, ChallengeStays DEF Edits
<1>6. CASE captcha /\ ~applied
  <2>1. profile = legacy.profile
    BY <1>6 DEF MigrationInv, ConvertedOnce
  <2>2. /\ (DOMAIN profile) \cap ((DOMAIN profile) \X Forms) = {}
        /\ NoProfile \notin DOMAIN profile
    BY <1>2, <2>1, DatabasesAssumption
  <2>3. /\ converted = migrateLegacyCaptchaForms(migrateCaptchaConfiguration, ExplicitProfiles(p))
        /\ profile' = legacyCaptchaClones(migrateCaptchaConfiguration, converted)
        /\ migrateCaptchaConfiguration \in [DOMAIN profile -> Profile]
    BY <1>1, <1>2, <1>6, FilledProfiles
  <2> HIDE DEF converted
  <2>4. /\ profile' \in [DOMAIN profile' -> Profile]
        /\ converted \in [Forms -> FormRow(DOMAIN profile')]
        /\ DOMAIN profile \subseteq DOMAIN profile'
        /\ DOMAIN profile' \subseteq (DOMAIN profile) \cup ((DOMAIN profile) \X Forms)
    BY <1>2, <2>2, <2>3, ClonesOfForms
  <2>5. (DOMAIN profile') \cap {NoProfile, Unedited} = {}
    <3>1. ASSUME NEW i, NEW f
          PROVE  <<i, f>> # NoProfile /\ <<i, f>> # Unedited
      BY DEF NoProfile, Unedited
    <3>2. \A pair \in (DOMAIN profile) \X Forms : pair # NoProfile /\ pair # Unedited
      BY <3>1
    <3> QED
      BY <1>2, <2>4, <3>2
  <2>6. ASSUME NEW f \in Forms
        PROVE  LET id == converted[f].captcha
               IN  IF Challenge(f) = NoChallenge THEN id = NoProfile
                   ELSE id # NoProfile
                        /\ Challenge(f) = [key |-> profile'[id].siteKey, secret |-> profile'[id].secret]
    BY <1>1, <1>6, <2>3, ConversionKeepsChallenge
  <2>7. ProtectionKept'
    BY <1>1, <1>5, <2>6 DEF ProtectionKept, NoChallenge
  <2> QED
    BY <1>1, <1>4, <1>6, <2>4, <2>5, <2>7
<1>7. CASE ~(captcha /\ ~applied)
  <2>1. form' = form
    BY <1>1, <1>7
  <2>2. profile' = profiles
    BY <1>1, <1>2, <1>3, <1>7, NoNewClones
  <2>3. DOMAIN profile' = DOMAIN profile
    BY <1>3, <2>2
  <2>4. ProtectionKept'
    <3> SUFFICES ASSUME captcha, NEW f \in Forms \ Edits
                 PROVE  LET id == form[f].captcha
                        IN  IF Challenge(f) = NoChallenge THEN id = NoProfile
                            ELSE id # NoProfile /\ Challenge(f) =
                                   [key |-> profile'[id].siteKey, secret |-> profile'[id].secret]
      BY <1>1, <1>5, <2>1 DEF ProtectionKept, Has, NoChallenge
    <3> DEFINE id == form[f].captcha
    <3>1. IF Challenge(f) = NoChallenge THEN id = NoProfile
          ELSE id # NoProfile /\ Challenge(f) = [key |-> profile[id].siteKey, secret |-> profile[id].secret]
      BY <1>7 DEF MigrationInv, ProtectionKept
    <3>2. CASE Challenge(f) # NoChallenge
      <4>1. profile[id].siteKey # Blank
        BY <1>2, <3>1, <3>2, ChallengeHasKey
      <4>2. id \in DOMAIN profile
        <5>1. form[f] \in [captcha : (DOMAIN profile) \cup {NoProfile}, origins : Seq(Text), overrides : Policy]
          BY <1>2 DEF FormRow
        <5> QED
          BY <3>1, <3>2, <5>1
      <4>3. profile'[id].siteKey = profile[id].siteKey /\ profile'[id].secret = profile[id].secret
        BY <1>2, <2>2, <4>1, <4>2, FilledProfiles DEF OrElse
      <4> QED
        BY <3>1, <3>2, <4>3
    <3> QED
      BY <3>1, <3>2
  <2> QED
    BY <1>2, <1>3, <1>4, <2>1, <2>2, <2>3, <2>4
<1> QED
  BY <1>6, <1>7

LEMMA ConversionKeeps ==
  ASSUME MigrationInv, NEW p \in Processes, ConvertConfiguration(p)
  PROVE  MigrationInv'
<1>1. /\ mig[p].pc = "configuration" /\ mig' \in [Processes -> Progress]
      /\ \A q \in Processes : /\ mig'[q].hasSiteKey = mig[q].hasSiteKey
                              /\ mig'[q].pc = IF q = p THEN "records" ELSE mig[q].pc
  BY StepMoves DEF MigrationInv, ConvertConfiguration
<1>2. UNCHANGED <<columns, account, hooks, edited, changed, legacy>> /\ Edits' = Edits
  BY DEF ConvertConfiguration, KeepGhosts, Edits
<1>3. SchemaKnown'
  BY <1>1, <1>2 DEF MigrationInv, SchemaKnown, Has
<1>4. InitialPasswordMustGo'
  BY <1>2 DEF MigrationInv, InitialPasswordMustGo, Has
<1>5. CASE columns \cap OldColumns = {}
  <2>1. UNCHANGED <<profile, form, notice, applied>>
    BY <1>5 DEF ConvertConfiguration, Has, OldColumns
  <2>2. ProtectionKept' /\ RoutesKept' /\ EditsSurvive'
    BY <1>2, <2>1, EffectsStay DEF MigrationInv
  <2>3. MigrationTypeOK'
    BY <1>1, <1>2, <2>1 DEF MigrationInv, MigrationTypeOK, Progress
  <2>4. ConvertedOnce'
    BY <1>1, <1>2, <1>5, <2>1 DEF MigrationInv, ConvertedOnce, Converted, Has
  <2> QED
    BY <1>3, <1>4, <2>2, <2>3, <2>4 DEF MigrationInv
<1>6. CASE columns \cap OldColumns # {}
  <2>1. applied' = TRUE
    BY <1>6 DEF ConvertConfiguration, Has, OldColumns
  <2>2. /\ profile' \in [DOMAIN profile' -> Profile]
        /\ form' \in [Forms -> FormRow(DOMAIN profile')]
        /\ DOMAIN profile \subseteq DOMAIN profile'
        /\ (DOMAIN profile') \cap {NoProfile, Unedited} = {}
        /\ applied => form' = form
        /\ Edits # {} => applied
        /\ ProtectionKept'
    BY <1>6, TablesConverted
  <2>3. notice' \in Notice /\ RoutesKept' /\ notice'.override = legacy.notice.override
    BY <1>6, NoticeConverted
  <2>4. EditsSurvive'
    BY <1>2, <2>2 DEF MigrationInv, EditsSurvive
  <2>5. MigrationTypeOK'
    BY <1>1, <1>2, <2>1, <2>2, <2>3 DEF MigrationInv, MigrationTypeOK, Progress
  <2>6. ConvertedOnce'
    BY <1>1, <1>2, <2>1, <2>2, <2>3 DEF MigrationInv, ConvertedOnce, Converted, Has
  <2> QED
    BY <1>3, <1>4, <2>2, <2>3, <2>4, <2>5, <2>6 DEF MigrationInv
<1> QED
  BY <1>5, <1>6

LEMMA MigrateKeeps ==
  ASSUME MigrationInv, NEW p \in Processes, Migrate(p)
  PROVE  MigrationInv'
BY InspectionKeeps, PasswordStateKeeps, SchemaKeeps, ConversionKeeps, RecordsKeep DEF Migrate

LEMMA StopKeeps ==
  ASSUME MigrationInv, NEW p \in Processes, mig' = [mig EXCEPT ![p] = NoMigration],
         UNCHANGED <<tables, edited, changed, legacy>>
  PROVE  MigrationInv'
BY LookingKeeps

LEMMA AdministratorKeeps ==
  ASSUME MigrationInv, Administrator
  PROVE  MigrationInv'
BY AssignmentKeeps, PasswordChangeKeeps DEF Administrator

LEMMA MigrationStays ==
  ASSUME MigrationInv, UNCHANGED migrationVars
  PROVE  MigrationInv'
<1> USE DEF migrationVars
<1>1. ProtectionKept' /\ RoutesKept' /\ EditsSurvive'
  BY EffectsStay DEF MigrationInv
<1>2. MigrationTypeOK'
  BY DEF MigrationInv, MigrationTypeOK
<1>3. SchemaKnown'
  BY DEF MigrationInv, SchemaKnown, Has
<1>4. ConvertedOnce' /\ InitialPasswordMustGo'
  BY DEF MigrationInv, ConvertedOnce, Converted, Edits, Has, InitialPasswordMustGo
<1> QED
  BY <1>1, <1>2, <1>3, <1>4 DEF MigrationInv

(***************************************************************************)
(* Every step of the process keeps its invariant.                          *)
(***************************************************************************)

LEMMA InitialProcess ==
  ASSUME Init
  PROVE  ProcessInv
<1>1. Working = {}
  BY DEF Init, Working, NoRequest
<1>2. ProcessTypeOK
  BY LifecycleAssumption DEF Init, ProcessTypeOK, NoRequest
<1> QED
  BY <1>1, <1>2 DEF Init, ProcessInv, Spawned, Held, WaitedFor, Prepared, ReleasedAtExit, RunnerAlive,
     Opening, Preparing, Stopping, Ended

\* The steps of the start.
LEMMA StartKeeps ==
  ASSUME ProcessInv, Start \/ PrepareOrStop \/ CheckpointPrepared \/ RunApp
  PROVE  ProcessInv'
<1>1. CASE Start
  BY <1>1, LifecycleAssumption DEF Start, Goto, migrationVars, ProcessInv, ProcessTypeOK, Spawned, Held, WaitedFor,
     Prepared, ReleasedAtExit, RunnerAlive, Working, Opening, Preparing, Stopping, Ended
<1>2. CASE PrepareOrStop
  BY <1>2 DEF PrepareOrStop, Goto, migrationVars, ProcessInv, ProcessTypeOK, Spawned, Held, WaitedFor,
     Prepared, ReleasedAtExit, RunnerAlive, Working, Opening, Preparing, Stopping, Ended
<1>3. CASE CheckpointPrepared
  BY <1>3 DEF CheckpointPrepared, Goto, migrationVars, ProcessInv, ProcessTypeOK, Spawned, Held, WaitedFor,
     Prepared, ReleasedAtExit, RunnerAlive, Working, Opening, Preparing, Stopping, Ended
<1>4. CASE RunApp
  BY <1>4 DEF RunApp, Goto, migrationVars, ProcessInv, ProcessTypeOK, Spawned, Held, WaitedFor,
     Prepared, ReleasedAtExit, RunnerAlive, Working, Opening, Preparing, Stopping, Ended
<1> QED
  BY <1>1, <1>2, <1>3, <1>4

LEMMA NewAppKeeps ==
  ASSUME ProcessInv, NewApp
  PROVE  ProcessInv'
<1>1. PICK i \in 1 .. 4 :
        /\ Goto(NewAppSteps[i], IF i < 4 THEN NewAppSteps[i + 1] ELSE "started")
        /\ held' = held \cup Acquires[NewAppSteps[i]]
        /\ manager' = IF main = "connect" THEN "open" ELSE manager
        /\ UNCHANGED <<migrationVars, ctx, http, runner, request, result, starts, faults>>
  BY DEF NewApp, NewAppSteps
<1>2. \/ /\ main = "listen" /\ main' = "storage"
         /\ held' = held \cup {"listener"} /\ manager' = manager
      \/ /\ main = "storage" /\ main' = "connect"
         /\ held' = held \cup {"logger"} /\ manager' = manager
      \/ /\ main = "connect" /\ main' = "server"
         /\ held' = held /\ manager' = "open"
      \/ /\ main = "server" /\ main' = "started"
         /\ held' = held \cup {"requestRoot", "defaultLogger"} /\ manager' = manager
  <2>1. CASE i = 1
    BY <1>1, <2>1 DEF Goto, NewAppSteps, Acquires
  <2>2. CASE i = 2
    BY <1>1, <2>2 DEF Goto, NewAppSteps, Acquires
  <2>3. CASE i = 3
    BY <1>1, <2>3 DEF Goto, NewAppSteps, Acquires
  <2>4. CASE i = 4
    BY <1>1, <2>4 DEF Goto, NewAppSteps, Acquires
  <2> QED
    BY <2>1, <2>2, <2>3, <2>4
<1>3. held' \subseteq Resources /\ held \subseteq held'
  BY <1>2 DEF ProcessInv, ProcessTypeOK, Resources
<1> QED
  BY <1>1, <1>2, <1>3 DEF migrationVars, ProcessInv, ProcessTypeOK, Spawned, Held, WaitedFor,
     Prepared, ReleasedAtExit, RunnerAlive, Working, Opening, Preparing, Stopping, Ended

\* A start that fails, or is called off.
LEMMA FailedStartKeeps ==
  ASSUME ProcessInv, NewAppFails \/ PreparationFails \/ Seed
  PROVE  ProcessInv'
<1>1. CASE NewAppFails
  <2>1. main \in {"listen", "storage", "connect", "server"}
    BY <1>1 DEF NewAppFails, NewAppSteps, Range
  <2> QED
    BY <1>1, <2>1, LifecycleAssumption DEF NewAppFails, Fault, migrationVars, ProcessInv, ProcessTypeOK, Spawned,
       Held, WaitedFor, Prepared, ReleasedAtExit, RunnerAlive, Working, Opening, Preparing, Stopping, Ended
<1>2. CASE PreparationFails \/ Seed
  <2>1. /\ main \in {"migrate", "recover", "account", "run"} /\ main' = "close"
        /\ UNCHANGED <<migrationVars, held, manager, ctx, http, runner, request, starts>>
        /\ \/ UNCHANGED <<result, faults>>
           \/ Fault /\ result' = {"failed"}
    BY <1>2 DEF PreparationFails, Seed, Goto
  <2>2. http = "none" /\ runner = "none" /\ Working = {}
    BY <2>1 DEF ProcessInv, Spawned, Opening, Preparing
  <2>3. faults' \in 0 .. MaxFaults /\ (faults' = 0 => result' = result)
        /\ (faults' = 0 => faults = 0) /\ result' \subseteq {"failed", "timeout"}
    <3>1. faults \in 0 .. MaxFaults /\ MaxFaults \in Nat /\ result \subseteq {"failed", "timeout"}
      BY LifecycleAssumption DEF ProcessInv, ProcessTypeOK
    <3>2. CASE UNCHANGED <<result, faults>>
      BY <3>1, <3>2
    <3>3. CASE Fault /\ result' = {"failed"}
      BY <3>1, <3>3 DEF Fault
    <3> QED
      BY <2>1, <3>2, <3>3
  <2>4. ProcessTypeOK'
    BY <2>1, <2>3 DEF ProcessInv, ProcessTypeOK
  <2>5. Working' = {} /\ http' = "none" /\ runner' = "none"
    BY <2>1, <2>2 DEF Working
  <2>6. Spawned' /\ Prepared'
    BY <2>1, <2>5 DEF Spawned, Prepared, Opening, Preparing, Stopping, Ended
  <2>7. Held'
    BY <2>1 DEF ProcessInv, Held, ReleasedAtExit, Opening, Preparing, Stopping, Ended
  <2>8. WaitedFor'
    BY <2>1, <2>3, <2>5 DEF ProcessInv, WaitedFor, RunnerAlive, Stopping
  <2> QED
    BY <2>4, <2>6, <2>7, <2>8 DEF ProcessInv
<1> QED
  BY <1>1, <1>2

\* The preparation reaches the point from which requests and jobs are served
\* only with the whole schema and every record.
LEMMA PrepareKeeps ==
  ASSUME MigrationInv, ProcessInv, Prepare
  PROVE  ProcessInv'
<1>1. /\ main \in {"migrate", "recover", "account"} /\ main' \in {"recover", "account", "checkpoint"}
      /\ UNCHANGED <<migrationVars, held, manager, ctx, http, runner, request, result, starts, faults>>
  BY DEF Prepare, Goto
<1>2. hooks = Forms /\ {"site_key", "password_change_required"} \subseteq columns
  <2>1. CASE main = "migrate"
    BY <2>1, LifecycleAssumption DEF Prepare, Goto, MigrationInv, SchemaKnown, Has
  <2>2. CASE main # "migrate"
    BY <1>1, <2>2 DEF ProcessInv, Prepared
  <2> QED
    BY <2>1, <2>2
<1>3. Prepared'
  BY <1>1, <1>2 DEF Prepared, migrationVars
<1>4. ProcessTypeOK'
  BY <1>1 DEF ProcessInv, ProcessTypeOK
<1>5. Spawned' /\ Held' /\ WaitedFor'
  BY <1>1 DEF ProcessInv, Spawned, Held, WaitedFor, ReleasedAtExit, RunnerAlive, Working,
     Opening, Preparing, Stopping, Ended
<1> QED
  BY <1>3, <1>4, <1>5 DEF ProcessInv

\* The shutdown, in the order of App.Run.
LEMMA WakeKeeps ==
  ASSUME ProcessInv, Wake
  PROVE  ProcessInv'
<1>1. /\ main = "wait" /\ main' = "shutdown" /\ ctx' = ctx \cup {"jobs", "requests"}
      /\ UNCHANGED <<migrationVars, held, manager, http, runner, request, starts, faults>>
      /\ UNCHANGED result \/ (http = "stopped" /\ result' = result \cup {"failed"})
  BY DEF Wake, Goto
<1>2. ProcessTypeOK'
  BY <1>1 DEF ProcessInv, ProcessTypeOK
<1>3. Prepared' /\ Spawned' /\ Held'
  BY <1>1 DEF ProcessInv, Prepared, migrationVars, Spawned, Held, ReleasedAtExit, Working,
     Opening, Preparing, Stopping, Ended
<1>4. WaitedFor'
  BY <1>1 DEF ProcessInv, ProcessTypeOK, Held, WaitedFor, Stopping, Ended
<1> QED
  BY <1>2, <1>3, <1>4 DEF ProcessInv

LEMMA ShutdownKeeps ==
  ASSUME ProcessInv, CloseListener \/ ShutdownHTTP \/ AwaitJobs
  PROVE  ProcessInv'
<1>1. CASE CloseListener
  <2>1. ProcessTypeOK'
    BY <1>1 DEF CloseListener, ProcessInv, ProcessTypeOK
  <2>2. Spawned' /\ Held' /\ WaitedFor' /\ Prepared'
    BY <1>1 DEF CloseListener, migrationVars, ProcessInv, Spawned, Held, WaitedFor, Prepared, ReleasedAtExit,
       RunnerAlive, Working, Opening, Preparing, Stopping, Ended
  <2> QED
    BY <2>1, <2>2 DEF ProcessInv
<1>2. CASE ShutdownHTTP
  <2>1. /\ main = "shutdown" /\ main' = "jobs"
        /\ UNCHANGED <<migrationVars, held, manager, ctx, http, runner, request, starts, faults>>
        /\ \/ result' = result /\ (http = "spawned" \/ Working = {})
           \/ result' = result \cup {"timeout"}
    BY <1>2 DEF ShutdownHTTP, Goto
  <2>2. ProcessTypeOK'
    BY <2>1 DEF ProcessInv, ProcessTypeOK
  <2>3. Spawned' /\ Held' /\ Prepared'
    BY <2>1 DEF migrationVars, ProcessInv, Spawned, Held, Prepared, ReleasedAtExit, Working,
       Opening, Preparing, Stopping, Ended
  <2>4. Working' = Working
    BY <2>1 DEF Working
  <2>5. WaitedFor'
    BY <2>1, <2>4 DEF ProcessInv, Spawned, WaitedFor, Stopping, Ended
  <2> QED
    BY <2>2, <2>3, <2>5 DEF ProcessInv
<1>3. CASE AwaitJobs
  <2>1. /\ main = "jobs" /\ main' = "truncate"
        /\ UNCHANGED <<migrationVars, held, manager, ctx, http, runner, request, starts, faults>>
        /\ \/ result' = result /\ ~RunnerAlive
           \/ result' = result \cup {"timeout"}
    BY <1>3 DEF AwaitJobs, Goto
  <2>2. ProcessTypeOK'
    BY <2>1 DEF ProcessInv, ProcessTypeOK
  <2>3. Spawned' /\ Held' /\ Prepared'
    BY <2>1 DEF migrationVars, ProcessInv, Spawned, Held, Prepared, ReleasedAtExit, Working,
       Opening, Preparing, Stopping, Ended
  <2>4. Working' = Working /\ (RunnerAlive' <=> RunnerAlive)
    BY <2>1 DEF Working, RunnerAlive
  <2>5. WaitedFor'
    BY <2>1, <2>4 DEF ProcessInv, WaitedFor, Stopping, Ended
  <2> QED
    BY <2>2, <2>3, <2>5 DEF ProcessInv
<1> QED
  BY <1>1, <1>2, <1>3

LEMMA ReleaseKeeps ==
  ASSUME ProcessInv, CheckpointWAL \/ ReleaseListener \/ Close
  PROVE  ProcessInv'
<1>1. CASE CheckpointWAL
  <2>1. /\ main = "truncate" /\ main' = "release"
        /\ UNCHANGED <<migrationVars, held, manager, ctx, http, runner, request, starts>>
        /\ \/ UNCHANGED <<result, faults>>
           \/ Fault /\ result' = result \cup {"failed"}
    BY <1>1 DEF CheckpointWAL, Goto
  <2>2. faults' \in 0 .. MaxFaults /\ (faults' = 0 => result' = result /\ faults = 0)
        /\ result' \subseteq {"failed", "timeout"} /\ ("timeout" \in result' <=> "timeout" \in result)
    <3>1. faults \in 0 .. MaxFaults /\ MaxFaults \in Nat /\ result \subseteq {"failed", "timeout"}
      BY LifecycleAssumption DEF ProcessInv, ProcessTypeOK
    <3>2. CASE UNCHANGED <<result, faults>>
      BY <3>1, <3>2
    <3>3. CASE Fault /\ result' = result \cup {"failed"}
      BY <3>1, <3>3 DEF Fault
    <3> QED
      BY <2>1, <3>2, <3>3
  <2>3. ProcessTypeOK'
    BY <2>1, <2>2 DEF ProcessInv, ProcessTypeOK
  <2>4. Spawned' /\ Held' /\ Prepared'
    BY <2>1 DEF migrationVars, ProcessInv, Spawned, Held, Prepared, ReleasedAtExit, Working,
       Opening, Preparing, Stopping, Ended
  <2>5. Working' = Working /\ (RunnerAlive' <=> RunnerAlive)
    BY <2>1 DEF Working, RunnerAlive
  <2>6. WaitedFor'
    BY <2>1, <2>2, <2>5 DEF ProcessInv, WaitedFor, Stopping, Ended
  <2> QED
    BY <2>3, <2>4, <2>6 DEF ProcessInv
<1>2. CASE ReleaseListener
  <2>1. ProcessTypeOK'
    BY <1>2 DEF ReleaseListener, Goto, ProcessInv, ProcessTypeOK
  <2>2. Spawned' /\ Held' /\ WaitedFor' /\ Prepared'
    BY <1>2 DEF ReleaseListener, Goto, migrationVars, ProcessInv, ProcessTypeOK, Spawned, Held, WaitedFor,
       Prepared, ReleasedAtExit, RunnerAlive, Working, Opening, Preparing, Stopping, Ended
  <2> QED
    BY <2>1, <2>2 DEF ProcessInv
<1>3. CASE Close
  <2>1. ProcessTypeOK'
    BY <1>3 DEF Close, ProcessInv, ProcessTypeOK
  <2>2. Spawned' /\ Held' /\ WaitedFor' /\ Prepared'
    BY <1>3 DEF Close, migrationVars, ProcessInv, Spawned, Held, WaitedFor, Prepared, ReleasedAtExit,
       RunnerAlive, Working, Opening, Preparing, Stopping, Ended
  <2> QED
    BY <2>1, <2>2 DEF ProcessInv
<1> QED
  BY <1>1, <1>2, <1>3

\* The goroutines.
LEMMA ServerGoroutineKeeps ==
  ASSUME ProcessInv, Serve \/ ServeFails
  PROVE  ProcessInv'
<1>1. CASE Serve
  <2>1. /\ http = "spawned" /\ http' = IF "listener" \in held THEN "serving" ELSE "stopped"
        /\ UNCHANGED <<migrationVars, main, held, manager, ctx, runner, request, result, starts, faults>>
    BY <1>1 DEF Serve
  <2>2. main \notin Opening \cup Preparing \cup Ended /\ Working = {}
    BY <2>1 DEF ProcessInv, Spawned
  <2>3. ProcessTypeOK' /\ Working' = {}
    BY <2>1, <2>2 DEF ProcessInv, ProcessTypeOK, Working
  <2>4. Spawned' /\ Held' /\ WaitedFor' /\ Prepared'
    BY <2>1, <2>2, <2>3 DEF migrationVars, ProcessInv, Spawned, Held, WaitedFor, Prepared, ReleasedAtExit,
       RunnerAlive, Opening, Preparing, Stopping, Ended
  <2> QED
    BY <2>3, <2>4 DEF ProcessInv
<1>2. CASE ServeFails
  <2>1. /\ http = "serving" /\ http' = "stopped" /\ main = "wait" /\ Fault
        /\ UNCHANGED <<migrationVars, main, held, manager, ctx, runner, request, result, starts>>
    BY <1>2 DEF ServeFails
  <2>2. faults' \in 0 .. MaxFaults /\ faults' > 0
    BY <2>1, LifecycleAssumption DEF Fault, ProcessInv, ProcessTypeOK
  <2>3. ProcessTypeOK' /\ Working' = Working
    BY <2>1, <2>2 DEF ProcessInv, ProcessTypeOK, Working
  <2>4. Spawned' /\ Held' /\ WaitedFor' /\ Prepared'
    BY <2>1, <2>2, <2>3 DEF migrationVars, ProcessInv, Spawned, Held, WaitedFor, Prepared, ReleasedAtExit,
       RunnerAlive, Opening, Preparing, Stopping, Ended
  <2> QED
    BY <2>3, <2>4 DEF ProcessInv
<1> QED
  BY <1>1, <1>2

LEMMA RunnerKeeps ==
  ASSUME ProcessInv, Run
  PROVE  ProcessInv'
<1>1. /\ RunnerAlive /\ runner' \in {"batch", "waiting", "done"}
      /\ UNCHANGED <<migrationVars, main, held, manager, ctx, http, request, result, starts, faults>>
  BY DEF Run, RunnerAlive
<1>2. ProcessTypeOK' /\ Working' = Working
  BY <1>1 DEF ProcessInv, ProcessTypeOK, Working
<1>3. Spawned' /\ Held' /\ WaitedFor' /\ Prepared'
  BY <1>1, <1>2 DEF migrationVars, ProcessInv, Spawned, Held, WaitedFor, Prepared, ReleasedAtExit,
     RunnerAlive, Opening, Preparing, Stopping, Ended
<1> QED
  BY <1>2, <1>3 DEF ProcessInv

LEMMA RequestKeeps ==
  ASSUME ProcessInv, NEW r \in Requests, Arrive(r) \/ HandlerEnds(r)
  PROVE  ProcessInv'
<1>1. UNCHANGED <<migrationVars, main, held, manager, ctx, http, runner, result, starts, faults>>
  BY DEF Arrive, HandlerEnds
<1>2. /\ request' \in [Requests -> [state : {"none", "active", "answered"}, late : BOOLEAN]]
      /\ http \notin {"none", "spawned"}
      /\ \A q \in Working' :
           \/ q \in Working /\ request'[q] = request[q]
           \/ http = "serving" /\ request'[q].late = Cancelled("requests")
  <2>1. request \in [Requests -> [state : {"none", "active", "answered"}, late : BOOLEAN]]
    BY DEF ProcessInv, ProcessTypeOK
  <2>2. CASE Arrive(r)
    <3>1. request' = [request EXCEPT ![r] = [state |-> "active", late |-> Cancelled("requests")]]
          /\ http = "serving"
      BY <2>2 DEF Arrive
    <3> QED
      BY <2>1, <3>1 DEF Working, Cancelled
  <2>3. CASE HandlerEnds(r)
    <3>1. request' = [request EXCEPT ![r].state = "answered"] /\ r \in Working
      BY <2>3 DEF HandlerEnds
    <3>2. http \notin {"none", "spawned"}
      BY <3>1 DEF ProcessInv, Spawned
    <3> QED
      BY <2>1, <3>1, <3>2 DEF Working
  <2> QED
    BY <2>2, <2>3
<1>3. ProcessTypeOK'
  BY <1>1, <1>2 DEF ProcessInv, ProcessTypeOK
<1>4. Spawned' /\ Held' /\ Prepared'
  BY <1>1, <1>2 DEF migrationVars, ProcessInv, Spawned, Held, Prepared, ReleasedAtExit
<1>5. http = "serving" /\ main \in {"jobs", "truncate", "release"} \cup Ended => Cancelled("requests")
  BY DEF ProcessInv, Spawned, WaitedFor, Stopping, Ended, Cancelled
<1>6. WaitedFor'
  BY <1>1, <1>2, <1>5 DEF ProcessInv, WaitedFor, RunnerAlive
<1> QED
  BY <1>3, <1>4, <1>6 DEF ProcessInv

\* The surroundings.
LEMMA ContextKeeps ==
  ASSUME ProcessInv, Signal \/ Deadline
  PROVE  ProcessInv'
<1>1. /\ ctx' = ctx \cup {"signal"} \/ ctx' = ctx \cup {"deadline"}
      /\ UNCHANGED <<migrationVars, main, held, manager, http, runner, request, result, starts, faults>>
  BY DEF Signal, Deadline
<1>2. ProcessTypeOK' /\ Working' = Working
  BY <1>1 DEF ProcessInv, ProcessTypeOK, Working
<1>3. Spawned' /\ Held' /\ WaitedFor' /\ Prepared'
  BY <1>1, <1>2 DEF migrationVars, ProcessInv, Spawned, Held, WaitedFor, Prepared, ReleasedAtExit, RunnerAlive
<1> QED
  BY <1>2, <1>3 DEF ProcessInv

LEMMA ResetKeeps ==
  ASSUME ProcessInv, Reset, faults' \in 0 .. MaxFaults
  PROVE  ProcessInv'
<1>1. /\ main' = "off" /\ held' = {} /\ manager' = "new" /\ ctx' = {} /\ http' = "none"
      /\ runner' = "none" /\ request' = [r \in Requests |-> NoRequest] /\ result' = {}
      /\ starts' = starts
  BY DEF Reset
<1>2. Working' = {} /\ ProcessTypeOK'
  BY <1>1 DEF Working, NoRequest, ProcessInv, ProcessTypeOK
<1> QED
  BY <1>1, <1>2 DEF ProcessInv, Spawned, Held, WaitedFor, Prepared, ReleasedAtExit, RunnerAlive,
     Opening, Preparing, Stopping, Ended

LEMMA EndKeeps ==
  ASSUME ProcessInv, Crash \/ Gone
  PROVE  ProcessInv' /\ Reset
<1>1. Reset /\ faults' \in 0 .. MaxFaults
  BY LifecycleAssumption DEF Crash, Gone, Fault, ProcessInv, ProcessTypeOK
<1> QED
  BY <1>1, ResetKeeps

\* What other processes and the administrator do to the database takes back
\* neither a column nor a record.
LEMMA DatabaseGrows ==
  ASSUME MigrationInv, \/ \E p \in Processes : Migrate(p) \/ StopMigrating(p)
                       \/ Administrator
  PROVE  columns \subseteq columns' /\ (hooks' = hooks \/ hooks' = Forms)
<1>1. ASSUME NEW p \in Processes, Migrate(p) \/ StopMigrating(p)
      PROVE  columns \subseteq columns' /\ (hooks' = hooks \/ hooks' = Forms)
  BY <1>1 DEF Migrate, InspectConfiguration, InspectAccounts, MigratePasswordState, MigrateSchema,
     ConvertConfiguration, ReconcileDeliveryRecords, StopMigrating, tables
<1>2. CASE Administrator
  BY <1>2 DEF Administrator, AssignCaptcha, storePassword
<1> QED
  BY <1>1, <1>2

LEMMA DatabaseStepKeeps ==
  ASSUME ProcessInv, columns \subseteq columns', hooks' = hooks \/ hooks' = Forms, UNCHANGED appVars
  PROVE  ProcessInv'
<1>1. ProcessTypeOK' /\ Working' = Working
  BY DEF appVars, ProcessInv, ProcessTypeOK, Working
<1>2. Spawned' /\ Held' /\ WaitedFor' /\ Prepared'
  BY <1>1 DEF appVars, ProcessInv, Spawned, Held, WaitedFor, Prepared, ReleasedAtExit, RunnerAlive
<1> QED
  BY <1>1, <1>2 DEF ProcessInv

LEMMA NextKeeps ==
  ASSUME LifecycleInv, [Next]_vars
  PROVE  LifecycleInv'
<1> USE DEF LifecycleInv
<1>1. CASE UNCHANGED vars
  BY <1>1, MigrationStays, DatabaseStepKeeps DEF vars, migrationVars
<1>2. CASE MigrateServer \/ CommandLine \/ Administer
  <2>1. (\E p \in Processes : Migrate(p) \/ StopMigrating(p)) \/ Administrator
    BY <1>2, LifecycleAssumption DEF MigrateServer, CommandLine, Administer
  <2>2. MigrationInv'
    BY <2>1, MigrateKeeps, StopKeeps, AdministratorKeeps DEF StopMigrating, KeepGhosts
  <2>3. UNCHANGED appVars
    BY <1>2 DEF MigrateServer, CommandLine, Administer, appVars
  <2> QED
    BY <2>1, <2>2, <2>3, DatabaseGrows, DatabaseStepKeeps
<1>3. CASE Crash \/ Gone
  <2>1. ProcessInv' /\ Reset
    BY <1>3, EndKeeps
  <2>2. MigrationInv'
    BY <2>1, StopKeeps, LifecycleAssumption DEF Reset
  <2> QED
    BY <2>1, <2>2
<1>4. CASE \/ Start \/ PrepareOrStop \/ CheckpointPrepared \/ RunApp \/ NewApp
           \/ NewAppFails \/ PreparationFails \/ Seed \/ Prepare
  <2>1. UNCHANGED migrationVars
    BY <1>4 DEF Start, PrepareOrStop, CheckpointPrepared, RunApp, NewApp, NewAppFails, PreparationFails,
       Seed, Prepare
  <2> QED
    BY <1>4, <2>1, MigrationStays, StartKeeps, NewAppKeeps, FailedStartKeeps, PrepareKeeps
<1>5. CASE Wake \/ CloseListener \/ ShutdownHTTP \/ AwaitJobs \/ CheckpointWAL \/ ReleaseListener \/ Close
  <2>1. UNCHANGED migrationVars
    BY <1>5 DEF Wake, CloseListener, ShutdownHTTP, AwaitJobs, CheckpointWAL, ReleaseListener, Close
  <2> QED
    BY <1>5, <2>1, MigrationStays, WakeKeeps, ShutdownKeeps, ReleaseKeeps
<1>6. CASE Serve \/ ServeFails \/ Run \/ Signal \/ Deadline
  <2>1. UNCHANGED migrationVars
    BY <1>6 DEF Serve, ServeFails, Run, Signal, Deadline
  <2> QED
    BY <1>6, <2>1, MigrationStays, ServerGoroutineKeeps, RunnerKeeps, ContextKeeps
<1>7. ASSUME NEW r \in Requests, Arrive(r) \/ HandlerEnds(r)
      PROVE  LifecycleInv'
  <2>1. UNCHANGED migrationVars
    BY <1>7 DEF Arrive, HandlerEnds
  <2> QED
    BY <1>7, <2>1, MigrationStays, RequestKeeps
<1>8. CASE Finished
  BY <1>1, <1>8 DEF Finished
<1> QED
  BY <1>1, <1>2, <1>3, <1>4, <1>5, <1>6, <1>7, <1>8 DEF Next, MainStep

(***************************************************************************)
(* The theorems.                                                           *)
(***************************************************************************)

LEMMA LifecycleInvariant == Spec => []LifecycleInv
<1>1. Init => LifecycleInv
  BY InitialMigration, InitialProcess DEF Init, LifecycleInv
<1>2. LifecycleInv /\ [Next]_vars => LifecycleInv'
  BY NextKeeps
<1> QED
  BY <1>1, <1>2, PTL DEF Spec

\* Types; a process that has exited holds nothing and has closed its database,
\* and a stop that was asked for is reported as no error (app.go:55-100,
\* main.go:196).
THEOREM LifecycleInvTheorem == Spec => []Inv
<1>1. LifecycleInv => Inv
  BY DEF LifecycleInv, MigrationInv, ProcessInv, ProcessTypeOK, Inv, TypeOK, Held, WaitedFor, SignalIsNoError
<1> QED
  BY <1>1, LifecycleInvariant, PTL

\* No processor and no request admitted before the shutdown meets the closed
\* database (app.go:167-201).  Excluded are a shutdown whose deadline passed and
\* requests that began after the contexts of requests were cancelled.
THEOREM LifecycleDatabaseOutlivesWork == Spec => []DatabaseOutlivesWork
<1>1. LifecycleInv => DatabaseOutlivesWork
  BY DEF LifecycleInv, ProcessInv, Held, WaitedFor, DatabaseOutlivesWork, Ended
<1> QED
  BY <1>1, LifecycleInvariant, PTL

\* Whoever is served finds the whole schema and a record for every form
\* (app.go:278-312).
THEOREM LifecycleServesPrepared == Spec => []ServesPrepared
<1>1. LifecycleInv => ServesPrepared
  BY DEF LifecycleInv, ProcessInv, ProcessTypeOK, Spawned, Prepared, ServesPrepared, RunnerAlive
<1> QED
  BY <1>1, LifecycleInvariant, PTL

\* Forms ask for the challenge they asked for in the older release and
\* notifications keep their recipients, whichever processes migrated, in
\* whatever order, and wherever they stopped (migrate.go:75-122).
THEOREM MigrationEffectKept == Spec => []EffectKept
<1>1. LifecycleInv => EffectKept
  BY DEF LifecycleInv, MigrationInv, EffectKept
<1> QED
  BY <1>1, LifecycleInvariant, PTL

\* A migration never undoes what the administrator edited since another
\* process converted the database (migrate.go:34, 100).
THEOREM MigrationEditsSurvive == Spec => []EditsSurvive
<1>1. LifecycleInv => EditsSurvive
  BY DEF LifecycleInv, MigrationInv
<1> QED
  BY <1>1, LifecycleInvariant, PTL

\* A generated password that is still in force has to be changed, however
\* often the migration was interrupted (migrate.go:44-55).
THEOREM MigrationInitialPasswordMustGo == Spec => []InitialPasswordMustGo
<1>1. LifecycleInv => InitialPasswordMustGo
  BY DEF LifecycleInv, MigrationInv
<1> QED
  BY <1>1, LifecycleInvariant, PTL
=============================================================================
