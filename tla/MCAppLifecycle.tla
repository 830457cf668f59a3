--------------------------- MODULE MCAppLifecycle ---------------------------
(***************************************************************************)
(* Databases of older releases for AppLifecycle, with two forms that share *)
(* a captcha profile.                                                      *)
(***************************************************************************)
EXTENDS AppLifecycle, TLC

Silent == [required |-> Blank, action |-> Blank, key |-> Blank]
KeyList == <<[pattern |-> "a", key |-> "keyA"], [pattern |-> "*", key |-> "keyAll"]>>

OldProfile == [provider |-> "turnstile", secret |-> "secret", siteKey |-> Blank,
               siteKeys |-> KeyList, policy |-> Silent]
OldNotice == [enabled |-> TRUE, recipient |-> Blank, override |-> "old", complete |-> TRUE]
OldForm(origins, overrides) ==
  [captcha |-> <<"p">>, origins |-> origins, overrides |-> overrides]

\* The policy requires nothing; one form overrides that and serves a host of
\* its own.  Never signed in, and the mailer is incomplete.
Overridden ==
  [columns |-> {"site_keys_json", "overrides_json", "provider"},
   account |-> [signedIn |-> FALSE, required |-> FALSE],
   profile |-> (<<"p">> :> [OldProfile EXCEPT !.policy.required = "no"]),
   form    |-> ("f1" :> OldForm(<<"b">>, [Silent EXCEPT !.required = "yes"])
                  @@ "f2" :> OldForm(<<"*">>, Silent)),
   notice  |-> [OldNotice EXCEPT !.complete = FALSE]]

\* A release that knew both forms of the site key configured the profile, and
\* one form still has an override from before; the account is in use.
Explicit ==
  [columns |-> Overridden.columns \cup {"site_key"},
   account |-> [signedIn |-> TRUE, required |-> FALSE],
   profile |-> (<<"p">> :> [OldProfile EXCEPT !.siteKey = "keyC"]),
   form    |-> ("f1" :> OldForm(<<"a">>, [Silent EXCEPT !.action = "custom"])
                  @@ "f2" :> OldForm(<<"*">>, Silent)),
   notice  |-> OldNotice]

MCDatabases == {Overridden, Explicit}
=============================================================================
