--------------------------- MODULE AdminSessions ---------------------------
(***************************************************************************)
(* The requests of the administration and the account commands, over the   *)
(* account and the sessions of Accounts (internal/http/auth.go and         *)
(* settings.go, the admin routes, internal/cli/account.go).                *)
(*                                                                         *)
(* A request asks twice whether it may go on, once about its session and   *)
(* once about the temporary password, and acts after that: three accesses  *)
(* to a database that sign-outs, credential changes and commands of other  *)
(* processes change in between.  What a page of the administration does is *)
(* "work"; a change of credentials through a page or a command is a change *)
(* of Accounts under the name of the request or command.                   *)
(***************************************************************************)
EXTENDS Accounts

CONSTANT Requests  \* HTTP requests to the administration

ASSUME AdminSessionsAssumption == Requests \subseteq Changes

Commands == Changes \ Requests

VARIABLE actor  \* requests and commands: step, cookie, route, email read

adminVars == <<vars, actor>>

\* Mutants: the password form is not the only way out of the temporary
\* password, or the settings of the email are.
PasswordSetup_Everything == {"logout", "settings", "password", "email", "work"}

\* Routes that need a session only.
PasswordSetup == {"logout", "settings", "password"}
Authenticated == {"email", "work"}
AccountCommands == {"show", "set-email", "change-password", "reset-password"}

NoCookie == "no cookie"
NoEmail == "no email"

Fresh == [pc |-> "start", token |-> NoCookie, route |-> "none", email |-> NoEmail,
          sound |-> FALSE]

AdminInit == Init /\ actor = [a \in Changes |-> Fresh]

Goto(a, label) == actor' = [actor EXCEPT ![a].pc = label]

\* The sign-in of a token is still good: its session was registered, has not
\* ended, and the account has the credentials it verified.
Sound(l) ==
  /\ IsSessionActive(l)
  /\ \E u \in users : SameCredentials(u, login[l].user)

\* A browser that was given a cookie by a sign-in sends a request.
Arrive(r) ==
  /\ actor[r].pc = "start"
  /\ \E l \in Logins, route \in PasswordSetup \cup Authenticated :
       /\ login[l].pc = "registered"
       /\ actor' = [actor EXCEPT ![r] = [pc |-> "arrived", token |-> l, route |-> route,
                                         email |-> NoEmail, sound |-> Sound(l)]]
  /\ UNCHANGED vars

\* Mutant: the signature and the expiry of the cookie are enough.
RequireSession_CookieOnly(r) ==
  /\ actor[r].pc = "arrived"
  /\ IF login[actor[r].token].expiresAt > now THEN Goto(r, "session") ELSE Goto(r, "to login")
  /\ UNCHANGED vars

\* RequireSession: the account of the cookie, then its active session.
RequireSession(r) ==
  /\ actor[r].pc = "arrived"
  /\ IF users # {} /\ IsSessionActive(actor[r].token)
       THEN Goto(r, "session") ELSE Goto(r, "to login")
  /\ UNCHANGED vars

\* RequirePasswordChanged, on the routes that have it.
RequirePasswordChanged(r) ==
  /\ actor[r].pc = "session"
  /\ IF actor[r].route \in PasswordSetup THEN Goto(r, "handler")
     ELSE IF \E u \in users : u.mustChange THEN Goto(r, "to settings")
     ELSE Goto(r, "handler")
  /\ UNCHANGED vars

\* Any handler behind both questions, with what it does to the rest.
Work(r) ==
  /\ actor[r].pc = "handler" /\ actor[r].route = "work"
  /\ Goto(r, "worked")
  /\ UNCHANGED vars

\* AdminSettingsPage.
ShowSettings(r) ==
  /\ actor[r].pc = "handler" /\ actor[r].route = "settings"
  /\ Goto(r, "shown")
  /\ UNCHANGED vars

\* AdminLogout: the row of the cookie goes, if it is still there.
AdminLogout(r) ==
  /\ actor[r].pc = "handler" /\ actor[r].route = "logout"
  /\ IF \E s \in sessions : s.token = actor[r].token
       THEN RevokeSession(actor[r].token) ELSE UNCHANGED vars
  /\ Goto(r, "signed out")

\* currentUser of the settings handlers: the email the change looks for.
currentUser(r) ==
  /\ actor[r].pc = "handler" /\ actor[r].route \in {"password", "email"}
  /\ \E u \in users : actor' = [actor EXCEPT ![r].pc = "change", ![r].email = u.email]
  /\ UNCHANGED vars

\* A command starts: GetAdmin, or the email given to reset-password.
GetAdmin(c) ==
  /\ actor[c].pc = "start" /\ users # {}
  /\ \E route \in AccountCommands, email \in Emails :
       /\ route # "reset-password" => \E u \in users : u.email = email
       /\ actor' = [actor EXCEPT ![c].pc = IF route = "show" THEN "shown" ELSE "change",
                                 ![c].route = route, ![c].email = email]
  /\ UNCHANGED vars

\* FindByEmail of the change finds nobody: the email changed meanwhile.
NoSuchAccount(a) ==
  /\ actor[a].pc = "change"
  /\ ~\E u \in users : u.email = actor[a].email
  /\ Goto(a, "failed")
  /\ UNCHANGED vars

\* ChangePassword, ChangeEmail or ResetPassword finds the account and passes
\* its checks; a wrong password is a request that takes no further step.
PassChecks(a) ==
  /\ actor[a].pc = "change"
  /\ \E u \in users : u.email = actor[a].email
  /\ \/ actor[a].route \in {"email", "set-email"} /\ VerifyEmailChange(a)
     \/ actor[a].route \in {"password", "change-password"} /\ VerifyPasswordChange(a)
     \/ actor[a].route = "reset-password" /\ PrepareReset(a)
  /\ Goto(a, "store")

\* The transaction; then a page redirects to the sign-in, a command reports.
StoreChange(a) ==
  /\ actor[a].pc = "store"
  /\ StoreEmail(a) \/ storePassword(a)
  /\ Goto(a, "changed")

Request(r) ==
  \/ Arrive(r) \/ RequireSession(r) \/ RequirePasswordChanged(r)
  \/ Work(r) \/ ShowSettings(r) \/ AdminLogout(r) \/ currentUser(r)

Change(a) == NoSuchAccount(a) \/ PassChecks(a) \/ StoreChange(a)

\* AdminLoginSubmit; a token is revoked by AdminLogout only.
AdminLoginSubmit(l) ==
  Authenticate(l) \/ RecordLogin(l) \/ RegisterSession(l) \/ RefuseSession(l)

AdminNext ==
  \/ \E b \in Boots : EnsureAdmin(b) /\ UNCHANGED actor
  \/ \E l \in Logins : AdminLoginSubmit(l) /\ UNCHANGED actor
  \/ \E r \in Requests : Request(r)
  \/ \E c \in Commands : GetAdmin(c)
  \/ \E a \in Changes : Change(a)
  \/ Tick /\ UNCHANGED actor

AdminSpec == AdminInit /\ [][AdminNext]_adminVars

(***************************************************************************)
(* Properties.                                                             *)
(***************************************************************************)

\* Types of the actors, and what a step presupposes of the step before it.
ActorTypeOK ==
  /\ actor \in [Changes ->
       [pc : {"start", "arrived", "session", "handler", "change", "store",
              "worked", "shown", "signed out", "changed", "failed",
              "to login", "to settings"},
        token : Logins \cup {NoCookie},
        route : PasswordSetup \cup Authenticated \cup AccountCommands \cup {"none"},
        email : Emails \cup {NoEmail}, sound : BOOLEAN]]
  /\ \A r \in Requests : actor[r].pc # "start" =>
       /\ actor[r].token \in Logins
       /\ actor[r].route \in PasswordSetup \cup Authenticated

\* The account behind it all, and one of it.
AdminInv == TypeOK /\ OneAccount /\ ActorTypeOK

\* A request whose token was not good when it arrived (signed out, expired, or
\* from credentials the account no longer has) gets nowhere: it does no work,
\* signs nothing out and changes no credentials, whatever happens between its
\* two questions and its handler (auth.go:18).
StaleTokensPowerless ==
  \A r \in Requests :
    actor[r].pc \in {"session", "handler", "change", "store", "worked", "signed out", "changed"}
      => actor[r].sound

\* No administrative work is done while the temporary password is in force,
\* however requests, password changes and commands interleave (auth.go:68).
TemporaryPasswordGate ==
  \A r \in Requests : actor[r].pc = "worked" => \A u \in users : ~u.mustChange
=============================================================================
