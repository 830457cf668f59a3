------------------------------ MODULE Accounts ------------------------------
(***************************************************************************)
(* The operator account and its sessions (internal/accounts, the sign-in   *)
(* and settings handlers of internal/http, the account commands of the     *)
(* CLI).  Signing in and changing credentials read the account first,      *)
(* spend a while on bcrypt, and write in a later transaction; several of   *)
(* them run at the same time, in the server and in CLI processes.          *)
(*                                                                         *)
(* A password hash is a password and a salt no other hash has, as bcrypt   *)
(* makes them.  A transaction that fails changes nothing, so a request     *)
(* that ends in such an error is one that takes no further step.           *)
(***************************************************************************)
EXTENDS Integers, FiniteSets

CONSTANTS
  Emails, Passwords,
  DefaultAdminEmail,  \* the email of a new account
  Boots,              \* server starts that run EnsureAdmin
  BootPassword,       \* [Boots -> Passwords]: rand.Text() of each start
  Logins,             \* sign-in requests; each makes one token
  Changes,            \* credential changes
  SessionTimeout,     \* MINIFORM_SESSION_TIMEOUT_SECONDS, in ticks
  MaxTime             \* bound: last value of the clock

ASSUME AccountsAssumption ==
  /\ DefaultAdminEmail \in Emails
  /\ BootPassword \in [Boots -> Passwords]
  /\ SessionTimeout \in Nat \ {0}
  /\ MaxTime \in Nat

VARIABLES
  users,      \* the users table: {} or one row
  salts,      \* number of hashes made so far, the salt of the last one
  sessions,   \* the active_sessions table: tokens are named by their login
  now,
  boot,       \* EnsureAdmin of each start: step and prepared hash
  announced,  \* passwords printed as initial credentials
  login,      \* sign-in requests: step and the user Authenticate returned
  change      \* credential changes: step, user read, values to write

vars == <<users, salts, sessions, now, boot, announced, login, change>>

Never == -1
Hashes == [password : Passwords, salt : Nat]
Users == [email : Emails, hash : Hashes, mustChange : BOOLEAN,
          lastLogin : Nat \cup {Never}]
NoHash == [password |-> "none", salt |-> 0]
NoUser == [email |-> "none", hash |-> NoHash, mustChange |-> FALSE, lastLogin |-> Never]
Sessions == [token : Logins, expiresAt : Nat]

NewHash(password) == [password |-> password, salt |-> salts + 1]
passwordMatches(user, password) == user.hash.password = password

Init ==
  /\ users = {}
  /\ salts = 0
  /\ sessions = {}
  /\ now = 0
  /\ boot = [b \in Boots |-> [pc |-> "start", hash |-> NoHash]]
  /\ announced = {}
  /\ login = [l \in Logins |-> [pc |-> "start", user |-> NoUser, expiresAt |-> 0]]
  /\ change = [c \in Changes |-> [pc |-> "start", user |-> NoUser, to |-> NoUser]]

(***************************************************************************)
(* EnsureAdmin.                                                            *)
(***************************************************************************)

\* Some user exists: nothing to do.
BootFindsAdmin(b) ==
  /\ boot[b].pc = "start" /\ users # {}
  /\ boot' = [boot EXCEPT ![b].pc = "done"]
  /\ UNCHANGED <<users, salts, sessions, now, announced, login, change>>

\* No user: hash the random password.
BootPrepares(b) ==
  /\ boot[b].pc = "start" /\ users = {}
  /\ salts' = salts + 1
  /\ boot' = [boot EXCEPT ![b] = [pc |-> "create", hash |-> NewHash(BootPassword[b])]]
  /\ UNCHANGED <<users, sessions, now, announced, login, change>>

InitialAdmin(b) ==
  [email |-> DefaultAdminEmail, hash |-> boot[b].hash, mustChange |-> TRUE,
   lastLogin |-> Never]

\* Mutants: the transaction trusts the first count, or commits before the
\* announcement, which then fails.
BootCreates_NoRecount(b) ==
  /\ boot[b].pc = "create"
  /\ users' = users \cup {InitialAdmin(b)}
  /\ announced' = announced \cup {BootPassword[b]}
  /\ boot' = [boot EXCEPT ![b].pc = "created"]
  /\ UNCHANGED <<salts, sessions, now, login, change>>
BootCreates_AnnouncesLater(b) ==
  /\ boot[b].pc = "create" /\ users = {}
  /\ users' = {InitialAdmin(b)}
  /\ boot' = [boot EXCEPT ![b].pc = "created"]
  /\ UNCHANGED <<salts, sessions, now, announced, login, change>>

\* The transaction counts again, creates the row, announces, commits.
BootCreates(b) ==
  /\ boot[b].pc = "create" /\ users = {}
  /\ users' = {InitialAdmin(b)}
  /\ announced' = announced \cup {BootPassword[b]}
  /\ boot' = [boot EXCEPT ![b].pc = "created"]
  /\ UNCHANGED <<salts, sessions, now, login, change>>

\* Another process created the account in between.
BootTooLate(b) ==
  /\ boot[b].pc = "create" /\ users # {}
  /\ boot' = [boot EXCEPT ![b].pc = "done"]
  /\ UNCHANGED <<users, salts, sessions, now, announced, login, change>>

\* The announcement fails, or the commit after it: so does the start.
BootFails(b) ==
  /\ boot[b].pc = "create" /\ users = {}
  /\ announced' \in {announced, announced \cup {BootPassword[b]}}
  /\ boot' = [boot EXCEPT ![b].pc = "failed"]
  /\ UNCHANGED <<users, salts, sessions, now, login, change>>

(***************************************************************************)
(* AdminLoginSubmit.                                                       *)
(***************************************************************************)

\* Authenticate: FindByEmail and the bcrypt comparison.
Authenticate(l) ==
  /\ login[l].pc = "start"
  /\ \E u \in users, email \in Emails, password \in Passwords :
       /\ u.email = email /\ passwordMatches(u, password)
       /\ login' = [login EXCEPT ![l] = [pc |-> "verified", user |-> u, expiresAt |-> 0]]
  /\ UNCHANGED <<users, salts, sessions, now, boot, announced, change>>

\* Mutant: the expiry is computed backwards.
RecordLogin_Backwards(l) ==
  /\ login[l].pc = "verified"
  /\ users' = {[u EXCEPT !.lastLogin = now] : u \in users}
  /\ login' = [login EXCEPT ![l] = [pc |-> "authenticated", user |-> login[l].user,
                                    expiresAt |-> now - SessionTimeout]]
  /\ UNCHANGED <<salts, sessions, now, boot, announced, change>>

\* Authenticate stores last_login_at in whatever row the id has now; then
\* SetSession signs the cookie, which fixes when the session expires.
RecordLogin(l) ==
  /\ login[l].pc = "verified"
  /\ users' = {[u EXCEPT !.lastLogin = now] : u \in users}
  /\ login' = [login EXCEPT ![l] = [pc |-> "authenticated", user |-> login[l].user,
                                    expiresAt |-> now + SessionTimeout]]
  /\ UNCHANGED <<salts, sessions, now, boot, announced, change>>

SameCredentials(u, v) == u.email = v.email /\ u.hash = v.hash

\* Mutant: no recheck.
RegisterSession_Unchecked(l) ==
  /\ login[l].pc = "authenticated"
  /\ sessions' = {s \in sessions : s.expiresAt > now}
                   \cup {[token |-> l, expiresAt |-> login[l].expiresAt]}
  /\ login' = [login EXCEPT ![l].pc = "registered"]
  /\ UNCHANGED <<users, salts, now, boot, announced, change>>

\* The transaction rechecks the credentials, purges expired rows, inserts.
RegisterSession(l) ==
  /\ login[l].pc = "authenticated"
  /\ \E u \in users : SameCredentials(u, login[l].user)
  /\ sessions' = {s \in sessions : s.expiresAt > now}
                   \cup {[token |-> l, expiresAt |-> login[l].expiresAt]}
  /\ login' = [login EXCEPT ![l].pc = "registered"]
  /\ UNCHANGED <<users, salts, now, boot, announced, change>>

RefuseSession(l) ==
  /\ login[l].pc = "authenticated"
  /\ ~\E u \in users : SameCredentials(u, login[l].user)
  /\ login' = [login EXCEPT ![l].pc = "refused"]
  /\ UNCHANGED <<users, salts, sessions, now, boot, announced, change>>

\* What RequireSession asks about the token of a request.
IsSessionActive(l) == \E s \in sessions : s.token = l /\ s.expiresAt > now

\* AdminLogout: the row goes if it is still there.
RevokeSession(l) ==
  /\ \E s \in sessions : s.token = l
  /\ sessions' = {s \in sessions : s.token # l}
  /\ UNCHANGED <<users, salts, now, boot, announced, login, change>>

(***************************************************************************)
(* Credential changes: the read and the checks, then the transaction.      *)
(***************************************************************************)
Prepared(c, label, user, to) ==
  change' = [change EXCEPT ![c] = [pc |-> label, user |-> user, to |-> to]]

\* ChangeEmail with the right password and another address.
VerifyEmailChange(c) ==
  /\ change[c].pc = "start"
  /\ \E u \in users, email \in Emails, password \in Passwords :
       /\ passwordMatches(u, password)
       /\ email # u.email
       /\ Prepared(c, "email", u, [u EXCEPT !.email = email])
  /\ UNCHANGED <<users, salts, sessions, now, boot, announced, login>>

\* ChangePassword with the right password and a different one, hashed.
VerifyPasswordChange(c) ==
  /\ change[c].pc = "start"
  /\ \E u \in users, current, password \in Passwords :
       /\ passwordMatches(u, current)
       /\ ~passwordMatches(u, password)
       /\ Prepared(c, "password", u, [u EXCEPT !.hash = NewHash(password)])
  /\ salts' = salts + 1
  /\ UNCHANGED <<users, sessions, now, boot, announced, login>>

\* ResetPassword asks for no password.
PrepareReset(c) ==
  /\ change[c].pc = "start"
  /\ \E u \in users, password \in Passwords :
       Prepared(c, "reset", u, [u EXCEPT !.hash = NewHash(password)])
  /\ salts' = salts + 1
  /\ UNCHANGED <<users, sessions, now, boot, announced, login>>

\* The transaction updates its own columns, whatever the row has become, and
\* deletes every session of the account.
StoreEmail(c) ==
  /\ change[c].pc = "email"
  /\ users' = {[u EXCEPT !.email = change[c].to.email] : u \in users}
  /\ sessions' = {}
  /\ change' = [change EXCEPT ![c].pc = "done"]
  /\ UNCHANGED <<salts, now, boot, announced, login>>

WithPassword(u, hash) ==
  [email |-> u.email, hash |-> hash, mustChange |-> FALSE, lastLogin |-> u.lastLogin]

storePassword(c) ==
  /\ change[c].pc \in {"password", "reset"}
  /\ users' = {WithPassword(u, change[c].to.hash) : u \in users}
  /\ sessions' = {}
  /\ change' = [change EXCEPT ![c].pc = "done"]
  /\ UNCHANGED <<salts, now, boot, announced, login>>

Tick ==
  /\ now < MaxTime
  /\ now' = now + 1
  /\ UNCHANGED <<users, salts, sessions, boot, announced, login, change>>

EnsureAdmin(b) ==
  \/ BootFindsAdmin(b) \/ BootPrepares(b) \/ BootCreates(b)
  \/ BootTooLate(b) \/ BootFails(b)

SignIn(l) ==
  \/ Authenticate(l) \/ RecordLogin(l)
  \/ RegisterSession(l) \/ RefuseSession(l) \/ RevokeSession(l)

ChangeCredentials(c) ==
  \/ VerifyEmailChange(c) \/ VerifyPasswordChange(c) \/ PrepareReset(c)
  \/ StoreEmail(c) \/ storePassword(c)

Next ==
  \/ \E b \in Boots : EnsureAdmin(b)
  \/ \E l \in Logins : SignIn(l)
  \/ \E c \in Changes : ChangeCredentials(c)
  \/ Tick

Spec == Init /\ [][Next]_vars

(***************************************************************************)
(* Properties.                                                             *)
(***************************************************************************)

\* Types: the columns, the requests and what they carry between their steps.
TypeOK ==
  /\ users \subseteq Users
  /\ salts \in Nat
  /\ sessions \subseteq Sessions
  /\ now \in Nat
  /\ boot \in [Boots -> [pc : {"start", "create", "created", "done", "failed"},
                        hash : Hashes \cup {NoHash}]]
  /\ \A b \in Boots : boot[b].pc = "create" => boot[b].hash \in Hashes
  /\ announced \subseteq Passwords
  /\ login \in [Logins -> [pc : {"start", "verified", "authenticated", "registered", "refused"},
                          user : Users \cup {NoUser}, expiresAt : Nat]]
  /\ \A l \in Logins : login[l].pc # "start" => login[l].user \in Users
  /\ change \in [Changes -> [pc : {"start", "email", "password", "reset", "done"},
                            user : Users \cup {NoUser}, to : Users \cup {NoUser}]]
  /\ \A c \in Changes : change[c].pc # "start" => change[c].to \in Users

\* There is one operator account at most, however many starts count zero users
\* at the same time (GetAdmin and the sessions rely on it).
OneAccount == \A u, v \in users : u = v

\* A token that RequireSession accepts comes from a sign-in with the
\* credentials the account has now: a change of email or password ends every
\* session, those of sign-ins it overtakes included (accounts.go:256).
SessionsMatchCredentials ==
  \A l \in Logins :
    IsSessionActive(l) => \E u \in users : SameCredentials(u, login[l].user)

\* As long as the temporary password is in force it is one that was printed:
\* concurrent starts and failed commits never lock the operator out.
InitialPasswordKnown ==
  \A u \in users : u.mustChange => u.hash.password \in announced
=============================================================================
