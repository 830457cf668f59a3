------------------------ MODULE AdminSessionsProofs ------------------------
(***************************************************************************)
(* Proofs about Accounts and AdminSessions, for every number of starts,    *)
(* sign-ins, credential changes and requests.  First Accounts.  Then a     *)
(* request is a step of Accounts or leaves the account and its sessions    *)
(* alone, so whatever is proved of Accounts holds under the requests of    *)
(* the administration too; the two properties of the requests themselves   *)
(* follow from it and from two facts about single steps: a token that is   *)
(* not good never becomes good, and a temporary password that was replaced *)
(* does not come back.                                                     *)
(***************************************************************************)
EXTENDS AdminSessions, TLAPS

(***************************************************************************)
(* The account, its sessions and the changes of its credentials.           *)
(***************************************************************************)

LEMMA InitTypeOK == Init => TypeOK
BY DEF Init, TypeOK

LEMMA NewHashTyped ==
  ASSUME TypeOK, NEW p \in Passwords
  PROVE  NewHash(p) \in Hashes
BY DEF TypeOK, NewHash, Hashes

\* The read step of a change keeps the types.
LEMMA PreparedTypeOK ==
  ASSUME TypeOK, NEW c \in Changes, NEW u \in Users, NEW v \in Users,
         NEW label \in {"email", "password", "reset"}, Prepared(c, label, u, v),
         salts' \in Nat,
         UNCHANGED <<users, sessions, now, boot, announced, login>>
  PROVE  TypeOK'
BY DEF TypeOK, Prepared

LEMMA NextTypeOK ==
  ASSUME TypeOK, [Next]_vars
  PROVE  TypeOK'
<1>1. ASSUME NEW b \in Boots, BootFindsAdmin(b) \/ BootTooLate(b)
      PROVE  TypeOK'
  BY <1>1 DEF BootFindsAdmin, BootTooLate, TypeOK
<1>2. ASSUME NEW b \in Boots, BootPrepares(b)
      PROVE  TypeOK'
  <2>1. NewHash(BootPassword[b]) \in Hashes
    BY NewHashTyped, AccountsAssumption
  <2> QED
    BY <1>2, <2>1 DEF BootPrepares, TypeOK
<1>3. ASSUME NEW b \in Boots, BootCreates(b)
      PROVE  TypeOK'
  <2>1. InitialAdmin(b) \in Users
    BY <1>3, AccountsAssumption DEF BootCreates, InitialAdmin, Users, TypeOK
  <2>2. BootPassword[b] \in Passwords
    BY AccountsAssumption
  <2> QED
    BY <1>3, <2>1, <2>2 DEF BootCreates, TypeOK
<1>4. ASSUME NEW b \in Boots, BootFails(b)
      PROVE  TypeOK'
  <2>1. BootPassword[b] \in Passwords
    BY AccountsAssumption
  <2> QED
    BY <1>4, <2>1 DEF BootFails, TypeOK
<1>5. ASSUME NEW l \in Logins, Authenticate(l)
      PROVE  TypeOK'
  <2>1. PICK u \in users :
          login' = [login EXCEPT ![l] = [pc |-> "verified", user |-> u, expiresAt |-> 0]]
    BY <1>5 DEF Authenticate
  <2>2. u \in Users
    BY DEF TypeOK
  <2> QED
    BY <1>5, <2>1, <2>2 DEF Authenticate, TypeOK
<1>6. ASSUME NEW l \in Logins, RecordLogin(l)
      PROVE  TypeOK'
  <2>1. \A u \in users : [u EXCEPT !.lastLogin = now] \in Users
    BY DEF TypeOK, Users
  <2>2. now + SessionTimeout \in Nat
    BY AccountsAssumption DEF TypeOK
  <2>3. users' \subseteq Users
    BY <1>6, <2>1 DEF RecordLogin
  <2> QED
    BY <1>6, <2>2, <2>3 DEF RecordLogin, TypeOK
<1>7. ASSUME NEW l \in Logins, RegisterSession(l) \/ RefuseSession(l) \/ RevokeSession(l)
      PROVE  TypeOK'
  BY <1>7 DEF RegisterSession, RefuseSession, RevokeSession, TypeOK, Sessions
<1>8. ASSUME NEW c \in Changes, VerifyEmailChange(c)
      PROVE  TypeOK'
  <2>1. PICK u \in users, email \in Emails :
          Prepared(c, "email", u, [u EXCEPT !.email = email])
    BY <1>8 DEF VerifyEmailChange
  <2>2. u \in Users /\ [u EXCEPT !.email = email] \in Users
    BY DEF TypeOK, Users
  <2> QED
    BY <1>8, <2>1, <2>2, PreparedTypeOK DEF VerifyEmailChange, TypeOK
<1>9. ASSUME NEW c \in Changes, VerifyPasswordChange(c) \/ PrepareReset(c)
      PROVE  TypeOK'
  <2>1. PICK u \in users, password \in Passwords, label \in {"password", "reset"} :
          Prepared(c, label, u, [u EXCEPT !.hash = NewHash(password)])
    BY <1>9 DEF VerifyPasswordChange, PrepareReset
  <2>2. u \in Users /\ [u EXCEPT !.hash = NewHash(password)] \in Users
    BY NewHashTyped DEF TypeOK, Users
  <2>3. salts' \in Nat /\ UNCHANGED <<users, sessions, now, boot, announced, login>>
    BY <1>9 DEF VerifyPasswordChange, PrepareReset, TypeOK
  <2> QED
    BY <2>1, <2>2, <2>3, PreparedTypeOK
<1>10. ASSUME NEW c \in Changes, StoreEmail(c) \/ storePassword(c)
       PROVE  TypeOK'
  <2>1. change[c].to \in Users
    BY <1>10 DEF StoreEmail, storePassword, TypeOK
  <2>2. /\ change[c].to.email \in Emails
        /\ change[c].to.hash \in Hashes
    BY <2>1 DEF Users
  <2>3. \A u \in users : [u EXCEPT !.email = change[c].to.email] \in Users
    BY <2>2 DEF TypeOK, Users
  <2>4. \A u \in users : WithPassword(u, change[c].to.hash) \in Users
    BY <2>2 DEF TypeOK, Users, WithPassword
  <2>5. users' \subseteq Users
    BY <1>10, <2>3, <2>4 DEF StoreEmail, storePassword
  <2> QED
    BY <1>10, <2>5 DEF StoreEmail, storePassword, TypeOK
<1>11. CASE Tick
  BY <1>11 DEF Tick, TypeOK
<1>12. CASE UNCHANGED vars
  BY <1>12 DEF vars, TypeOK
<1> QED
  BY <1>1, <1>2, <1>3, <1>4, <1>5, <1>6, <1>7, <1>8, <1>9, <1>10, <1>11, <1>12
  DEF Next, EnsureAdmin, SignIn, ChangeCredentials

\* Type correctness of the account, its sessions and the requests under way.
THEOREM AccountsTypeOK == Spec => []TypeOK
BY InitTypeOK, NextTypeOK, PTL DEF Spec

(***************************************************************************)
(* The inductive invariant.  A session row belongs to a registered sign-in *)
(* with the credentials of the row in users; there is at most one such     *)
(* row; and before it exists nobody has signed in.                         *)
(***************************************************************************)
RowsMatch ==
  \A s \in sessions :
    /\ login[s.token].pc = "registered"
    /\ \A u \in users : SameCredentials(u, login[s.token].user)

NobodyYet ==
  users = {} => sessions = {} /\ \A l \in Logins : login[l].pc = "start"

BootKnows ==
  \A b \in Boots : boot[b].pc = "create" => boot[b].hash.password = BootPassword[b]

AccountsInv ==
  OneAccount /\ RowsMatch /\ NobodyYet /\ BootKnows /\ InitialPasswordKnown

LEMMA InitAccountsInv == Init => AccountsInv
BY DEF Init, AccountsInv, OneAccount, RowsMatch, NobodyYet, BootKnows, InitialPasswordKnown

\* A step that leaves the account and the sign-ins alone and creates no session.
LEMMA KeepsAccountsInv ==
  ASSUME AccountsInv, UNCHANGED <<users, login>>,
         sessions' \subseteq sessions, announced \subseteq announced', BootKnows'
  PROVE  AccountsInv'
<1>1. OneAccount' /\ NobodyYet'
  BY DEF AccountsInv, OneAccount, NobodyYet
<1>2. RowsMatch'
  BY DEF AccountsInv, RowsMatch, SameCredentials
<1>3. InitialPasswordKnown'
  BY DEF AccountsInv, InitialPasswordKnown
<1> QED
  BY <1>1, <1>2, <1>3 DEF AccountsInv

\* A change of credentials ends every session.
LEMMA StoreAccountsInv ==
  ASSUME AccountsInv, OneAccount', sessions' = {},
         UNCHANGED <<boot, announced, login>>,
         users' = {} => users = {},
         \A v \in users' : v.mustChange => \E u \in users : u.mustChange /\ v.hash = u.hash
  PROVE  AccountsInv'
<1>1. RowsMatch' /\ BootKnows'
  BY DEF AccountsInv, RowsMatch, BootKnows
<1>2. NobodyYet'
  BY DEF AccountsInv, NobodyYet
<1>3. InitialPasswordKnown'
  BY DEF AccountsInv, InitialPasswordKnown
<1> QED
  BY <1>1, <1>2, <1>3 DEF AccountsInv

LEMMA NextAccountsInv ==
  ASSUME TypeOK, TypeOK', AccountsInv, [Next]_vars
  PROVE  AccountsInv'
<1>1. ASSUME NEW b \in Boots, BootFindsAdmin(b) \/ BootTooLate(b) \/ BootFails(b)
      PROVE  AccountsInv'
  <2>1. BootKnows'
    BY <1>1 DEF BootFindsAdmin, BootTooLate, BootFails, AccountsInv, BootKnows, TypeOK
  <2> QED
    BY <1>1, <2>1, KeepsAccountsInv DEF BootFindsAdmin, BootTooLate, BootFails
<1>2. ASSUME NEW b \in Boots, BootPrepares(b)
      PROVE  AccountsInv'
  <2>1. BootKnows'
    BY <1>2 DEF BootPrepares, NewHash, AccountsInv, BootKnows, TypeOK
  <2> QED
    BY <1>2, <2>1, KeepsAccountsInv DEF BootPrepares
<1>3. ASSUME NEW b \in Boots, BootCreates(b)
      PROVE  AccountsInv'
  <2>1. /\ sessions = {} /\ sessions' = sessions
        /\ users' = {InitialAdmin(b)}
        /\ boot[b].hash.password = BootPassword[b]
        /\ BootPassword[b] \in announced'
    BY <1>3 DEF BootCreates, AccountsInv, NobodyYet, BootKnows
  <2>2. OneAccount' /\ RowsMatch' /\ NobodyYet'
    BY <2>1 DEF OneAccount, RowsMatch, NobodyYet
  <2>3. BootKnows'
    BY <1>3 DEF BootCreates, AccountsInv, BootKnows, TypeOK
  <2>4. InitialPasswordKnown'
    BY <2>1 DEF InitialPasswordKnown, InitialAdmin
  <2> QED
    BY <2>2, <2>3, <2>4 DEF AccountsInv
<1>4. ASSUME NEW l \in Logins, Authenticate(l)
      PROVE  AccountsInv'
  <2>1. PICK u \in users :
          login' = [login EXCEPT ![l] = [pc |-> "verified", user |-> u, expiresAt |-> 0]]
    BY <1>4 DEF Authenticate
  <2>2. UNCHANGED <<users, sessions, boot, announced>> /\ login[l].pc = "start"
    BY <1>4 DEF Authenticate
  <2>3. \A s \in sessions : s.token \in Logins /\ s.token # l
    BY <2>2 DEF AccountsInv, RowsMatch, TypeOK, Sessions
  <2>4. \A s \in sessions : login'[s.token] = login[s.token]
    BY <2>1, <2>3 DEF TypeOK
  <2>5. RowsMatch'
    BY <2>2, <2>4 DEF AccountsInv, RowsMatch, SameCredentials
  <2>6. OneAccount' /\ NobodyYet' /\ BootKnows' /\ InitialPasswordKnown'
    BY <2>2 DEF AccountsInv, OneAccount, NobodyYet, BootKnows, InitialPasswordKnown
  <2> QED
    BY <2>5, <2>6 DEF AccountsInv
<1>5. ASSUME NEW l \in Logins, RecordLogin(l)
      PROVE  AccountsInv'
  <2>1. /\ login[l].pc = "verified"
        /\ users' = {[u EXCEPT !.lastLogin = now] : u \in users}
        /\ login' = [login EXCEPT ![l] = [pc |-> "authenticated", user |-> login[l].user,
                                         expiresAt |-> now + SessionTimeout]]
        /\ UNCHANGED <<sessions, boot, announced>>
    BY <1>5 DEF RecordLogin
  <2>2. \A v \in users' : \E u \in users :
          v.email = u.email /\ v.hash = u.hash /\ v.mustChange = u.mustChange
    BY <2>1 DEF TypeOK, Users
  <2>3. users' = {} => users = {}
    BY <2>1
  <2>4. \A s \in sessions : login'[s.token] = login[s.token]
    BY <2>1 DEF AccountsInv, RowsMatch, TypeOK, Sessions
  <2>5. RowsMatch'
    BY <2>1, <2>2, <2>4 DEF AccountsInv, RowsMatch, SameCredentials
  <2>6. OneAccount' /\ BootKnows'
    BY <2>1 DEF AccountsInv, OneAccount, BootKnows
  <2>7. InitialPasswordKnown'
    BY <2>1, <2>2 DEF AccountsInv, InitialPasswordKnown
  <2>8. NobodyYet'
    BY <2>1, <2>3 DEF AccountsInv, NobodyYet
  <2> QED
    BY <2>5, <2>6, <2>7, <2>8 DEF AccountsInv
<1>6. ASSUME NEW l \in Logins, RegisterSession(l)
      PROVE  AccountsInv'
  <2>1. PICK u \in users : SameCredentials(u, login[l].user)
    BY <1>6 DEF RegisterSession
  <2>2. /\ UNCHANGED <<users, boot, announced>>
        /\ login[l].pc = "authenticated"
        /\ \A s \in sessions' : s.token = l \/ s \in sessions
    BY <1>6 DEF RegisterSession
  <2>3. login'[l].pc = "registered" /\ login'[l].user = login[l].user
    BY <1>6 DEF RegisterSession, TypeOK
  <2>4. \A s \in sessions : login'[s.token] = login[s.token]
    BY <1>6, <2>2 DEF RegisterSession, AccountsInv, RowsMatch, TypeOK, Sessions
  <2>5. \A v \in users : SameCredentials(v, login[l].user)
    BY <2>1 DEF AccountsInv, OneAccount
  <2>6. RowsMatch'
    BY <2>2, <2>3, <2>4, <2>5 DEF AccountsInv, RowsMatch, SameCredentials
  <2>7. OneAccount' /\ NobodyYet' /\ BootKnows' /\ InitialPasswordKnown'
    BY <2>1, <2>2 DEF AccountsInv, OneAccount, NobodyYet, BootKnows, InitialPasswordKnown
  <2> QED
    BY <2>6, <2>7 DEF AccountsInv
<1>7. ASSUME NEW l \in Logins, RefuseSession(l)
      PROVE  AccountsInv'
  <2>1. /\ UNCHANGED <<users, sessions, boot, announced>>
        /\ login[l].pc = "authenticated"
    BY <1>7 DEF RefuseSession
  <2>2. \A s \in sessions : login'[s.token] = login[s.token]
    BY <1>7, <2>1 DEF RefuseSession, AccountsInv, RowsMatch, TypeOK, Sessions
  <2>3. RowsMatch'
    BY <2>1, <2>2 DEF AccountsInv, RowsMatch, SameCredentials
  <2>4. OneAccount' /\ NobodyYet' /\ BootKnows' /\ InitialPasswordKnown'
    BY <2>1 DEF AccountsInv, OneAccount, NobodyYet, BootKnows, InitialPasswordKnown
  <2> QED
    BY <2>3, <2>4 DEF AccountsInv
<1>8. ASSUME NEW l \in Logins, RevokeSession(l)
      PROVE  AccountsInv'
  BY <1>8, KeepsAccountsInv DEF RevokeSession, AccountsInv, BootKnows
<1>9. ASSUME NEW c \in Changes, VerifyEmailChange(c) \/ VerifyPasswordChange(c) \/ PrepareReset(c)
      PROVE  AccountsInv'
  BY <1>9, KeepsAccountsInv DEF VerifyEmailChange, VerifyPasswordChange, PrepareReset,
                                AccountsInv, BootKnows
<1>10. ASSUME NEW c \in Changes, StoreEmail(c)
       PROVE  AccountsInv'
  <2>1. /\ users' = {[u EXCEPT !.email = change[c].to.email] : u \in users}
        /\ sessions' = {} /\ UNCHANGED <<boot, announced, login>>
    BY <1>10 DEF StoreEmail
  <2>2. \A v \in users' : \E u \in users : v.mustChange = u.mustChange /\ v.hash = u.hash
    BY <2>1 DEF TypeOK, Users
  <2>3. OneAccount' /\ (users' = {} => users = {})
    BY <2>1 DEF AccountsInv, OneAccount
  <2> QED
    BY <2>1, <2>2, <2>3, StoreAccountsInv
<1>11. ASSUME NEW c \in Changes, storePassword(c)
       PROVE  AccountsInv'
  <2>1. /\ users' = {WithPassword(u, change[c].to.hash) : u \in users}
        /\ sessions' = {} /\ UNCHANGED <<boot, announced, login>>
    BY <1>11 DEF storePassword
  <2>2. \A v \in users' : v.mustChange = FALSE
    BY <2>1 DEF WithPassword
  <2>3. OneAccount' /\ (users' = {} => users = {})
    BY <2>1 DEF AccountsInv, OneAccount
  <2> QED
    BY <2>1, <2>2, <2>3, StoreAccountsInv
<1>12. CASE Tick \/ UNCHANGED vars
  BY <1>12, KeepsAccountsInv DEF Tick, vars, AccountsInv, BootKnows
<1> QED
  BY <1>1, <1>2, <1>3, <1>4, <1>5, <1>6, <1>7, <1>8, <1>9, <1>10, <1>11, <1>12
  DEF Next, EnsureAdmin, SignIn, ChangeCredentials

\* However many processes start at once, one account is created (EnsureAdmin).
THEOREM AccountsOneAccount == Spec => []OneAccount
<1>1. AccountsInv => OneAccount
  BY DEF AccountsInv
<1> QED
  BY <1>1, InitTypeOK, NextTypeOK, InitAccountsInv, NextAccountsInv, PTL DEF Spec

\* A change of credentials leaves no accepted session behind, also when it
\* overtakes a sign-in (RegisterSession).
THEOREM AccountsSessionsMatch == Spec => []SessionsMatchCredentials
<1>1. TypeOK /\ AccountsInv => SessionsMatchCredentials
  BY DEF AccountsInv, RowsMatch, NobodyYet, SessionsMatchCredentials, IsSessionActive
<1> QED
  BY <1>1, InitTypeOK, NextTypeOK, InitAccountsInv, NextAccountsInv, PTL DEF Spec

\* A temporary password in force is one that was printed (EnsureAdmin).
THEOREM AccountsInitialPasswordKnown == Spec => []InitialPasswordKnown
<1>1. AccountsInv => InitialPasswordKnown
  BY DEF AccountsInv
<1> QED
  BY <1>1, InitTypeOK, NextTypeOK, InitAccountsInv, NextAccountsInv, PTL DEF Spec

(***************************************************************************)
(* The requests of the administration.                                     *)
(***************************************************************************)

LEMMA RequestStep ==
  ASSUME TypeOK, NEW r \in Requests, Request(r)
  PROVE  [Next]_vars
<1>1. CASE AdminLogout(r)
  <2>1. CASE \E s \in sessions : s.token = actor[r].token
    <3>1. actor[r].token \in Logins /\ RevokeSession(actor[r].token)
      BY <1>1, <2>1 DEF AdminLogout, TypeOK, Sessions
    <3> QED
      BY <3>1 DEF Next, SignIn
  <2>2. CASE ~\E s \in sessions : s.token = actor[r].token
    BY <1>1, <2>2 DEF AdminLogout
  <2> QED
    BY <2>1, <2>2
<1>2. CASE ~AdminLogout(r)
  BY <1>2 DEF Request, Arrive, RequireSession, RequirePasswordChanged, Work, ShowSettings,
              currentUser
<1> QED
  BY <1>1, <1>2

LEMMA ChangeStep ==
  ASSUME NEW a \in Changes, Change(a)
  PROVE  [Next]_vars
<1>1. CASE NoSuchAccount(a)
  BY <1>1 DEF NoSuchAccount
<1>2. CASE PassChecks(a) \/ StoreChange(a)
  <2>1. ChangeCredentials(a)
    BY <1>2 DEF PassChecks, StoreChange, ChangeCredentials
  <2> QED
    BY <2>1 DEF Next
<1> QED
  BY <1>1, <1>2 DEF Change

\* Every step of the administration is a step of Accounts or leaves it alone.
LEMMA AdminStepSimulates ==
  ASSUME TypeOK, [AdminNext]_adminVars
  PROVE  [Next]_vars
<1>1. ASSUME NEW b \in Boots, EnsureAdmin(b)
      PROVE  [Next]_vars
  BY <1>1 DEF Next
<1>2. ASSUME NEW l \in Logins, AdminLoginSubmit(l)
      PROVE  [Next]_vars
  BY <1>2 DEF Next, AdminLoginSubmit, SignIn
<1>3. ASSUME NEW c \in Commands, GetAdmin(c)
      PROVE  [Next]_vars
  BY <1>3 DEF GetAdmin
<1>4. CASE Tick
  BY <1>4 DEF Next
<1>5. CASE UNCHANGED adminVars
  BY <1>5 DEF adminVars, vars
<1> QED
  BY <1>1, <1>2, <1>3, <1>4, <1>5, RequestStep, ChangeStep DEF AdminNext

LEMMA AdminTypes == AdminSpec => []TypeOK
<1>1. AdminInit => TypeOK
  BY InitTypeOK DEF AdminInit
<1>2. TypeOK /\ [AdminNext]_adminVars => TypeOK'
  BY AdminStepSimulates, NextTypeOK
<1> QED
  BY <1>1, <1>2, PTL DEF AdminSpec

\* The administration implements Accounts: page handlers, middleware and
\* commands change the account and the sessions in its steps only.
THEOREM AdminImplementsAccounts == AdminSpec => Spec
<1>1. AdminInit => Init
  BY DEF AdminInit
<1>2. TypeOK /\ [AdminNext]_adminVars => [Next]_vars
  BY AdminStepSimulates
<1> QED
  BY <1>1, <1>2, AdminTypes, PTL DEF AdminSpec, Spec

(***************************************************************************)
(* Types of the actors.                                                    *)
(***************************************************************************)
Steps == {"start", "arrived", "session", "handler", "change", "store",
          "worked", "shown", "signed out", "changed", "failed",
          "to login", "to settings"}
Routes == PasswordSetup \cup Authenticated \cup AccountCommands \cup {"none"}
Actors == [pc : Steps, token : Logins \cup {NoCookie}, route : Routes,
           email : Emails \cup {NoEmail}, sound : BOOLEAN]

Arrived(r) ==
  /\ actor[r].token \in Logins
  /\ actor[r].route \in PasswordSetup \cup Authenticated

LEMMA ActorTypes ==
  ActorTypeOK <=> /\ actor \in [Changes -> Actors]
                  /\ \A r \in Requests : actor[r].pc # "start" => Arrived(r)
BY DEF ActorTypeOK, Actors, Arrived, Steps, Routes

LEMMA InitActorTypeOK == AdminInit => ActorTypeOK
<1> SUFFICES ASSUME AdminInit PROVE ActorTypeOK
  OBVIOUS
<1>1. Fresh \in Actors
  BY DEF Fresh, Actors, Steps, Routes
<1>2. actor = [a \in Changes |-> Fresh]
  BY DEF AdminInit
<1>3. \A r \in Requests : actor[r].pc = "start"
  BY <1>2, AdminSessionsAssumption DEF Fresh
<1> QED
  BY <1>1, <1>2, <1>3, ActorTypes

\* A step of an actor whose start is behind it, which keeps cookie and route.
LEMMA MoveTypeOK ==
  ASSUME ActorTypeOK, NEW a \in Changes, NEW label \in Steps,
         a \in Requests => actor[a].pc # "start",
         Goto(a, label)
  PROVE  ActorTypeOK'
<1>1. actor \in [Changes -> Actors]
  BY ActorTypes
<1>2. actor' \in [Changes -> Actors]
  BY <1>1 DEF Goto, Actors
<1>3. ASSUME NEW r \in Requests, actor'[r].pc # "start"
      PROVE  Arrived(r)'
  <2>1. r \in Changes
    BY AdminSessionsAssumption
  <2>2. actor'[r].token = actor[r].token /\ actor'[r].route = actor[r].route
    BY <1>1, <2>1 DEF Goto, Actors
  <2>3. actor[r].pc # "start"
    BY <1>1, <1>3, <2>1 DEF Goto, Actors
  <2> QED
    BY <2>2, <2>3, ActorTypes DEF Arrived
<1> QED
  BY <1>2, <1>3 DEF ActorTypeOK, Arrived, Actors, Steps, Routes

LEMMA StartTypeOK ==
  ASSUME ActorTypeOK, NEW a \in Changes, NEW entry \in Actors,
         actor' = [actor EXCEPT ![a] = entry],
         a \in Requests => /\ entry.token \in Logins
                           /\ entry.route \in PasswordSetup \cup Authenticated
  PROVE  ActorTypeOK'
<1>1. actor \in [Changes -> Actors]
  BY ActorTypes
<1>2. actor' \in [Changes -> Actors]
  BY <1>1
<1>3. ASSUME NEW r \in Requests, actor'[r].pc # "start"
      PROVE  Arrived(r)'
  <2>1. r \in Changes
    BY AdminSessionsAssumption
  <2>2. CASE r = a
    BY <1>1, <2>1, <2>2 DEF Arrived
  <2>3. CASE r # a
    <3>1. actor'[r] = actor[r]
      BY <1>1, <2>1, <2>3
    <3> QED
      BY <1>3, <3>1, ActorTypes DEF Arrived
  <2> QED
    BY <2>2, <2>3
<1> QED
  BY <1>2, <1>3 DEF ActorTypeOK, Arrived, Actors, Steps, Routes

\* The reads a request or a command starts from.
LEMMA ReadTypeOK ==
  ASSUME TypeOK, ActorTypeOK, NEW a \in Changes,
         \/ a \in Requests /\ (Arrive(a) \/ currentUser(a))
         \/ a \in Commands /\ GetAdmin(a)
  PROVE  ActorTypeOK'
<1>1. actor[a] \in Actors
  BY ActorTypes
<1>2. CASE a \in Requests /\ Arrive(a)
  <2>1. PICK l \in Logins, route \in PasswordSetup \cup Authenticated :
          actor' = [actor EXCEPT ![a] = [pc |-> "arrived", token |-> l, route |-> route,
                                         email |-> NoEmail, sound |-> Sound(l)]]
    BY <1>2 DEF Arrive
  <2> DEFINE entry == [pc |-> "arrived", token |-> l, route |-> route,
                       email |-> NoEmail, sound |-> Sound(l)]
  <2>3. Sound(l) \in BOOLEAN
    BY DEF Sound, IsSessionActive
  <2>4. entry \in Actors
    BY <2>3 DEF Actors, Steps, Routes
  <2>5. actor' = [actor EXCEPT ![a] = entry]
    BY <2>1
  <2> HIDE DEF entry
  <2>6. entry.token \in Logins /\ entry.route \in PasswordSetup \cup Authenticated
    BY DEF entry
  <2> QED
    BY <2>4, <2>5, <2>6, StartTypeOK
<1>3. CASE a \in Requests /\ currentUser(a)
  <2>1. PICK u \in users :
          actor' = [actor EXCEPT ![a].pc = "change", ![a].email = u.email]
    BY <1>3 DEF currentUser
  <2>2. u.email \in Emails
    BY DEF TypeOK, Users
  <2> DEFINE entry == [actor[a] EXCEPT !.pc = "change", !.email = u.email]
  <2>3. entry \in Actors /\ entry.token = actor[a].token /\ entry.route = actor[a].route
    BY <1>1, <2>2 DEF Actors, Steps
  <2>4. actor' = [actor EXCEPT ![a] = entry]
    BY <2>1
  <2>5. actor[a].pc # "start"
    BY <1>3 DEF currentUser
  <2> HIDE DEF entry
  <2> QED
    BY <1>3, <2>3, <2>4, <2>5, StartTypeOK, ActorTypes DEF Arrived
<1>4. CASE a \in Commands /\ GetAdmin(a)
  <2>1. PICK route \in AccountCommands, email \in Emails :
          actor' = [actor EXCEPT ![a].pc = IF route = "show" THEN "shown" ELSE "change",
                                 ![a].route = route, ![a].email = email]
    BY <1>4 DEF GetAdmin
  <2> DEFINE label == IF route = "show" THEN "shown" ELSE "change"
             entry == [actor[a] EXCEPT !.pc = label, !.route = route, !.email = email]
  <2>2. label \in Steps
    BY DEF Steps
  <2>3. actor' = [actor EXCEPT ![a] = entry]
    BY <2>1
  <2> HIDE DEF label
  <2>4. entry \in Actors
    BY <1>1, <2>2 DEF Actors, Routes
  <2>5. a \notin Requests
    BY <1>4 DEF Commands
  <2> HIDE DEF entry
  <2> QED
    BY <2>3, <2>4, <2>5, StartTypeOK
<1> QED
  BY <1>2, <1>3, <1>4

LEMMA NextActorTypeOK ==
  ASSUME TypeOK, ActorTypeOK, [AdminNext]_adminVars
  PROVE  ActorTypeOK'
<1>1. ASSUME NEW r \in Requests, Request(r)
      PROVE  ActorTypeOK'
  <2>1. r \in Changes
    BY AdminSessionsAssumption
  <2>2. CASE Arrive(r) \/ currentUser(r)
    BY <2>1, <2>2, ReadTypeOK
  <2>3. CASE ~Arrive(r) /\ ~currentUser(r)
    <3>1. actor[r].pc # "start" /\ \E label \in Steps : Goto(r, label)
      BY <1>1, <2>3 DEF Request, RequireSession, RequirePasswordChanged, Work, ShowSettings,
                        AdminLogout, Steps
    <3> QED
      BY <2>1, <3>1, MoveTypeOK
  <2> QED
    BY <2>2, <2>3
<1>2. ASSUME NEW a \in Changes, Change(a)
      PROVE  ActorTypeOK'
  <2>1. actor[a].pc # "start" /\ \E label \in Steps : Goto(a, label)
    BY <1>2 DEF Change, NoSuchAccount, PassChecks, StoreChange, Steps
  <2> QED
    BY <2>1, MoveTypeOK
<1>3. ASSUME NEW c \in Commands, GetAdmin(c)
      PROVE  ActorTypeOK'
  BY <1>3, ReadTypeOK DEF Commands
<1>4. CASE UNCHANGED actor
  BY <1>4 DEF ActorTypeOK
<1> QED
  BY <1>1, <1>2, <1>3, <1>4 DEF AdminNext, adminVars

LEMMA AdminActorTypes == AdminSpec => []ActorTypeOK
<1>1. TypeOK /\ ActorTypeOK /\ [AdminNext]_adminVars => ActorTypeOK'
  BY NextActorTypeOK
<1> QED
  BY <1>1, InitActorTypeOK, AdminTypes, PTL DEF AdminSpec

\* Types, one account, and requests that follow the order of their steps.
THEOREM AdministrationInv == AdminSpec => []AdminInv
BY AdminImplementsAccounts, AdminTypes, AdminActorTypes, AccountsOneAccount, PTL DEF AdminInv

\* No session outlives a change of credentials under the administration's
\* requests either (RegisterSession, RequireSession).
THEOREM AdministrationSessionsMatch == AdminSpec => []SessionsMatchCredentials
BY AdminImplementsAccounts, AccountsSessionsMatch, PTL

\* Nor is the operator locked out by a temporary password nobody was shown.
THEOREM AdministrationPasswordKnown == AdminSpec => []InitialPasswordKnown
BY AdminImplementsAccounts, AccountsInitialPasswordKnown, PTL

(***************************************************************************)
(* The two facts about single steps.                                       *)
(***************************************************************************)

\* A registered token stays one, and an inactive one never becomes active.
LEMMA NoResurrection ==
  ASSUME TypeOK, [Next]_vars, NEW l \in Logins, login[l].pc = "registered"
  PROVE  login'[l].pc = "registered" /\ (IsSessionActive(l)' => IsSessionActive(l))
<1>1. now \in Nat /\ \A s \in sessions : s.expiresAt \in Nat
  BY DEF TypeOK, Sessions
<1>2. ASSUME NEW k \in Logins, Authenticate(k) \/ RecordLogin(k) \/ RefuseSession(k)
      PROVE  login'[l].pc = "registered" /\ (IsSessionActive(l)' => IsSessionActive(l))
  <2>1. k # l /\ UNCHANGED <<sessions, now>>
    BY <1>2 DEF Authenticate, RecordLogin, RefuseSession
  <2>2. login'[l] = login[l]
    BY <1>2, <2>1 DEF Authenticate, RecordLogin, RefuseSession, TypeOK
  <2> QED
    BY <2>1, <2>2 DEF IsSessionActive
<1>3. ASSUME NEW k \in Logins, RegisterSession(k)
      PROVE  login'[l].pc = "registered" /\ (IsSessionActive(l)' => IsSessionActive(l))
  <2>1. k # l
    BY <1>3 DEF RegisterSession
  <2>2. login'[l] = login[l] /\ now' = now
    BY <1>3, <2>1 DEF RegisterSession, TypeOK
  <2>3. \A s \in sessions' : s.token = k \/ s \in sessions
    BY <1>3 DEF RegisterSession
  <2> QED
    BY <2>1, <2>2, <2>3 DEF IsSessionActive
<1>4. CASE UNCHANGED login /\ sessions' \subseteq sessions /\ now' \in {now, now + 1}
  BY <1>1, <1>4 DEF IsSessionActive
<1>5. ASSUME NEW k \in Logins, RevokeSession(k)
      PROVE  UNCHANGED login /\ sessions' \subseteq sessions /\ now' \in {now, now + 1}
  BY <1>5 DEF RevokeSession
<1>6. ASSUME NEW b \in Boots, EnsureAdmin(b)
      PROVE  UNCHANGED login /\ sessions' \subseteq sessions /\ now' \in {now, now + 1}
  BY <1>6 DEF EnsureAdmin, BootFindsAdmin, BootPrepares, BootCreates, BootTooLate, BootFails
<1>7. ASSUME NEW c \in Changes, ChangeCredentials(c)
      PROVE  UNCHANGED login /\ sessions' \subseteq sessions /\ now' \in {now, now + 1}
  BY <1>7 DEF ChangeCredentials, VerifyEmailChange, VerifyPasswordChange, PrepareReset,
              StoreEmail, storePassword
<1>8. CASE Tick \/ UNCHANGED vars
  BY <1>4, <1>8 DEF Tick, vars
<1> QED
  BY <1>2, <1>3, <1>4, <1>5, <1>6, <1>7, <1>8 DEF Next, SignIn

Temporary == \E u \in users : u.mustChange

\* An account stays, and its temporary password does not come back.
LEMMA PasswordStaysChanged ==
  ASSUME TypeOK, [Next]_vars, users # {}
  PROVE  users' # {} /\ (Temporary' => Temporary)
<1>1. ASSUME NEW b \in Boots, EnsureAdmin(b)
      PROVE  UNCHANGED users
  BY <1>1 DEF EnsureAdmin, BootFindsAdmin, BootPrepares, BootCreates, BootTooLate, BootFails
<1>2. ASSUME NEW l \in Logins, RecordLogin(l)
      PROVE  users' # {} /\ (Temporary' => Temporary)
  <2>1. users' = {[u EXCEPT !.lastLogin = now] : u \in users}
    BY <1>2 DEF RecordLogin
  <2>2. \A v \in users' : \E u \in users : v.mustChange = u.mustChange
    BY <2>1 DEF TypeOK, Users
  <2> QED
    BY <2>1, <2>2 DEF Temporary
<1>3. ASSUME NEW l \in Logins, SignIn(l), ~RecordLogin(l)
      PROVE  UNCHANGED users
  BY <1>3 DEF SignIn, Authenticate, RegisterSession, RefuseSession, RevokeSession
<1>4. ASSUME NEW c \in Changes, StoreEmail(c)
      PROVE  users' # {} /\ (Temporary' => Temporary)
  <2>1. users' = {[u EXCEPT !.email = change[c].to.email] : u \in users}
    BY <1>4 DEF StoreEmail
  <2>2. \A v \in users' : \E u \in users : v.mustChange = u.mustChange
    BY <2>1 DEF TypeOK, Users
  <2> QED
    BY <2>1, <2>2 DEF Temporary
<1>5. ASSUME NEW c \in Changes, storePassword(c)
      PROVE  users' # {} /\ (Temporary' => Temporary)
  <2>1. users' = {WithPassword(u, change[c].to.hash) : u \in users}
    BY <1>5 DEF storePassword
  <2>2. \A v \in users' : v.mustChange = FALSE
    BY <2>1 DEF WithPassword
  <2> QED
    BY <2>1, <2>2 DEF Temporary
<1>6. ASSUME NEW c \in Changes, VerifyEmailChange(c) \/ VerifyPasswordChange(c) \/ PrepareReset(c)
      PROVE  UNCHANGED users
  BY <1>6 DEF VerifyEmailChange, VerifyPasswordChange, PrepareReset
<1>7. CASE UNCHANGED users
  BY <1>7 DEF Temporary
<1>8. CASE Tick \/ UNCHANGED vars
  BY <1>7, <1>8 DEF Tick, vars
<1> QED
  BY <1>1, <1>2, <1>3, <1>4, <1>5, <1>6, <1>7, <1>8 DEF Next, ChangeCredentials

(***************************************************************************)
(* The inductive invariant of the requests.                                *)
(***************************************************************************)
Accepted == {"session", "handler", "change", "store", "worked", "signed out", "changed"}

\* A request's token is one a sign-in registered; if its session is still
\* active, it was good on arrival.
TokenKnown(r) ==
  actor[r].pc # "start" =>
    /\ login[actor[r].token].pc = "registered"
    /\ IsSessionActive(actor[r].token) => actor[r].sound

Gated(r) ==
  /\ actor[r].pc \in Accepted => actor[r].sound
  /\ actor[r].pc \in {"session", "handler"} => users # {}
  /\ actor[r].pc = "handler" /\ actor[r].route = "work" => ~Temporary
  /\ actor[r].pc = "worked" => users # {} /\ ~Temporary

RequestInv == \A r \in Requests : TokenKnown(r) /\ Gated(r)

\* Whatever happens to the account and the sessions meanwhile.
LEMMA StandingRequest ==
  ASSUME TypeOK, ActorTypeOK, [Next]_vars, NEW r \in Requests,
         TokenKnown(r), Gated(r), actor'[r] = actor[r]
  PROVE  TokenKnown(r)' /\ Gated(r)'
<1>1. CASE actor[r].pc = "start"
  BY <1>1 DEF TokenKnown, Gated, Accepted
<1>2. CASE actor[r].pc # "start"
  <2>1. actor[r].token \in Logins
    BY <1>2, ActorTypes DEF Arrived
  <2>2. login[actor[r].token].pc = "registered"
    BY <1>2 DEF TokenKnown
  <2>3. /\ login'[actor[r].token].pc = "registered"
        /\ IsSessionActive(actor[r].token)' => IsSessionActive(actor[r].token)
    <3> DEFINE token == actor[r].token
    <3>1. token' = token
      OBVIOUS
    <3> HIDE DEF token
    <3>2. token \in Logins /\ login[token].pc = "registered"
      BY <2>1, <2>2 DEF token
    <3>3. PICK l \in Logins : l = token
      BY <3>2
    <3>4. login'[l].pc = "registered" /\ (IsSessionActive(l)' => IsSessionActive(l))
      BY <3>2, <3>3, NoResurrection
    <3>5. login'[token].pc = "registered" /\ (IsSessionActive(token)' => IsSessionActive(token))
      BY <3>1, <3>3, <3>4 DEF IsSessionActive
    <3> QED
      BY <3>5 DEF token, IsSessionActive
  <2>4. TokenKnown(r)'
    BY <1>2, <2>3 DEF TokenKnown, IsSessionActive
  <2>5. Gated(r)'
    BY PasswordStaysChanged DEF Gated
  <2> QED
    BY <2>4, <2>5
<1> QED
  BY <1>1, <1>2

\* The step of the request itself.
LEMMA ActingRequest ==
  ASSUME TypeOK, ActorTypeOK, SessionsMatchCredentials, [Next]_vars,
         NEW r \in Requests, TokenKnown(r), Gated(r), Request(r) \/ Change(r)
  PROVE  TokenKnown(r)' /\ Gated(r)'
<1>0. r \in Changes /\ actor \in [Changes -> Actors]
  BY ActorTypes, AdminSessionsAssumption
<1>1. CASE Arrive(r)
  <2>1. PICK l \in Logins, route \in PasswordSetup \cup Authenticated :
          /\ login[l].pc = "registered"
          /\ actor' = [actor EXCEPT ![r] = [pc |-> "arrived", token |-> l, route |-> route,
                                            email |-> NoEmail, sound |-> Sound(l)]]
    BY <1>1 DEF Arrive
  <2>2. IsSessionActive(l) => Sound(l)
    BY DEF SessionsMatchCredentials, Sound
  <2>3. actor'[r].pc = "arrived" /\ actor'[r].token = l /\ actor'[r].sound = Sound(l)
    BY <1>0, <2>1
  <2>4. UNCHANGED <<login, sessions, now>>
    BY <1>1 DEF Arrive, vars
  <2> QED
    BY <2>1, <2>2, <2>3, <2>4 DEF TokenKnown, Gated, Accepted, IsSessionActive
<1>2. CASE RequireSession(r)
  <2>1. UNCHANGED <<users, login, sessions, now>> /\ actor[r].pc = "arrived"
    BY <1>2 DEF RequireSession, vars
  <2>2. /\ actor'[r].token = actor[r].token /\ actor'[r].sound = actor[r].sound
        /\ \/ actor'[r].pc = "to login"
           \/ actor'[r].pc = "session" /\ users # {} /\ IsSessionActive(actor[r].token)
    <3>1. CASE Goto(r, "session") /\ users # {} /\ IsSessionActive(actor[r].token)
      BY <1>0, <3>1 DEF Goto, Actors
    <3>2. CASE Goto(r, "to login")
      BY <1>0, <3>2 DEF Goto, Actors
    <3> QED
      BY <1>2, <3>1, <3>2 DEF RequireSession
  <2>3. TokenKnown(r)'
    BY <2>1, <2>2 DEF TokenKnown, IsSessionActive
  <2>4. Gated(r)'
    BY <2>1, <2>2 DEF Gated, TokenKnown, Accepted
  <2> QED
    BY <2>3, <2>4
<1>3. CASE RequirePasswordChanged(r)
  <2>1. UNCHANGED <<users, login, sessions, now>> /\ actor[r].pc = "session"
    BY <1>3 DEF RequirePasswordChanged, vars
  <2>2. /\ actor'[r].token = actor[r].token /\ actor'[r].sound = actor[r].sound
        /\ actor'[r].route = actor[r].route
        /\ \/ actor'[r].pc = "to settings"
           \/ actor'[r].pc = "handler" /\ (actor[r].route = "work" => ~Temporary)
    BY <1>0, <1>3 DEF RequirePasswordChanged, Goto, Actors, PasswordSetup, Temporary
  <2>3. TokenKnown(r)'
    BY <2>1, <2>2 DEF TokenKnown, IsSessionActive
  <2>4. Gated(r)'
    BY <2>1, <2>2 DEF Gated, Accepted, Temporary
  <2> QED
    BY <2>3, <2>4
<1>4. CASE Work(r)
  <2>1. UNCHANGED <<users, login, sessions, now>>
        /\ actor[r].pc = "handler" /\ actor[r].route = "work"
    BY <1>4 DEF Work, vars
  <2>2. actor'[r].token = actor[r].token /\ actor'[r].sound = actor[r].sound
        /\ actor'[r].pc = "worked"
    BY <1>0, <1>4 DEF Work, Goto, Actors
  <2>3. TokenKnown(r)'
    BY <2>1, <2>2 DEF TokenKnown, IsSessionActive
  <2>4. Gated(r)'
    BY <2>1, <2>2 DEF Gated, Accepted, Temporary
  <2> QED
    BY <2>3, <2>4
<1>5. CASE ShowSettings(r) \/ AdminLogout(r) \/ currentUser(r) \/ Change(r)
  <2>1. /\ actor[r].pc \in {"handler", "change", "store"}
        /\ actor'[r].pc \notin {"start", "session", "handler", "worked"}
        /\ actor'[r].token = actor[r].token /\ actor'[r].sound = actor[r].sound
    BY <1>0, <1>5 DEF ShowSettings, AdminLogout, currentUser, Change, NoSuchAccount, PassChecks,
                 StoreChange, Goto, Actors
  <2>2. actor[r].token \in Logins /\ login[actor[r].token].pc = "registered" /\ actor[r].sound
    BY <2>1, ActorTypes DEF Arrived, TokenKnown, Gated, Accepted
  <2>3. login'[actor[r].token].pc = "registered"
    BY <2>2, NoResurrection
  <2> QED
    BY <2>1, <2>2, <2>3 DEF TokenKnown, Gated
<1> QED
  BY <1>1, <1>2, <1>3, <1>4, <1>5 DEF Request

LEMMA NextRequestInv ==
  ASSUME TypeOK, ActorTypeOK, SessionsMatchCredentials, RequestInv, [AdminNext]_adminVars
  PROVE  RequestInv'
<1>0. [Next]_vars
  BY AdminStepSimulates
<1> SUFFICES ASSUME NEW r \in Requests
             PROVE  TokenKnown(r)' /\ Gated(r)'
  BY DEF RequestInv
<1>1. TokenKnown(r) /\ Gated(r)
  BY DEF RequestInv
<1>2. CASE Request(r) \/ Change(r)
  BY <1>0, <1>1, <1>2, ActingRequest
<1>3. CASE ~Request(r) /\ ~Change(r)
  <2>1. actor'[r] = actor[r]
    <3>1. r \in Changes /\ r \notin Commands
      BY AdminSessionsAssumption DEF Commands
    <3>2. ASSUME NEW q \in Requests, Request(q), q # r
          PROVE  actor'[r] = actor[r]
      BY <3>1, <3>2 DEF Request, Arrive, RequireSession, RequirePasswordChanged, Work,
           ShowSettings, AdminLogout, currentUser, Goto, ActorTypeOK
    <3>3. ASSUME NEW c \in Commands, GetAdmin(c)
          PROVE  actor'[r] = actor[r]
      BY <3>1, <3>3 DEF GetAdmin, ActorTypeOK
    <3>4. ASSUME NEW a \in Changes, Change(a), a # r
          PROVE  actor'[r] = actor[r]
      BY <3>1, <3>4 DEF Change, NoSuchAccount, PassChecks, StoreChange, Goto, ActorTypeOK
    <3>5. CASE UNCHANGED actor
      BY <3>5
    <3> QED
      BY <1>3, <3>2, <3>3, <3>4, <3>5 DEF AdminNext, adminVars
  <2> QED
    BY <1>0, <1>1, <2>1, StandingRequest
<1> QED
  BY <1>2, <1>3

LEMMA AdminRequestInv == AdminSpec => []RequestInv
<1>1. AdminInit => RequestInv
  <2> SUFFICES ASSUME AdminInit, NEW r \in Requests
               PROVE  TokenKnown(r) /\ Gated(r)
    BY DEF RequestInv
  <2>1. actor[r].pc = "start"
    BY AdminSessionsAssumption DEF AdminInit, Fresh
  <2> QED
    BY <2>1 DEF TokenKnown, Gated, Accepted
<1>2. TypeOK /\ ActorTypeOK /\ SessionsMatchCredentials /\ RequestInv /\ [AdminNext]_adminVars
        => RequestInv'
  BY NextRequestInv
<1> QED
  BY <1>1, <1>2, AdminTypes, AdminActorTypes, AdministrationSessionsMatch, PTL DEF AdminSpec

\* A request with a token that was ended, or whose credentials were replaced,
\* before it arrived gets past no question (RequireSession).
THEOREM AdministrationStaleTokens == AdminSpec => []StaleTokensPowerless
<1>1. RequestInv => StaleTokensPowerless
  BY DEF RequestInv, Gated, StaleTokensPowerless, Accepted
<1> QED
  BY <1>1, AdminRequestInv, PTL

\* Work is done with a password of the operator's own only (RequirePasswordChanged).
THEOREM AdministrationPasswordGate == AdminSpec => []TemporaryPasswordGate
<1>1. RequestInv => TemporaryPasswordGate
  BY DEF RequestInv, Gated, TemporaryPasswordGate, Temporary
<1> QED
  BY <1>1, AdminRequestInv, PTL
=============================================================================
