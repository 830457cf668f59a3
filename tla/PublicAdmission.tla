-------------------------- MODULE PublicAdmission --------------------------
(***************************************************************************)
(* What a public submission passes on its way: the two rate limiters with  *)
(* their storage, the checks of PublicFormSubmission, the verification of  *)
(* its captcha token over an unreliable network, and the transaction that  *)
(* stores it, while an administrator edits or deletes the form and the     *)
(* server shuts down.                                                      *)
(*                                                                         *)
(* A host is the sequence of its labels, a redirect target a host, a path, *)
(* nothing or something that is none of these.  Fiber's limiter and        *)
(* Turnstile are external: the limiter counts in fixed windows, under a    *)
(* lock of its own; Turnstile accepts a token once, or again under the     *)
(* idempotency key it was accepted with.                                   *)
(***************************************************************************)
EXTENDS Integers, Sequences, FiniteSetsExt, SequencesExt, Functions

CONSTANTS
  Requests,
  Inputs,         \* what each request may bring
  Tokens,         \* captcha tokens
  Verdict,        \* what Turnstile would say of each token
  Settings,       \* settings of the form
  GlobalLimit, ClientLimit,
  Expiration, SweepInterval, attempts,
  MaxTime, MaxEdits, MaxFaults  \* bounds

ASSUME AdmissionAssumption ==
  /\ {GlobalLimit, ClientLimit, Expiration, SweepInterval, attempts} \subseteq Nat \ {0}
  /\ {MaxTime, MaxEdits, MaxFaults} \subseteq Nat

VARIABLES
  now,
  form,       \* the settings of the form, or NoForm
  request,    \* each request: step, input, the form as loaded, attempt, answer
  entries,    \* per limiter: its storage
  nextSweep,  \* per limiter: when its storage is swept again
  spent,      \* per token: the idempotency key it was accepted under
  rows,       \* requests with a stored submission
  closing,    \* the contexts of requests are cancelled
  edits, faults,
  abandoned,  \* ghost: requests whose verification ended with a call that has no
              \* verdict and is not repeated
  passed,     \* ghost: which limiter let which request pass, and when
  lastWrite   \* ghost: the last write to each storage

limiterVars == <<entries, nextSweep, passed, lastWrite>>
vars == <<now, form, request, spent, rows, closing, edits, faults, abandoned, limiterVars>>

NoForm == [origins |-> {}, captcha |-> FALSE, uploads |-> FALSE, live |-> FALSE]
NoHost == << >>
AnyHost == <<"*">>
Nowhere == [kind |-> "none", host |-> NoHost]
Refused == [kind |-> "refused", host |-> NoHost]
NoKey == << >>
NoToken == "missing"
NoAnswer == [ok |-> FALSE, status |-> "none", to |-> Nowhere]
TooMany == [ok |-> FALSE, status |-> "429", to |-> Nowhere]
Limiters == {"global", "client"}
Hosts == Seq(STRING)
Targets == [kind : {"none", "path", "url", "odd", "refused"}, host : Hosts]

\* A star in the list of origins replaces the list (normalizeAllowedOrigins);
\* the key of a client is an address.
ASSUME AdmissionData ==
  /\ NoToken \notin Tokens
  /\ Verdict \in [Tokens -> [valid : BOOLEAN, action : STRING, host : Hosts]]
  /\ \A f \in Settings :
       /\ f \in [origins : SUBSET Hosts, captcha : BOOLEAN, uploads : BOOLEAN, live : {TRUE}]
       /\ AnyHost \in f.origins => f.origins = {AnyHost}
  /\ \A r \in Requests : \A in \in Inputs[r] :
       /\ in \in [client : STRING, origin : Hosts, token : BOOLEAN, body : STRING,
                 captcha : Tokens \cup {NoToken}, success : Targets, failure : Targets]
       /\ in.client # "all"

Init ==
  /\ now = 0
  /\ form \in Settings
  /\ request = [r \in Requests |-> [step |-> "none", attempt |-> 0, answer |-> NoAnswer]]
  /\ entries = [l \in Limiters |-> << >>]
  /\ nextSweep = [l \in Limiters |-> 0]
  /\ spent = [t \in Tokens |-> NoKey]
  /\ rows = {}
  /\ closing = FALSE
  /\ edits = 0 /\ faults = 0
  /\ abandoned = {}
  /\ passed = {}
  /\ lastWrite = [l \in Limiters |-> 0]

Answered(r) == request[r].step = "answered"
Fault == faults < MaxFaults /\ faults' = faults + 1

\* request' when r goes on to a step, or is answered.
Goto(r, step) == request' = [request EXCEPT ![r].step = step]
Answer(r, ok, status, to) ==
  request' = [request EXCEPT ![r].step = "answered",
                ![r].answer = [ok |-> ok, status |-> status, to |-> to]]

(***************************************************************************)
(* The storage of a limiter, and the limiter.                              *)
(***************************************************************************)
Keep(stored, Test(_)) == [k \in {x \in DOMAIN stored : Test(stored[x])} |-> stored[k]]

\* Mutant: an entry expires a moment too early.
Unexpired_Early(entry) == now + 1 < entry.expiresAt

Unexpired(entry) == now < entry.expiresAt

\* Get forgets an expired entry.
Get(stored, key) ==
  IF key \in DOMAIN stored /\ ~Unexpired(stored[key])
  THEN [k \in DOMAIN stored \ {key} |-> stored[k]] ELSE stored

\* Mutant: expired entries are only forgotten when their key is looked up.
sweepExpired_Never(l, stored) == stored

sweepExpired(l, stored) ==
  IF now < nextSweep[l] THEN stored ELSE Keep(stored, Unexpired)

NextSweep(l) == IF now < nextSweep[l] THEN nextSweep[l] ELSE now + SweepInterval

\* One request in Fiber's fixed window, which starts with its first request:
\* what is counted and how long, with the storage after Get.
Count(l, key) ==
  LET stored == Get(entries[l], key)
      open == key \in DOMAIN stored /\ now < stored[key].ends
  IN  [hits   |-> IF open THEN stored[key].hits + 1 ELSE 1,
       ends   |-> IF open THEN stored[key].ends ELSE now + Expiration,
       stored |-> stored]

\* The storage of a limiter after Set, which sweeps when that is due.
Set(l, key) ==
  LET kept == sweepExpired(l, Count(l, key).stored)
  IN  [k \in DOMAIN kept \cup {key} |->
         IF k = key THEN [hits |-> Count(l, key).hits, ends |-> Count(l, key).ends,
                          expiresAt |-> now + Expiration]
         ELSE kept[k]]

Written(limiters) ==
  /\ nextSweep' = [l \in Limiters |-> IF l \in limiters THEN NextSweep(l) ELSE nextSweep[l]]
  /\ lastWrite' = [l \in Limiters |-> IF l \in limiters THEN now ELSE lastWrite[l]]

\* A request meets the limit of all and then that of its client.
Arrive(r) ==
  \E input \in Inputs[r] :
    LET client == input.client
        Now(step, answer) == [step |-> step, attempt |-> 0, answer |-> answer, input |-> input]
        arrived == Now("admitted", NoAnswer)
        refused == Now("answered", TooMany)
        crowded == Count("global", "all").hits > GlobalLimit
        busy == Count("client", client).hits > ClientLimit
        Pass(key) == [key |-> key, request |-> r, at |-> now]
    IN  /\ request[r].step = "none"
        /\ request' = [request EXCEPT ![r] = IF crowded \/ busy THEN refused ELSE arrived]
        /\ entries' = [entries EXCEPT !["global"] = Set("global", "all"),
                         !["client"] = IF crowded THEN @ ELSE Set("client", client)]
        /\ Written(IF crowded THEN {"global"} ELSE Limiters)
        /\ passed' = passed \cup {Pass(k) : k \in (IF crowded THEN {} ELSE {"all"})
                                               \cup (IF crowded \/ busy THEN {} ELSE {client})}
        /\ UNCHANGED <<now, form, spent, rows, closing, edits, faults, abandoned>>

(***************************************************************************)
(* Origins and redirects.                                                  *)
(***************************************************************************)
originMatches(host, entry) == entry = AnyHost \/ IsSuffix(entry, host)

IsOriginAllowed(f, host) ==
  \/ AnyHost \in f.origins
  \/ host # NoHost /\ \E entry \in f.origins : originMatches(host, entry)

\* An absolute target is a host of the list, which is not just the star.
ValidateRedirectURL(f, target) ==
  \/ target.kind \in {"none", "path"}
  \/ /\ target.kind = "url"
     /\ f.origins # {AnyHost} /\ IsOriginAllowed(f, target.host)

\* A relative target is resolved against the origin of the request.
resolvedRedirect(f, target, origin) ==
  IF ~ValidateRedirectURL(f, target) THEN Refused ELSE
  IF target.kind # "path" THEN target ELSE
  IF origin # NoHost /\ IsOriginAllowed(f, origin) THEN [kind |-> "url", host |-> origin] ELSE Refused

(***************************************************************************)
(* PublicFormSubmission up to the captcha: one read of the database.       *)
(***************************************************************************)
Success(f, in) == resolvedRedirect(f, in.success, in.origin)
Failure(f, in) == resolvedRedirect(f, in.failure, in.origin)
\* redirectOrJSON
Refuse(r, status) == Answer(r, FALSE, status, Failure(request[r].form, request[r].input))

LoadForm(r) ==
  LET in == request[r].input
  IN  /\ request[r].step = "admitted"
      /\ \/ closing /\ Answer(r, FALSE, "500", Nowhere)
         \/ ~closing /\ ~form.live /\ Answer(r, FALSE, "404", Nowhere)
         \/ ~closing /\ form.live /\ ~in.token /\ Answer(r, FALSE, "401", Nowhere)
         \/ ~closing /\ form.live /\ in.token /\ ~IsOriginAllowed(form, in.origin)
              /\ Answer(r, FALSE, "403", Nowhere)
         \/ ~closing /\ form.live /\ in.token /\ IsOriginAllowed(form, in.origin)
              /\ request' = [request EXCEPT ![r] = [step |-> "loaded", attempt |-> 0,
                               answer |-> NoAnswer, input |-> in, form |-> form]]
      /\ UNCHANGED <<now, form, spent, rows, closing, edits, faults, abandoned, limiterVars>>

\* Whether the body can be read: well formed, within the limits on bytes and
\* fields, and not empty.
extractSubmissionPayload(in) == in.body # "invalid"

\* Whether there is a token in one of the two fields for it.
extractCaptchaToken(in) == in.captcha # NoToken

\* Whether the files, if there are any, may be uploaded.
uploadedFiles(f, in) == in.body = "file" => f.uploads

\* The body, the two redirects, and the presence of a token.
CheckInput(r) ==
  LET in == request[r].input
      f == request[r].form
  IN  /\ request[r].step = "loaded"
      /\ IF Failure(f, in) = Refused \/ (extractSubmissionPayload(in) /\ Success(f, in) = Refused)
         THEN Answer(r, FALSE, "400", Nowhere)
         ELSE IF ~extractSubmissionPayload(in) THEN Refuse(r, "400")
         ELSE IF ~f.captcha THEN Goto(r, "verified")
         ELSE IF ~extractCaptchaToken(in) THEN Refuse(r, "captcha")
         ELSE Goto(r, "verifying")
      /\ UNCHANGED <<now, form, spent, rows, closing, edits, faults, abandoned, limiterVars>>

(***************************************************************************)
(* The verification of a token.                                            *)
(***************************************************************************)

\* Mutant: every attempt has a key of its own.
IdempotencyKey_PerAttempt(r) == <<r, request[r].attempt>>

\* Mutant: all verifications have one key.
IdempotencyKey_Shared(r) == <<"shared">>

\* One key for all attempts of a verification.
IdempotencyKey(r) == <<r>>

TurnstileAccepts(r) ==
  LET t == request[r].input.captcha
  IN  Verdict[t].valid /\ spent[t] \in {NoKey, IdempotencyKey(r)}

\* turnstileResultFailure looks at the action and the host.
ResultFits(f, verdict) ==
  /\ verdict.action = "submit" /\ verdict.host # NoHost
  /\ f.origins = {AnyHost} \/ IsOriginAllowed(f, verdict.host)

Spend(r) ==
  LET t == request[r].input.captcha
  IN  spent' = IF TurnstileAccepts(r) THEN [spent EXCEPT ![t] = IdempotencyKey(r)] ELSE spent

\* An answer of Turnstile arrives and is final.
Verify(r) ==
  /\ request[r].step = "verifying" /\ ~closing
  /\ Spend(r)
  /\ IF TurnstileAccepts(r) /\ ResultFits(request[r].form, Verdict[request[r].input.captcha])
     THEN Goto(r, "verified") ELSE Refuse(r, "captcha")
  /\ UNCHANGED <<now, form, rows, closing, edits, faults, abandoned, limiterVars>>

\* Mutant: a service that cannot be reached lets everything pass.
VerifyAgain_FailsOpen(r) ==
  IF request[r].attempt + 1 < attempts
  THEN request' = [request EXCEPT ![r].attempt = @ + 1]
  ELSE Goto(r, "verified")

\* After a failure that may pass there are further attempts, but not without end.
VerifyAgain(r) ==
  IF request[r].attempt + 1 < attempts
  THEN request' = [request EXCEPT ![r].attempt = @ + 1]
  ELSE Refuse(r, "503")

\* The call or its answer is lost, the client gives up on it (also while it reads
\* the body), or the service fails.
VerifyLost(r) ==
  /\ request[r].step = "verifying" /\ ~closing
  /\ Fault
  /\ Spend(r) \/ UNCHANGED spent
  /\ VerifyAgain(r)
  /\ UNCHANGED <<now, form, rows, closing, edits, abandoned, limiterVars>>

\* The verification ends without a verdict and without a further attempt: the
\* context is cancelled, the call itself is refused (a status of the 300s or
\* 400s), or the body of the answer is cut off.  The visitor is told the same as
\* with a wrong token.
VerifyAborted(r) ==
  /\ request[r].step = "verifying"
  /\ \/ closing /\ UNCHANGED faults
     \/ ~closing /\ Fault
  /\ Refuse(r, "captcha")
  /\ abandoned' = abandoned \cup {r}
  /\ Spend(r) \/ UNCHANGED spent
  /\ UNCHANGED <<now, form, rows, closing, edits, limiterVars>>

(***************************************************************************)
(* uploadedFiles and CreateSubmissionWithLimits.                           *)
(***************************************************************************)

\* Mutant: the honeypot is answered and not stored.
Stored_NoSpam(r) == IF request[r].input.body = "honeypot" THEN rows ELSE rows \cup {r}

\* A honeypot stores a row as well, marked as spam.
Stored(r) == rows \cup {r}

CreateSubmission(r) ==
  LET in == request[r].input
      f == request[r].form
  IN  /\ request[r].step = "verified"
      /\ \/ ~uploadedFiles(f, in) /\ Refuse(r, "400") /\ UNCHANGED <<rows, faults>>
         \* Nothing is left without the fields the handler consumes.
         \/ in.body = "reserved" /\ Refuse(r, "400") /\ UNCHANGED <<rows, faults>>
         \/ /\ in.body # "reserved" /\ uploadedFiles(f, in)
            /\ \/ ~closing /\ form.live /\ rows' = Stored(r)
                   /\ Answer(r, TRUE, "200", Success(f, in)) /\ UNCHANGED faults
               \/ (closing \/ ~form.live) /\ Refuse(r, "500") /\ UNCHANGED <<rows, faults>>
               \* The quota of uploads, a failing disk or database.
               \/ in.body = "file" /\ Fault /\ Refuse(r, "507") /\ UNCHANGED rows
               \/ Fault /\ Refuse(r, "500") /\ UNCHANGED rows
      /\ UNCHANGED <<now, form, spent, closing, edits, abandoned, limiterVars>>

(***************************************************************************)
(* The surroundings.                                                       *)
(***************************************************************************)
EditForm ==
  /\ form.live /\ edits < MaxEdits /\ edits' = edits + 1
  /\ form' \in (Settings \cup {NoForm}) \ {form}
  /\ UNCHANGED <<now, request, spent, rows, closing, faults, abandoned, limiterVars>>

CancelRequests ==
  /\ ~closing /\ closing' = TRUE
  /\ UNCHANGED <<now, form, request, spent, rows, edits, faults, abandoned, limiterVars>>

Tick ==
  /\ now < MaxTime /\ now' = now + 1
  /\ UNCHANGED <<form, request, spent, rows, closing, edits, faults, abandoned, limiterVars>>

Next ==
  \/ \E r \in Requests :
       \/ Arrive(r) \/ LoadForm(r) \/ CheckInput(r)
       \/ Verify(r) \/ VerifyLost(r) \/ VerifyAborted(r) \/ CreateSubmission(r)
  \/ EditForm \/ CancelRequests \/ Tick

Spec == Init /\ [][Next]_vars

(***************************************************************************)
(* Properties.                                                             *)
(***************************************************************************)
TypeOK ==
  /\ now \in 0 .. MaxTime
  /\ form \in Settings \cup {NoForm}
  /\ \A r \in Requests :
       /\ request[r].step \in {"none", "admitted", "loaded", "verifying", "verified",
                               "answered"}
       /\ request[r].attempt \in 0 .. attempts - 1
       /\ request[r].answer.status \in {"none", "200", "400", "401", "403", "404", "429",
                                        "500", "503", "507", "captcha"}
  /\ \A l \in Limiters : \A k \in DOMAIN entries[l] :
       entries[l][k].hits \in Nat \ {0} /\ entries[l][k].ends <= entries[l][k].expiresAt
  /\ \A t \in Tokens : spent[t] # NoKey => Verdict[t].valid
  /\ rows \subseteq Requests /\ abandoned \subseteq Requests

\* A submitter is told that a submission arrived exactly when it is stored,
\* as a submission or as spam (public.go:80-95): an error after the row, or a
\* success page without one, makes people send again or lose what they sent.
AnswersAreTrue == \A r \in Requests : Answered(r) => (request[r].answer.ok <=> r \in rows)

\* "assigning the profile to a form enables mandatory server-side validation"
\* (docs/cli.md:301): what was stored under a captcha had the consent of
\* Turnstile for its own verification, for a host of the form as it was loaded.
StoredOnlyVerified ==
  \A r \in rows : request[r].form.captcha =>
    LET t == request[r].input.captcha
    IN  /\ t \in Tokens /\ spent[t] = IdempotencyKey(r)
        /\ ResultFits(request[r].form, Verdict[t])

\* One solved challenge admits one submission, though a verification may be
\* repeated and requests may bring the same token (turnstile.go:52).
OneRowPerToken ==
  \A q, r \in rows : q # r /\ request[q].form.captcha /\ request[r].form.captcha =>
    request[q].input.captcha # request[r].input.captcha

\* Repeating a verification harms nobody: a good token that no other request
\* used is not called wrong because an earlier attempt spent it and its answer
\* was lost (turnstile.go:67-84).  It says nothing of a verification that ends
\* with a call the code does not repeat, as when the context is cancelled, the
\* status is not one of the 500s or the body of the answer is cut off
\* (turnstile.go:72, 80, 105, 110): that one is answered like a wrong token
\* (public.go:295-313), good or not.
RepetitionHarmless ==
  \A r \in Requests \ abandoned : Answered(r) /\ request[r].answer.status = "captcha" =>
    LET t == request[r].input.captcha
    IN  \/ t = NoToken
        \/ ~Verdict[t].valid \/ ~ResultFits(request[r].form, Verdict[t])
        \/ \E q \in Requests \ {r} : request[q].step # "none" /\ request[q].input.captcha = t

\* Nobody is sent anywhere but to the site the request came from or to a host
\* the operator listed by name (origins.go:40, public.go:246), whatever the
\* outcome is that redirects.
RedirectsStayHome ==
  \A r \in Requests : Answered(r) /\ request[r].answer.to.kind # "none" =>
    LET to == request[r].answer.to
        f == request[r].form
    IN  /\ to.kind = "url"
        /\ \/ to.host = request[r].input.origin /\ IsOriginAllowed(f, to.host)
           \/ \E entry \in f.origins \ {AnyHost} : IsSuffix(entry, to.host)

\* Expiring and sweeping entries never resets a window that is still open: in
\* less than one window's time a key passes at most the rest of one window and
\* the start of the next (rate_limit_storage.go:35, 83).
RateHolds ==
  \A p \in passed :
    LET max == IF p.key = "all" THEN GlobalLimit ELSE ClientLimit
        near == {q \in passed : q.key = p.key /\ q.at >= p.at /\ q.at < p.at + Expiration}
    IN  Cardinality(near) <= 2 * max - 1

\* The storage does not grow with clients that have gone: an entry is gone
\* with the first write a sweep interval after it expired, however the writes
\* are spaced (rate_limit_storage.go:84).
SweptInTime ==
  \A l \in Limiters : \A k \in DOMAIN entries[l] :
    lastWrite[l] < entries[l][k].expiresAt + SweepInterval

\* Types (also, the attempts of a verification are bounded), where redirects
\* lead, and the size of the limiters' storage.
Inv == TypeOK /\ RedirectsStayHome /\ SweptInTime
=============================================================================
