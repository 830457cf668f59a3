----------------------- MODULE PublicAdmissionProofs -----------------------
(***************************************************************************)
(* Proofs about PublicAdmission, for any number of requests, any inputs,   *)
(* tokens and settings, and any limits.                                    *)
(***************************************************************************)
EXTENDS PublicAdmission, FiniteSetTheorems, TLAPS

(***************************************************************************)
(* Types.                                                                  *)
(***************************************************************************)
Statuses == {"none", "200", "400", "401", "403", "404", "429", "500", "503", "507",
             "captcha"}
Answers == [ok : BOOLEAN, status : Statuses, to : Targets]

\* A request before it arrives, before the form is loaded, and with its form.
Fresh == [step : {"none"}, attempt : {0}, answer : {NoAnswer}]
Arrived(r) == [step : {"admitted", "answered"}, attempt : 0 .. attempts - 1,
               answer : Answers, input : Inputs[r]]
Loaded(r) == [step : {"loaded", "verifying", "verified", "answered"},
              attempt : 0 .. attempts - 1, answer : Answers, input : Inputs[r], form : Settings]

RequestsTyped ==
  /\ request = [r \in Requests |-> request[r]]
  /\ \A r \in Requests : request[r] \in Fresh \cup Arrived(r) \cup Loaded(r)

SubmissionTyped ==
  /\ form \in Settings \cup {NoForm}
  /\ RequestsTyped
  /\ spent \in [Tokens -> {NoKey} \cup {<<r>> : r \in Requests}]
  /\ \A t \in Tokens : spent[t] # NoKey => Verdict[t].valid
  /\ rows \subseteq Requests /\ abandoned \subseteq Requests

LEMMA Constants ==
  /\ attempts \in Nat /\ attempts > 0
  /\ NoAnswer \in Answers
  /\ NoHost \in Hosts /\ Refused \in Targets /\ Nowhere \in Targets
BY AdmissionAssumption DEF NoAnswer, Answers, Statuses, Hosts, NoHost, Refused, Nowhere, Targets

LEMMA InputTyped ==
  ASSUME NEW r \in Requests, NEW in \in Inputs[r]
  PROVE  /\ in.captcha \in Tokens \cup {NoToken}
         /\ in.origin \in Hosts /\ in.success \in Targets /\ in.failure \in Targets
         /\ in.client # "all"
BY AdmissionData

\* Where a redirect leads.
LEMMA RedirectTyped ==
  ASSUME NEW r \in Requests, NEW in \in Inputs[r], NEW f
  PROVE  Success(f, in) \in Targets /\ Failure(f, in) \in Targets
<1>1. ASSUME NEW target \in Targets
      PROVE  resolvedRedirect(f, target, in.origin) \in Targets
  <2>1. [kind |-> "url", host |-> in.origin] \in Targets
    BY InputTyped DEF Targets
  <2> QED
    BY <1>1, <2>1, Constants DEF resolvedRedirect
<1> QED
  BY <1>1, InputTyped DEF Success, Failure

\* A form that is live is one of the settings.
LEMMA LiveForm ==
  ASSUME form \in Settings \cup {NoForm}, form.live
  PROVE  form \in Settings
BY DEF NoForm

\* The fields of a request after a step of it.
LEMMA Going ==
  ASSUME RequestsTyped, NEW r \in Requests, request[r] \in Loaded(r), NEW step, Goto(r, step)
  PROVE  /\ request'[r].step = step
         /\ request'[r].attempt = request[r].attempt /\ request'[r].answer = request[r].answer
         /\ request'[r].input = request[r].input /\ request'[r].form = request[r].form
         /\ request'[r] = [step |-> step, attempt |-> request[r].attempt,
                           answer |-> request[r].answer, input |-> request[r].input,
                           form |-> request[r].form]
         /\ \A q \in Requests \ {r} : request'[q] = request[q]
         /\ request' = [q \in Requests |-> request'[q]]
BY DEF RequestsTyped, Loaded, Goto

LEMMA Answering ==
  ASSUME RequestsTyped, NEW r \in Requests, NEW ok, NEW status, NEW to,
         request[r] \in Loaded(r), Answer(r, ok, status, to)
  PROVE  /\ request'[r] = [step |-> "answered", attempt |-> request[r].attempt,
                           answer |-> [ok |-> ok, status |-> status, to |-> to],
                           input |-> request[r].input, form |-> request[r].form]
         /\ \A q \in Requests \ {r} : request'[q] = request[q]
         /\ request' = [q \in Requests |-> request'[q]]
BY DEF RequestsTyped, Loaded, Answer

\* A step of one request.
Moves(r) ==
  /\ request' = [q \in Requests |-> request'[q]]
  /\ \A q \in Requests \ {r} : request'[q] = request[q]

LEMMA OneRequest ==
  ASSUME RequestsTyped, NEW r \in Requests, Moves(r), request'[r] \in Arrived(r) \cup Loaded(r)
  PROVE  RequestsTyped'
BY DEF RequestsTyped, Moves, Fresh, Arrived, Loaded

LEMMA AnsweringEarly ==
  ASSUME RequestsTyped, NEW r \in Requests, NEW status \in Statuses,
         request[r] \in Arrived(r), Answer(r, FALSE, status, Nowhere)
  PROVE  /\ Moves(r) /\ request'[r] \in Arrived(r) /\ request'[r].step = "answered"
         /\ request'[r].answer = [ok |-> FALSE, status |-> status, to |-> Nowhere]
         /\ request'[r].input = request[r].input
<1>1. [ok |-> FALSE, status |-> status, to |-> Nowhere] \in Answers
  BY Constants DEF Answers
<1>2. /\ request'[r] = [step |-> "answered", attempt |-> request[r].attempt,
                        answer |-> [ok |-> FALSE, status |-> status, to |-> Nowhere],
                        input |-> request[r].input]
      /\ Moves(r)
  BY DEF RequestsTyped, Arrived, Answer, Moves
<1>3. request[r].attempt \in 0 .. attempts - 1 /\ request[r].input \in Inputs[r]
  BY DEF Arrived
<1>4. request'[r] \in Arrived(r)
  BY <1>1, <1>2, <1>3 DEF Arrived
<1> QED
  BY <1>2, <1>4

\* Where the steps of a request take it, from which step, with which input.
LEMMA ArriveMoves ==
  ASSUME RequestsTyped, NEW r \in Requests, Arrive(r)
  PROVE  /\ Moves(r) /\ request[r].step = "none"
         /\ request'[r] \in Arrived(r)
         /\ ~request'[r].answer.ok /\ request'[r].answer.to = Nowhere
         /\ request'[r].answer.status \in {"none", "429"}
<1>1. PICK in \in Inputs[r] :
        \/ request' = [request EXCEPT ![r] = [step |-> "admitted", attempt |-> 0,
                                              answer |-> NoAnswer, input |-> in]]
        \/ request' = [request EXCEPT ![r] = [step |-> "answered", attempt |-> 0,
                                              answer |-> TooMany, input |-> in]]
  BY DEF Arrive
<1>2. request'[r] \in {[step |-> "admitted", attempt |-> 0, answer |-> NoAnswer, input |-> in],
                       [step |-> "answered", attempt |-> 0, answer |-> TooMany, input |-> in]}
  BY <1>1 DEF RequestsTyped
<1>3. /\ NoAnswer \in Answers /\ TooMany \in Answers
      /\ 0 \in 0 .. attempts - 1
  BY Constants DEF Answers, Statuses, TooMany
<1>4. request'[r] \in Arrived(r)
  BY <1>2, <1>3 DEF Arrived
<1>5. Moves(r)
  BY <1>1 DEF RequestsTyped, Moves
<1>6. request[r].step = "none"
  BY DEF Arrive
<1>7. request'[r].answer \in {NoAnswer, TooMany}
  BY <1>2
<1> QED
  BY <1>4, <1>5, <1>6, <1>7 DEF NoAnswer, TooMany

LEMMA LoadFormMoves ==
  ASSUME RequestsTyped, form \in Settings \cup {NoForm}, NEW r \in Requests, LoadForm(r)
  PROVE  /\ Moves(r) /\ request[r] \in Arrived(r) /\ request[r].step = "admitted"
         /\ request'[r].input = request[r].input
         /\ \/ /\ request'[r] \in Arrived(r) /\ request'[r].step = "answered"
               /\ ~request'[r].answer.ok /\ request'[r].answer.to = Nowhere
               /\ request'[r].answer.status \in {"401", "403", "404", "500"}
            \/ request'[r] \in Loaded(r) /\ request'[r].step = "loaded"
<1>1. request[r] \in Arrived(r) /\ request[r].step = "admitted"
  BY DEF LoadForm, RequestsTyped, Fresh, Loaded
<1>2. ASSUME NEW status \in {"401", "403", "404", "500"}, Answer(r, FALSE, status, Nowhere)
      PROVE  /\ Moves(r) /\ request'[r] \in Arrived(r) /\ request'[r].step = "answered"
             /\ ~request'[r].answer.ok /\ request'[r].answer.to = Nowhere
             /\ request'[r].answer.status = status
             /\ request'[r].input = request[r].input
  <2>1. status \in Statuses
    BY DEF Statuses
  <2>2. request'[r].answer = [ok |-> FALSE, status |-> status, to |-> Nowhere]
    BY <1>1, <1>2, <2>1, AnsweringEarly
  <2>3. /\ Moves(r) /\ request'[r] \in Arrived(r) /\ request'[r].step = "answered"
        /\ request'[r].input = request[r].input
    BY <1>1, <1>2, <2>1, AnsweringEarly
  <2>4. /\ ~request'[r].answer.ok /\ request'[r].answer.to = Nowhere
        /\ request'[r].answer.status = status
    BY <2>2
  <2> QED
    BY <2>3, <2>4
<1>3. CASE request' = [request EXCEPT ![r] = [step |-> "loaded", attempt |-> 0, answer |-> NoAnswer,
                         input |-> request[r].input, form |-> form]] /\ form.live
  <2>1. request'[r] = [step |-> "loaded", attempt |-> 0, answer |-> NoAnswer,
                       input |-> request[r].input, form |-> form]
    BY <1>3 DEF RequestsTyped
  <2>2. request[r].input \in Inputs[r]
    BY <1>1 DEF Arrived
  <2>3. request'[r] \in Loaded(r)
    BY <1>3, <2>1, <2>2, LiveForm, Constants DEF Loaded
  <2>4. Moves(r)
    BY <1>3 DEF RequestsTyped, Moves
  <2> QED
    BY <1>1, <2>1, <2>3, <2>4
<1>4. \/ \E status \in {"401", "403", "404", "500"} : Answer(r, FALSE, status, Nowhere)
      \/ request' = [request EXCEPT ![r] = [step |-> "loaded", attempt |-> 0, answer |-> NoAnswer,
                       input |-> request[r].input, form |-> form]] /\ form.live
  BY DEF LoadForm
<1> QED
  BY <1>1, <1>2, <1>3, <1>4

\* A request with its form stays the same request of the same form.
Keeps(r) ==
  /\ Moves(r) /\ request[r] \in Loaded(r) /\ request'[r] \in Loaded(r)
  /\ request'[r].input = request[r].input /\ request'[r].form = request[r].form

LEMMA AnswerKeeps ==
  ASSUME RequestsTyped, NEW r \in Requests, request[r] \in Loaded(r),
         NEW ok \in BOOLEAN, NEW status \in Statuses, NEW to \in Targets, Answer(r, ok, status, to)
  PROVE  /\ Keeps(r) /\ request'[r].step = "answered"
         /\ request'[r].answer = [ok |-> ok, status |-> status, to |-> to]
<1>1. [ok |-> ok, status |-> status, to |-> to] \in Answers
  BY DEF Answers
<1>2. /\ request'[r] = [step |-> "answered", attempt |-> request[r].attempt,
                        answer |-> [ok |-> ok, status |-> status, to |-> to],
                        input |-> request[r].input, form |-> request[r].form]
      /\ Moves(r)
  BY Answering DEF Moves
<1>3. /\ request[r].attempt \in 0 .. attempts - 1
      /\ request[r].input \in Inputs[r] /\ request[r].form \in Settings
  BY DEF Loaded
<1>4. request'[r] \in Loaded(r)
  BY <1>1, <1>2, <1>3 DEF Loaded
<1> QED
  BY <1>2, <1>4 DEF Keeps

LEMMA RefuseKeeps ==
  ASSUME RequestsTyped, NEW r \in Requests, request[r] \in Loaded(r),
         NEW status \in Statuses, Refuse(r, status)
  PROVE  /\ Keeps(r) /\ request'[r].step = "answered"
         /\ request'[r].answer = [ok |-> FALSE, status |-> status,
                                  to |-> Failure(request[r].form, request[r].input)]
<1>1. Failure(request[r].form, request[r].input) \in Targets
  BY RedirectTyped DEF Loaded
<1> QED
  BY <1>1, AnswerKeeps DEF Refuse

LEMMA GotoKeeps ==
  ASSUME RequestsTyped, NEW r \in Requests, request[r] \in Loaded(r),
         NEW step \in {"verifying", "verified"}, Goto(r, step)
  PROVE  Keeps(r) /\ request'[r].step = step /\ request'[r].answer = request[r].answer
<1>1. /\ request'[r] = [step |-> step, attempt |-> request[r].attempt,
                        answer |-> request[r].answer, input |-> request[r].input,
                        form |-> request[r].form]
      /\ Moves(r)
  BY Going DEF Moves
<1>2. /\ request[r].attempt \in 0 .. attempts - 1 /\ request[r].answer \in Answers
      /\ request[r].input \in Inputs[r] /\ request[r].form \in Settings
  BY DEF Loaded
<1>3. request'[r] \in Loaded(r)
  BY <1>1, <1>2 DEF Loaded
<1> QED
  BY <1>1, <1>3 DEF Keeps

LEMMA FormLoaded ==
  ASSUME RequestsTyped, NEW r \in Requests, request[r].step \in {"loaded", "verifying", "verified"}
  PROVE  request[r] \in Loaded(r)
BY DEF RequestsTyped, Fresh, Arrived

(***************************************************************************)
(* What the steps of a request do.                                         *)
(***************************************************************************)

\* An error, answered where the form wants its failures.
Failed(r, statuses) ==
  /\ Keeps(r) /\ request'[r].step = "answered" /\ ~request'[r].answer.ok
  /\ request'[r].answer.status \in statuses
  /\ request'[r].answer.to = Failure(request[r].form, request[r].input)

LEMMA Refusing ==
  ASSUME RequestsTyped, NEW r \in Requests, request[r] \in Loaded(r),
         NEW status \in Statuses, Refuse(r, status)
  PROVE  Failed(r, {status})
<1>1. /\ Keeps(r) /\ request'[r].step = "answered"
      /\ request'[r].answer = [ok |-> FALSE, status |-> status,
                               to |-> Failure(request[r].form, request[r].input)]
  BY RefuseKeeps
<1>2. /\ ~request'[r].answer.ok /\ request'[r].answer.status = status
      /\ request'[r].answer.to = Failure(request[r].form, request[r].input)
  BY <1>1
<1> QED
  BY <1>1, <1>2 DEF Failed

LEMMA CheckInputMoves ==
  ASSUME RequestsTyped, NEW r \in Requests, CheckInput(r),
         NEW f, f = request[r].form, NEW in, in = request[r].input
  PROVE  /\ UNCHANGED <<spent, rows>> /\ request[r].step = "loaded"
         /\ \/ /\ Keeps(r) /\ request'[r].step = "answered" /\ ~request'[r].answer.ok
               /\ request'[r].answer.status = "400" /\ request'[r].answer.to = Nowhere
            \/ Failure(f, in) # Refused /\ Failed(r, {"400"})
            \/ Failure(f, in) # Refused /\ Failed(r, {"captcha"}) /\ in.captcha = NoToken
            \/ /\ Failure(f, in) # Refused /\ Success(f, in) # Refused
               /\ Keeps(r)
               /\ \/ request'[r].step = "verified" /\ ~f.captcha
                  \/ request'[r].step = "verifying" /\ in.captcha # NoToken
<1>0. request[r] \in Loaded(r) /\ UNCHANGED <<spent, rows>> /\ request[r].step = "loaded"
  BY FormLoaded DEF CheckInput
<1>1. CASE Answer(r, FALSE, "400", Nowhere)
  <2>1. "400" \in Statuses /\ FALSE \in BOOLEAN
    BY DEF Statuses
  <2>2. /\ Keeps(r) /\ request'[r].step = "answered"
        /\ request'[r].answer = [ok |-> FALSE, status |-> "400", to |-> Nowhere]
    BY <1>0, <1>1, <2>1, AnswerKeeps, Constants
  <2>3. /\ ~request'[r].answer.ok
        /\ request'[r].answer.status = "400" /\ request'[r].answer.to = Nowhere
    BY <2>2
  <2> QED
    BY <1>0, <2>2, <2>3
<1>2. CASE Failure(f, in) # Refused /\ Refuse(r, "400")
  BY <1>0, <1>2, Refusing DEF Statuses
<1>3. CASE Failure(f, in) # Refused /\ Refuse(r, "captcha") /\ in.captcha = NoToken
  BY <1>0, <1>3, Refusing DEF Statuses
<1>4. CASE /\ Failure(f, in) # Refused /\ Success(f, in) # Refused
           /\ \/ Goto(r, "verified") /\ ~f.captcha
              \/ Goto(r, "verifying") /\ in.captcha # NoToken
  BY <1>0, <1>4, GotoKeeps
<1>5. \/ Answer(r, FALSE, "400", Nowhere)
      \/ Failure(f, in) # Refused /\ Refuse(r, "400")
      \/ Failure(f, in) # Refused /\ Refuse(r, "captcha") /\ in.captcha = NoToken
      \/ /\ Failure(f, in) # Refused /\ Success(f, in) # Refused
         /\ \/ Goto(r, "verified") /\ ~f.captcha
            \/ Goto(r, "verifying") /\ in.captcha # NoToken
  BY DEF CheckInput, extractSubmissionPayload, extractCaptchaToken
<1> QED
  BY <1>1, <1>2, <1>3, <1>4, <1>5

\* A token is spent once, for the request that brought it.
SpentFor(r) ==
  /\ spent' \in [Tokens -> {NoKey} \cup {<<q>> : q \in Requests}]
  /\ \A t \in Tokens :
       /\ spent[t] # NoKey => spent'[t] = spent[t]
       /\ spent'[t] # spent[t] =>
            /\ request[r].step = "verifying" /\ request[r].input.captcha = t
            /\ spent'[t] = <<r>> /\ Verdict[t].valid

LEMMA Keys ==
  ASSUME NEW q \in Requests, NEW r \in Requests
  PROVE  <<q>> # NoKey /\ (<<q>> = <<r>> => q = r)
BY DEF NoKey

LEMMA Spending ==
  ASSUME spent \in [Tokens -> {NoKey} \cup {<<q>> : q \in Requests}],
         NEW r \in Requests, Spend(r), request[r].step = "verifying",
         request[r].input.captcha \in Tokens
  PROVE  /\ SpentFor(r)
         /\ TurnstileAccepts(r) => spent'[request[r].input.captcha] = <<r>>
BY Keys DEF Spend, TurnstileAccepts, SpentFor, IdempotencyKey

LEMMA NotSpending ==
  ASSUME spent \in [Tokens -> {NoKey} \cup {<<q>> : q \in Requests}],
         NEW r \in Requests, UNCHANGED spent
  PROVE  SpentFor(r)
BY DEF SpentFor

LEMMA VerifyMoves ==
  ASSUME SubmissionTyped, NEW r \in Requests, request[r].input.captcha \in Tokens, Verify(r),
         NEW t, t = request[r].input.captcha
  PROVE  /\ SpentFor(r) /\ rows' = rows /\ request[r].step = "verifying"
         /\ \/ /\ Keeps(r) /\ request'[r].step = "verified"
               /\ spent'[t] = <<r>> /\ ResultFits(request[r].form, Verdict[t])
            \/ /\ Failed(r, {"captcha"})
               /\ \/ ~Verdict[t].valid \/ ~ResultFits(request[r].form, Verdict[t])
                  \/ spent[t] \notin {NoKey, <<r>>}
<1>0. request[r] \in Loaded(r) /\ rows' = rows /\ request[r].step = "verifying"
  BY FormLoaded DEF Verify, SubmissionTyped
<1>1. SpentFor(r) /\ (TurnstileAccepts(r) => spent'[t] = <<r>>)
  BY <1>0, Spending DEF Verify, SubmissionTyped
<1>2. CASE Goto(r, "verified") /\ TurnstileAccepts(r) /\ ResultFits(request[r].form, Verdict[t])
  BY <1>0, <1>1, <1>2, GotoKeeps DEF SubmissionTyped
<1>3. CASE Refuse(r, "captcha") /\ ~(TurnstileAccepts(r) /\ ResultFits(request[r].form, Verdict[t]))
  <2>1. Failed(r, {"captcha"})
    BY <1>0, <1>3, Refusing DEF SubmissionTyped, Statuses
  <2> QED
    BY <1>0, <1>1, <1>3, <2>1 DEF TurnstileAccepts, IdempotencyKey
<1> QED
  BY <1>2, <1>3 DEF Verify

LEMMA VerifyLostMoves ==
  ASSUME SubmissionTyped, NEW r \in Requests, request[r].input.captcha \in Tokens, VerifyLost(r)
  PROVE  /\ SpentFor(r) /\ rows' = rows /\ request[r].step = "verifying"
         /\ \/ Keeps(r) /\ request'[r].step = "verifying"
            \/ Failed(r, {"503"})
<1>0. request[r] \in Loaded(r) /\ rows' = rows /\ request[r].step = "verifying"
  BY FormLoaded DEF VerifyLost, SubmissionTyped
<1>1. SpentFor(r)
  BY <1>0, Spending, NotSpending DEF VerifyLost, SubmissionTyped
<1>2. CASE request' = [request EXCEPT ![r].attempt = @ + 1] /\ request[r].attempt + 1 < attempts
  <2>1. /\ request'[r] = [step |-> request[r].step, attempt |-> request[r].attempt + 1,
                          answer |-> request[r].answer, input |-> request[r].input,
                          form |-> request[r].form]
        /\ Moves(r)
    BY <1>0, <1>2 DEF SubmissionTyped, RequestsTyped, Loaded, Moves
  <2>2. /\ request[r].attempt + 1 \in 0 .. attempts - 1 /\ request[r].answer \in Answers
        /\ request[r].input \in Inputs[r] /\ request[r].form \in Settings
    BY <1>0, <1>2, Constants DEF Loaded
  <2>3. request'[r] \in Loaded(r)
    BY <1>0, <2>1, <2>2 DEF Loaded
  <2> QED
    BY <1>0, <1>1, <2>1, <2>3 DEF Keeps
<1>3. CASE Refuse(r, "503")
  BY <1>0, <1>1, <1>3, Refusing DEF SubmissionTyped, Statuses
<1> QED
  BY <1>2, <1>3 DEF VerifyLost, VerifyAgain

LEMMA VerifyAbortedMoves ==
  ASSUME SubmissionTyped, NEW r \in Requests, request[r].input.captcha \in Tokens, VerifyAborted(r)
  PROVE  /\ SpentFor(r) /\ rows' = rows /\ request[r].step = "verifying"
         /\ Failed(r, {"captcha"}) /\ abandoned' = abandoned \cup {r}
<1>0. request[r] \in Loaded(r) /\ rows' = rows /\ request[r].step = "verifying"
  BY FormLoaded DEF VerifyAborted, SubmissionTyped
<1>1. SpentFor(r)
  BY <1>0, Spending, NotSpending DEF VerifyAborted, SubmissionTyped
<1> QED
  BY <1>0, <1>1, Refusing DEF VerifyAborted, SubmissionTyped, Statuses

LEMMA CreateSubmissionMoves ==
  ASSUME SubmissionTyped, NEW r \in Requests, CreateSubmission(r)
  PROVE  /\ SpentFor(r) /\ request[r].step = "verified"
         /\ \/ rows' = rows /\ Failed(r, {"400", "500", "507"})
            \/ /\ rows' = rows \cup {r}
               /\ Keeps(r) /\ request'[r].step = "answered" /\ request'[r].answer.ok
               /\ request'[r].answer.status = "200"
               /\ request'[r].answer.to = Success(request[r].form, request[r].input)
<1>0. request[r] \in Loaded(r) /\ request[r].step = "verified"
  BY FormLoaded DEF CreateSubmission, SubmissionTyped
<1>1. SpentFor(r)
  BY NotSpending DEF CreateSubmission, SubmissionTyped
<1>2. CASE rows' = rows /\ \E status \in {"400", "500", "507"} : Refuse(r, status)
  <2>1. PICK status \in {"400", "500", "507"} : Refuse(r, status)
    BY <1>2
  <2>2. Failed(r, {status})
    BY <1>0, <2>1, Refusing DEF SubmissionTyped, Statuses
  <2> QED
    BY <1>0, <1>1, <1>2, <2>2 DEF Failed
<1>3. CASE /\ rows' = rows \cup {r}
           /\ Answer(r, TRUE, "200", Success(request[r].form, request[r].input))
  <2>1. "200" \in Statuses /\ TRUE \in BOOLEAN /\ Success(request[r].form, request[r].input) \in Targets
    BY <1>0, RedirectTyped DEF Statuses, Loaded
  <2>2. /\ Keeps(r) /\ request'[r].step = "answered"
        /\ request'[r].answer = [ok |-> TRUE, status |-> "200",
                                 to |-> Success(request[r].form, request[r].input)]
    BY <1>0, <1>3, <2>1, AnswerKeeps DEF SubmissionTyped
  <2>3. /\ request'[r].answer.ok /\ request'[r].answer.status = "200"
        /\ request'[r].answer.to = Success(request[r].form, request[r].input)
    BY <2>2
  <2> QED
    BY <1>0, <1>1, <1>3, <2>2, <2>3
<1> QED
  BY <1>2, <1>3 DEF CreateSubmission, Stored

(***************************************************************************)
(* The invariant of a request.                                             *)
(***************************************************************************)

\* Told what happened.
Told(r) ==
  /\ Answered(r) => (request[r].answer.ok <=> r \in rows)
  /\ r \in rows => Answered(r) /\ request[r] \in Loaded(r)

\* The redirects are checked before anything else happens.
RedirectsChecked(r) ==
  request[r].step \in {"verifying", "verified"} =>
    /\ Failure(request[r].form, request[r].input) # Refused
    /\ Success(request[r].form, request[r].input) # Refused

\* Turnstile consented to this request.
Consent(r) ==
  LET t == request[r].input.captcha
  IN  /\ t \in Tokens /\ spent[t] = IdempotencyKey(r)
      /\ ResultFits(request[r].form, Verdict[t])

ConsentInv(r) ==
  /\ request[r].step = "verifying" => request[r].input.captcha \in Tokens
  /\ (request[r].step = "verified" \/ r \in rows) /\ request[r].form.captcha => Consent(r)

\* What RedirectsStayHome and RepetitionHarmless say of one request.
StaysHome(r) ==
  Answered(r) /\ request[r].answer.to.kind # "none" =>
    LET to == request[r].answer.to
        f == request[r].form
    IN  /\ to.kind = "url"
        /\ \/ to.host = request[r].input.origin /\ IsOriginAllowed(f, to.host)
           \/ \E entry \in f.origins \ {AnyHost} : IsSuffix(entry, to.host)

Harmless(r) ==
  Answered(r) /\ request[r].answer.status = "captcha" =>
    LET t == request[r].input.captcha
    IN  \/ t = NoToken \/ r \in abandoned
        \/ ~Verdict[t].valid \/ ~ResultFits(request[r].form, Verdict[t])
        \/ \E q \in Requests \ {r} : request[q].step # "none" /\ request[q].input.captcha = t

RequestInv(r) ==
  Told(r) /\ RedirectsChecked(r) /\ ConsentInv(r) /\ StaysHome(r) /\ Harmless(r)

\* A token is spent by a request that brought it.
SpentInv ==
  \A t \in Tokens, q \in Requests :
    spent[t] = <<q>> => request[q].step # "none" /\ request[q].input.captcha = t

SubmissionInv == SpentInv /\ \A r \in Requests : RequestInv(r)

\* A redirect that was not refused leads home.
LEMMA RedirectsHome ==
  ASSUME NEW f \in Settings, NEW target \in Targets, NEW origin \in Hosts,
         NEW to, to = resolvedRedirect(f, target, origin), to # Refused, to.kind # "none"
  PROVE  /\ to.kind = "url"
         /\ \/ to.host = origin /\ IsOriginAllowed(f, to.host)
            \/ \E entry \in f.origins \ {AnyHost} : IsSuffix(entry, to.host)
<1>1. CASE target.kind = "path"
  BY <1>1 DEF resolvedRedirect
<1>2. CASE target.kind # "path"
  <2>1. to = target /\ target.kind = "url" /\ f.origins # {AnyHost} /\ IsOriginAllowed(f, to.host)
    BY <1>2 DEF resolvedRedirect, ValidateRedirectURL
  <2>2. AnyHost \notin f.origins
    BY <2>1, AdmissionData
  <2> QED
    BY <2>1, <2>2 DEF IsOriginAllowed, originMatches
<1> QED
  BY <1>1, <1>2

\* What every step of a request keeps to.
Progress(r) ==
  /\ Moves(r) /\ SpentFor(r)
  /\ rows \subseteq rows' /\ rows' \subseteq rows \cup {r}
  /\ abandoned \subseteq abandoned' /\ abandoned' \subseteq abandoned \cup {r}
  /\ request'[r].step # "none"
  /\ request[r].step # "none" => request'[r].input = request[r].input

LEMMA OthersKeep ==
  ASSUME SubmissionTyped, SubmissionInv, NEW r \in Requests, Progress(r),
         NEW q \in Requests \ {r}
  PROVE  RequestInv(q)'
<1>1. /\ RequestInv(q) /\ request'[q] = request[q] /\ (q \in rows' <=> q \in rows)
  BY DEF SubmissionInv, Progress, Moves
<1>2. Told(q)' /\ RedirectsChecked(q)' /\ StaysHome(q)'
  BY <1>1 DEF RequestInv, Told, Answered, Loaded, RedirectsChecked, StaysHome
<1>3. Consent(q) => Consent(q)'
  <2>1. <<q>> # NoKey
    BY Keys
  <2> QED
    BY <1>1, <2>1 DEF Progress, SpentFor, Consent, IdempotencyKey
<1>4. ConsentInv(q)'
  BY <1>1, <1>3 DEF RequestInv, ConsentInv
<1>5. Harmless(q)'
  <2>1. \A p \in Requests : request[p].step # "none" =>
          request'[p].step # "none" /\ request'[p].input = request[p].input
    BY DEF Progress, Moves
  <2>2. q \in abandoned => q \in abandoned'
    BY DEF Progress
  <2> QED
    BY <1>1, <2>1, <2>2 DEF RequestInv, Harmless, Answered
<1> QED
  BY <1>2, <1>4, <1>5 DEF RequestInv

LEMMA SpentKeeps ==
  ASSUME SubmissionTyped, SubmissionInv, NEW r \in Requests, Progress(r)
  PROVE  SpentInv'
<1> SUFFICES ASSUME NEW t \in Tokens, NEW q \in Requests, spent'[t] = <<q>>
             PROVE  request'[q].step # "none" /\ request'[q].input.captcha = t
  BY DEF SpentInv
<1>1. CASE spent'[t] = spent[t]
  <2>1. request[q].step # "none" /\ request[q].input.captcha = t
    BY <1>1 DEF SubmissionInv, SpentInv
  <2> QED
    BY <2>1 DEF Progress, Moves
<1>2. CASE spent'[t] # spent[t]
  <2>1. /\ request[r].step = "verifying" /\ request[r].input.captcha = t
        /\ spent'[t] = <<r>>
    BY <1>2 DEF Progress, SpentFor
  <2>2. q = r
    BY <2>1, Keys
  <2> QED
    BY <2>1, <2>2 DEF Progress
<1> QED
  BY <1>1, <1>2

LEMMA FailedHome ==
  ASSUME SubmissionTyped, NEW r \in Requests, NEW statuses, Failed(r, statuses),
         Failure(request[r].form, request[r].input) # Refused
  PROVE  StaysHome(r)'
<1>1. /\ request'[r].form = request[r].form /\ request'[r].input = request[r].input
      /\ request[r].form \in Settings /\ request[r].input \in Inputs[r]
      /\ request'[r].answer.to = Failure(request[r].form, request[r].input)
  BY DEF Failed, Keeps, Loaded
<1> QED
  BY <1>1, RedirectsHome, InputTyped DEF StaysHome, Failure

LEMMA NowhereHome ==
  ASSUME NEW r \in Requests, request'[r].answer.to = Nowhere
  PROVE  StaysHome(r)'
BY DEF StaysHome, Nowhere

\* The request whose step it is.
RequestStep(r) ==
  \/ Arrive(r) \/ LoadForm(r) \/ CheckInput(r)
  \/ Verify(r) \/ VerifyLost(r) \/ VerifyAborted(r) \/ CreateSubmission(r)

LEMMA ThisKeeps ==
  ASSUME SubmissionTyped, SubmissionInv, NEW r \in Requests, RequestStep(r)
  PROVE  Progress(r) /\ RequestInv(r)' /\ RequestsTyped'
<1> USE DEF Answered
<1>0. /\ RequestInv(r) /\ RequestsTyped
      /\ spent \in [Tokens -> {NoKey} \cup {<<q>> : q \in Requests}]
      /\ form \in Settings \cup {NoForm}
  BY DEF SubmissionInv, SubmissionTyped
<1>a. abandoned \subseteq abandoned' /\ abandoned' \subseteq abandoned \cup {r}
  BY DEF RequestStep, Arrive, LoadForm, CheckInput, Verify, VerifyLost, VerifyAborted,
         CreateSubmission
<1>1. CASE Arrive(r)
  <2>1. /\ Moves(r) /\ request[r].step = "none"
        /\ request'[r] \in Arrived(r)
        /\ ~request'[r].answer.ok /\ request'[r].answer.to = Nowhere
        /\ request'[r].answer.status \in {"none", "429"}
    BY <1>0, <1>1, ArriveMoves
  <2>2. SpentFor(r) /\ rows' = rows
    BY <1>0, <1>1, NotSpending DEF Arrive
  <2>3. r \notin rows
    BY <1>0, <2>1 DEF RequestInv, Told
  <2>4. request'[r].step \in {"admitted", "answered"}
    BY <2>1 DEF Arrived
  <2>5. StaysHome(r)'
    BY <2>1, NowhereHome
  <2>6. RequestInv(r)'
    BY <2>1, <2>2, <2>3, <2>4, <2>5 DEF RequestInv, Told, RedirectsChecked, ConsentInv, Harmless
  <2> QED
    BY <1>0, <1>a, <2>1, <2>2, <2>4, <2>6, OneRequest DEF Progress
<1>2. CASE LoadForm(r)
  <2>1. /\ Moves(r) /\ request[r] \in Arrived(r) /\ request[r].step = "admitted"
        /\ request'[r].input = request[r].input
        /\ \/ /\ request'[r] \in Arrived(r) /\ request'[r].step = "answered"
              /\ ~request'[r].answer.ok /\ request'[r].answer.to = Nowhere
              /\ request'[r].answer.status \in {"401", "403", "404", "500"}
           \/ request'[r] \in Loaded(r) /\ request'[r].step = "loaded"
    BY <1>0, <1>2, LoadFormMoves
  <2>2. SpentFor(r) /\ rows' = rows
    BY <1>0, <1>2, NotSpending DEF LoadForm
  <2>3. r \notin rows
    BY <1>0, <2>1 DEF RequestInv, Told
  <2>4. StaysHome(r)'
    BY <2>1, NowhereHome DEF StaysHome
  <2>5. RequestInv(r)'
    BY <2>1, <2>2, <2>3, <2>4 DEF RequestInv, Told, RedirectsChecked, ConsentInv, Harmless
  <2> QED
    BY <1>0, <1>a, <2>1, <2>2, <2>5, OneRequest DEF Progress
<1>3. CASE CheckInput(r)
  <2> DEFINE f == request[r].form
             in == request[r].input
  <2>1. /\ UNCHANGED <<spent, rows>> /\ request[r].step = "loaded"
        /\ \/ /\ Keeps(r) /\ request'[r].step = "answered" /\ ~request'[r].answer.ok
              /\ request'[r].answer.status = "400" /\ request'[r].answer.to = Nowhere
           \/ Failure(f, in) # Refused /\ Failed(r, {"400"})
           \/ Failure(f, in) # Refused /\ Failed(r, {"captcha"}) /\ in.captcha = NoToken
           \/ /\ Failure(f, in) # Refused /\ Success(f, in) # Refused
              /\ Keeps(r)
              /\ \/ request'[r].step = "verified" /\ ~f.captcha
                 \/ request'[r].step = "verifying" /\ in.captcha # NoToken
    BY <1>0, <1>3, CheckInputMoves
  <2>2. SpentFor(r)
    BY <1>0, <2>1, NotSpending
  <2>3. r \notin rows
    BY <1>0, <2>1 DEF RequestInv, Told
  <2>4. /\ Keeps(r) /\ in.captcha \in Tokens \cup {NoToken}
        /\ request'[r].step \in {"answered", "verified", "verifying"}
    <3>1. Keeps(r) /\ request'[r].step \in {"answered", "verified", "verifying"}
      BY <2>1 DEF Failed
    <3> QED
      BY <3>1, InputTyped DEF Keeps, Loaded
  <2>5. StaysHome(r)'
    <3>1. \/ request'[r].answer.to = Nowhere
          \/ Failure(f, in) # Refused /\ Failed(r, {"400"})
          \/ Failure(f, in) # Refused /\ Failed(r, {"captcha"})
          \/ request'[r].step # "answered"
      BY <2>1
    <3> QED
      BY <3>1, FailedHome, NowhereHome DEF StaysHome
  <2>6. Told(r)' /\ RedirectsChecked(r)' /\ ConsentInv(r)' /\ Harmless(r)'
    BY <2>1, <2>3, <2>4 DEF Told, RedirectsChecked, ConsentInv, Harmless, Failed, Keeps
  <2> QED
    BY <1>0, <1>a, <2>1, <2>2, <2>4, <2>5, <2>6, OneRequest DEF Progress, RequestInv, Keeps
<1>4. CASE Verify(r)
  <2> DEFINE t == request[r].input.captcha
  <2>1. /\ SpentFor(r) /\ rows' = rows /\ request[r].step = "verifying" /\ t \in Tokens
        /\ \/ /\ Keeps(r) /\ request'[r].step = "verified"
              /\ spent'[t] = <<r>> /\ ResultFits(request[r].form, Verdict[t])
           \/ /\ Failed(r, {"captcha"})
              /\ \/ ~Verdict[t].valid \/ ~ResultFits(request[r].form, Verdict[t])
                 \/ spent[t] \notin {NoKey, <<r>>}
    <3>1. request[r].step = "verifying" /\ t \in Tokens
      BY <1>0, <1>4 DEF Verify, RequestInv, ConsentInv
    <3> QED
      BY <1>4, <3>1, VerifyMoves
  <2>2. r \notin rows
    BY <1>0, <2>1 DEF RequestInv, Told
  <2>3. Keeps(r) /\ request'[r].step \in {"verified", "answered"}
    BY <2>1 DEF Failed
  <2>4. StaysHome(r)'
    <3>1. Failure(request[r].form, request[r].input) # Refused
      BY <1>0, <2>1 DEF RequestInv, RedirectsChecked
    <3> QED
      BY <2>1, <3>1, FailedHome DEF StaysHome
  <2>5. RedirectsChecked(r)'
    BY <1>0, <2>1, <2>3 DEF RequestInv, RedirectsChecked, Keeps
  <2>6. Told(r)' /\ ConsentInv(r)'
    BY <2>1, <2>2, <2>3 DEF Told, ConsentInv, Consent, IdempotencyKey, Failed, Keeps
  <2>7. Harmless(r)'
    <3>1. CASE spent[t] \notin {NoKey, <<r>>}
      <4>1. PICK q \in Requests : spent[t] = <<q>>
        BY <1>0, <2>1, <3>1
      <4>2. q # r /\ request[q].step # "none" /\ request[q].input.captcha = t
        BY <2>1, <3>1, <4>1 DEF SubmissionInv, SpentInv
      <4>3. request'[q] = request[q]
        BY <2>3, <4>2 DEF Keeps, Moves
      <4> QED
        BY <2>3, <4>2, <4>3 DEF Harmless, Keeps
    <3>2. CASE spent[t] \in {NoKey, <<r>>}
      BY <2>1, <2>3, <3>2 DEF Harmless, Keeps
    <3> QED
      BY <3>1, <3>2
  <2> QED
    BY <1>0, <1>a, <2>1, <2>3, <2>4, <2>5, <2>6, <2>7, OneRequest DEF Progress, RequestInv, Keeps
<1>5. CASE VerifyLost(r) \/ VerifyAborted(r)
  <2>1. request[r].step = "verifying" /\ request[r].input.captcha \in Tokens
    BY <1>0, <1>5 DEF VerifyLost, VerifyAborted, RequestInv, ConsentInv
  <2>2. /\ SpentFor(r) /\ rows' = rows
        /\ \/ Keeps(r) /\ request'[r].step = "verifying"
           \/ Failed(r, {"503"})
           \/ Failed(r, {"captcha"}) /\ r \in abandoned'
    BY <1>5, <2>1, VerifyLostMoves, VerifyAbortedMoves
  <2>3. r \notin rows
    BY <1>0, <2>1 DEF RequestInv, Told
  <2>4. Keeps(r) /\ request'[r].step \in {"verifying", "answered"}
    BY <2>2 DEF Failed
  <2>5. StaysHome(r)'
    <3>1. Failure(request[r].form, request[r].input) # Refused
      BY <1>0, <2>1 DEF RequestInv, RedirectsChecked
    <3> QED
      BY <2>2, <3>1, FailedHome DEF StaysHome
  <2>6. RedirectsChecked(r)'
    BY <1>0, <2>1, <2>4 DEF RequestInv, RedirectsChecked, Keeps
  <2>7. Told(r)' /\ ConsentInv(r)' /\ Harmless(r)'
    BY <2>1, <2>2, <2>3, <2>4 DEF Told, ConsentInv, Harmless, Failed, Keeps
  <2> QED
    BY <1>0, <1>a, <2>2, <2>4, <2>5, <2>6, <2>7, OneRequest DEF Progress, RequestInv, Keeps
<1>6. CASE CreateSubmission(r)
  <2>1. /\ SpentFor(r) /\ request[r].step = "verified"
        /\ \/ rows' = rows /\ Failed(r, {"400", "500", "507"})
           \/ /\ rows' = rows \cup {r}
              /\ Keeps(r) /\ request'[r].step = "answered" /\ request'[r].answer.ok
              /\ request'[r].answer.status = "200"
              /\ request'[r].answer.to = Success(request[r].form, request[r].input)
    BY <1>6, CreateSubmissionMoves
  <2>2. r \notin rows
    BY <1>0, <2>1 DEF RequestInv, Told
  <2>3. Keeps(r) /\ request'[r].step = "answered"
    BY <2>1 DEF Failed
  <2>4. StaysHome(r)'
    <3>1. /\ Failure(request[r].form, request[r].input) # Refused
          /\ Success(request[r].form, request[r].input) # Refused
      BY <1>0, <2>1 DEF RequestInv, RedirectsChecked
    <3>2. CASE request'[r].answer.to = Success(request[r].form, request[r].input)
      <4>1. /\ request[r].form \in Settings /\ request[r].input \in Inputs[r]
            /\ request'[r].form = request[r].form /\ request'[r].input = request[r].input
        BY <2>3 DEF Keeps, Loaded
      <4> QED
        BY <3>1, <3>2, <4>1, RedirectsHome, InputTyped DEF StaysHome, Success
    <3> QED
      BY <2>1, <3>1, <3>2, FailedHome
  <2>5. ConsentInv(r)'
    <3>1. request[r].form.captcha => Consent(r)
      BY <1>0, <2>1 DEF RequestInv, ConsentInv
    <3>2. Consent(r) => Consent(r)'
      BY <2>1, <2>3, Keys DEF Consent, IdempotencyKey, SpentFor, Keeps
    <3> QED
      BY <2>3, <3>1, <3>2 DEF ConsentInv, Keeps
  <2>6. Told(r)' /\ RedirectsChecked(r)' /\ Harmless(r)'
    BY <2>1, <2>2, <2>3 DEF Told, RedirectsChecked, Harmless, Failed, Keeps
  <2> QED
    BY <1>0, <1>a, <2>1, <2>3, <2>4, <2>5, <2>6, OneRequest DEF Progress, RequestInv, Keeps
<1> QED
  BY <1>1, <1>2, <1>3, <1>4, <1>5, <1>6 DEF RequestStep

\* The steps that are nobody's request.
LEMMA SurroundingsKeep ==
  ASSUME EditForm \/ CancelRequests \/ Tick \/ UNCHANGED vars
  PROVE  /\ UNCHANGED <<request, spent, rows, abandoned>>
         /\ form' = form \/ form' \in Settings \cup {NoForm}
BY DEF EditForm, CancelRequests, Tick, vars

LEMMA NextIsStep ==
  ASSUME [Next]_vars
  PROVE  \/ \E r \in Requests : RequestStep(r)
         \/ EditForm \/ CancelRequests \/ Tick \/ UNCHANGED vars
BY DEF Next, RequestStep

LEMMA NextSubmission ==
  ASSUME SubmissionTyped, SubmissionInv, [Next]_vars
  PROVE  SubmissionTyped' /\ SubmissionInv'
<1>1. ASSUME NEW r \in Requests, RequestStep(r)
      PROVE  SubmissionTyped' /\ SubmissionInv'
  <2>1. Progress(r) /\ RequestInv(r)' /\ RequestsTyped'
    BY <1>1, ThisKeeps
  <2>2. SubmissionInv'
    BY <2>1, OthersKeep, SpentKeeps DEF SubmissionInv
  <2>3. form' = form
    BY <1>1 DEF RequestStep, Arrive, LoadForm, CheckInput, Verify, VerifyLost, VerifyAborted,
                CreateSubmission
  <2>4. \A t \in Tokens : spent'[t] # NoKey => Verdict[t].valid
    BY <2>1 DEF Progress, SpentFor, SubmissionTyped
  <2> QED
    BY <2>1, <2>2, <2>3, <2>4 DEF SubmissionTyped, Progress, SpentFor
<1>2. CASE EditForm \/ CancelRequests \/ Tick \/ UNCHANGED vars
  <2>1. /\ UNCHANGED <<request, spent, rows, abandoned>>
        /\ form' = form \/ form' \in Settings \cup {NoForm}
    BY <1>2, SurroundingsKeep
  <2>2. SubmissionTyped'
    BY <2>1 DEF SubmissionTyped, RequestsTyped, Fresh, Arrived, Loaded
  <2>3. SubmissionInv'
    BY <2>1 DEF SubmissionInv, SpentInv, RequestInv, Told, RedirectsChecked, ConsentInv, Consent,
                StaysHome, Harmless, Answered, Loaded
  <2> QED
    BY <2>2, <2>3
<1> QED
  BY <1>1, <1>2, NextIsStep

LEMMA InitSubmission == Init => SubmissionTyped /\ SubmissionInv
<1> SUFFICES ASSUME Init
             PROVE  SubmissionTyped /\ SubmissionInv
  OBVIOUS
<1>1. \A r \in Requests : request[r] \in Fresh /\ request[r].step = "none"
  BY DEF Init, Fresh
<1>2. SubmissionTyped
  BY <1>1 DEF Init, SubmissionTyped, RequestsTyped
<1>3. SpentInv
  BY Keys DEF Init, SpentInv
<1>4. \A r \in Requests : RequestInv(r)
  BY <1>1 DEF Init, RequestInv, Told, RedirectsChecked, ConsentInv, StaysHome, Harmless, Answered
<1> QED
  BY <1>2, <1>3, <1>4 DEF SubmissionInv

LEMMA AlwaysSubmission == Spec => [](SubmissionTyped /\ SubmissionInv)
BY InitSubmission, NextSubmission, PTL DEF Spec

\* A submitter is told that a submission arrived exactly when its row is
\* stored (public.go:80-95), whatever happens to the form, the network or the
\* server in between.
THEOREM AdmissionAnswersAreTrue == Spec => []AnswersAreTrue
<1>1. SubmissionInv => AnswersAreTrue
  BY DEF SubmissionInv, RequestInv, Told, AnswersAreTrue
<1> QED
  BY <1>1, AlwaysSubmission, PTL

LEMMA RowsHaveConsent ==
  ASSUME SubmissionTyped, SubmissionInv, NEW r \in rows, request[r].form.captcha
  PROVE  r \in Requests /\ Consent(r)
BY DEF SubmissionTyped, SubmissionInv, RequestInv, ConsentInv

\* With a captcha profile nothing is stored without the consent of Turnstile
\* for that very verification, for a host of the form (turnstile.go:52).
THEOREM AdmissionStoredOnlyVerified == Spec => []StoredOnlyVerified
<1>1. SubmissionTyped /\ SubmissionInv => StoredOnlyVerified
  BY RowsHaveConsent DEF StoredOnlyVerified, Consent
<1> QED
  BY <1>1, AlwaysSubmission, PTL

\* One solved challenge admits one submission (turnstile.go:52): the consents
\* of two rows under one token would be one idempotency key.
THEOREM AdmissionOneRowPerToken == Spec => []OneRowPerToken
<1>1. ASSUME SubmissionTyped, SubmissionInv
      PROVE  OneRowPerToken
  <2> SUFFICES ASSUME NEW q \in rows, NEW r \in rows, q # r,
                      request[q].form.captcha, request[r].form.captcha,
                      request[q].input.captcha = request[r].input.captcha
               PROVE  FALSE
    BY DEF OneRowPerToken
  <2>1. q \in Requests /\ r \in Requests /\ Consent(q) /\ Consent(r)
    BY <1>1, RowsHaveConsent
  <2>2. <<q>> = <<r>>
    BY <2>1 DEF Consent, IdempotencyKey
  <2> QED
    BY <2>1, <2>2, Keys
<1> QED
  BY <1>1, AlwaysSubmission, PTL

\* A good token that no other request brought is not called wrong because its
\* verification was repeated (turnstile.go:67-84), however many answers of
\* Turnstile were lost; a verification that ended with a call the code does not
\* repeat is outside of it, and is answered as a wrong token is.
THEOREM AdmissionRepetitionHarmless == Spec => []RepetitionHarmless
<1>1. SubmissionInv => RepetitionHarmless
  BY DEF SubmissionInv, RequestInv, Harmless, RepetitionHarmless
<1> QED
  BY <1>1, AlwaysSubmission, PTL

(***************************************************************************)
(* The storage of the limiters.                                            *)
(***************************************************************************)
Entries == [hits : Nat \ {0}, ends : Nat, expiresAt : Nat]

LimitersTyped ==
  /\ now \in 0 .. MaxTime
  /\ entries = [l \in Limiters |-> entries[l]]
  /\ \A l \in Limiters : \A k \in DOMAIN entries[l] :
       /\ entries[l][k] \in Entries
       /\ entries[l][k].ends <= entries[l][k].expiresAt
       /\ entries[l][k].expiresAt <= now + Expiration
  /\ nextSweep \in [Limiters -> Nat] /\ lastWrite \in [Limiters -> Nat]

\* An entry outlives a sweep interval only unobserved: every storage is swept
\* again before an entry in it has been stale for an interval.
SweepInv ==
  \A l \in Limiters :
    /\ nextSweep[l] <= now + SweepInterval
    /\ \A k \in DOMAIN entries[l] :
         /\ nextSweep[l] < entries[l][k].expiresAt + SweepInterval
         /\ lastWrite[l] < entries[l][k].expiresAt + SweepInterval

\* Whether a key has a window that is open, and what a request makes of it.
Open(l, k) == k \in DOMAIN entries[l] /\ now < entries[l][k].ends
Hits(l, k) == IF Open(l, k) THEN entries[l][k].hits + 1 ELSE 1
Ends(l, k) == IF Open(l, k) THEN entries[l][k].ends ELSE now + Expiration

LEMMA Limits ==
  /\ Expiration \in Nat /\ Expiration > 0 /\ SweepInterval \in Nat /\ SweepInterval > 0
  /\ GlobalLimit \in Nat /\ GlobalLimit > 0 /\ ClientLimit \in Nat /\ ClientLimit > 0
  /\ MaxTime \in Nat
BY AdmissionAssumption

\* Get forgets at most the key itself, and never in an open window.
LEMMA Getting ==
  ASSUME LimitersTyped, NEW l \in Limiters, NEW k
  PROVE  /\ DOMAIN Get(entries[l], k) \subseteq DOMAIN entries[l]
         /\ DOMAIN entries[l] \ {k} \subseteq DOMAIN Get(entries[l], k)
         /\ \A j \in DOMAIN Get(entries[l], k) : Get(entries[l], k)[j] = entries[l][j]
         /\ Open(l, k) => k \in DOMAIN Get(entries[l], k)
BY Limits DEF Get, Unexpired, Open, LimitersTyped, Entries

LEMMA Counting ==
  ASSUME LimitersTyped, NEW l \in Limiters, NEW k
  PROVE  /\ Count(l, k).hits = Hits(l, k) /\ Count(l, k).ends = Ends(l, k)
         /\ Count(l, k).stored = Get(entries[l], k)
         /\ Hits(l, k) \in Nat \ {0} /\ Ends(l, k) \in Nat
         /\ now < Ends(l, k) /\ Ends(l, k) <= now + Expiration
<1> DEFINE stored == Get(entries[l], k)
           open == k \in DOMAIN stored /\ now < stored[k].ends
<1>1. open <=> Open(l, k)
  BY Getting DEF Open
<1>2. open => stored[k] = entries[l][k]
  BY Getting
<1>3. Count(l, k) = [hits   |-> IF open THEN stored[k].hits + 1 ELSE 1,
                     ends   |-> IF open THEN stored[k].ends ELSE now + Expiration,
                     stored |-> stored]
  BY DEF Count
<1>4. Count(l, k).hits = Hits(l, k) /\ Count(l, k).ends = Ends(l, k) /\ Count(l, k).stored = stored
  BY <1>1, <1>2, <1>3 DEF Hits, Ends
<1>5. /\ Hits(l, k) \in Nat \ {0} /\ Ends(l, k) \in Nat
      /\ now < Ends(l, k) /\ Ends(l, k) <= now + Expiration
  BY Limits DEF Hits, Ends, Open, LimitersTyped, Entries
<1> QED
  BY <1>4, <1>5

\* What a write may keep of a storage.
Survives(l, j) == now < nextSweep[l] \/ now < entries[l][j].expiresAt
Kept(l, k, j) == j \in DOMAIN entries[l] /\ Set(l, k)[j] = entries[l][j] /\ Survives(l, j)

\* A write sets one entry, keeps those that have not expired, and keeps no
\* other when the sweep is due.
LEMMA Setting ==
  ASSUME LimitersTyped, NEW l \in Limiters, NEW k
  PROVE  /\ k \in DOMAIN Set(l, k)
         /\ Set(l, k)[k] = [hits |-> Hits(l, k), ends |-> Ends(l, k), expiresAt |-> now + Expiration]
         /\ \A j \in DOMAIN Set(l, k) \ {k} : Kept(l, k, j)
         /\ \A j \in DOMAIN entries[l] \ {k} : Open(l, j) => j \in DOMAIN Set(l, k)
<1> DEFINE S == Set(l, k)
<1> DEFINE stored == Get(entries[l], k)
           kept == sweepExpired(l, stored)
<1>1. /\ DOMAIN kept \subseteq DOMAIN stored
      /\ \A j \in DOMAIN kept :
           /\ kept[j] = stored[j]
           /\ now < nextSweep[l] \/ now < stored[j].expiresAt
      /\ \A j \in DOMAIN stored : now < stored[j].expiresAt => j \in DOMAIN kept
  BY DEF sweepExpired, Keep, Unexpired
<1>2. S = [j \in DOMAIN kept \cup {k} |->
             IF j = k THEN [hits |-> Hits(l, k), ends |-> Ends(l, k), expiresAt |-> now + Expiration]
             ELSE kept[j]]
  BY Counting DEF Set
<1> HIDE DEF stored, kept, S
<1>3. /\ DOMAIN stored \subseteq DOMAIN entries[l]
      /\ DOMAIN entries[l] \ {k} \subseteq DOMAIN stored
      /\ \A j \in DOMAIN stored : stored[j] = entries[l][j]
  BY Getting DEF stored
<1>4. /\ DOMAIN S = DOMAIN kept \cup {k}
      /\ S[k] = [hits |-> Hits(l, k), ends |-> Ends(l, k), expiresAt |-> now + Expiration]
      /\ \A j \in DOMAIN S \ {k} : S[j] = kept[j]
  BY <1>2
<1>5. ASSUME NEW j \in DOMAIN S \ {k}
      PROVE  j \in DOMAIN entries[l] /\ S[j] = entries[l][j] /\ Survives(l, j)
  <2>1. j \in DOMAIN kept /\ S[j] = kept[j]
    BY <1>4
  <2>2. /\ j \in DOMAIN stored /\ kept[j] = stored[j]
        /\ now < nextSweep[l] \/ now < stored[j].expiresAt
    BY <1>1, <2>1
  <2>3. j \in DOMAIN entries[l] /\ stored[j] = entries[l][j]
    BY <1>3, <2>2
  <2> QED
    BY <2>1, <2>2, <2>3 DEF Survives
<1>6. ASSUME NEW j \in DOMAIN entries[l] \ {k}, Open(l, j)
      PROVE  j \in DOMAIN S
  <2>1. now < entries[l][j].expiresAt
    BY <1>6 DEF Open, LimitersTyped, Entries
  <2> QED
    BY <1>1, <1>3, <1>4, <2>1
<1> QED
  BY <1>4, <1>5, <1>6 DEF S, Kept

LEMMA SettingOther ==
  ASSUME LimitersTyped, NEW l \in Limiters, NEW k, NEW j, j # k
  PROVE  /\ j \in DOMAIN Set(l, k) => j \in DOMAIN entries[l] /\ Set(l, k)[j] = entries[l][j]
         /\ Open(l, j) => j \in DOMAIN Set(l, k)
<1>0. j \in DOMAIN Set(l, k) => Kept(l, k, j)
  BY Setting
<1>1. j \in DOMAIN Set(l, k) => j \in DOMAIN entries[l] /\ Set(l, k)[j] = entries[l][j]
  BY <1>0 DEF Kept
<1>2. Open(l, j) => j \in DOMAIN entries[l]
  BY DEF Open
<1>3. Open(l, j) => j \in DOMAIN Set(l, k)
  BY <1>2, Setting
<1> QED
  BY <1>1, <1>3

\* A write keeps the storage typed and swept.
StorageOK(l, S, sweep, write, time) ==
  /\ \A k \in DOMAIN S :
       /\ S[k] \in Entries /\ S[k].ends <= S[k].expiresAt /\ S[k].expiresAt <= time + Expiration
       /\ sweep < S[k].expiresAt + SweepInterval
       /\ write < S[k].expiresAt + SweepInterval
  /\ sweep \in Nat /\ write \in Nat /\ sweep <= time + SweepInterval

LEMMA StorageIs ==
  LimitersTyped /\ SweepInv <=>
    /\ now \in 0 .. MaxTime /\ entries = [l \in Limiters |-> entries[l]]
    /\ nextSweep = [l \in Limiters |-> nextSweep[l]] /\ lastWrite = [l \in Limiters |-> lastWrite[l]]
    /\ \A l \in Limiters : StorageOK(l, entries[l], nextSweep[l], lastWrite[l], now)
BY DEF LimitersTyped, SweepInv, StorageOK

LEMMA SettingOK ==
  ASSUME LimitersTyped, SweepInv, NEW l \in Limiters, NEW k
  PROVE  StorageOK(l, Set(l, k), NextSweep(l), now, now)
<1> DEFINE S == Set(l, k)
<1>1. /\ k \in DOMAIN S
      /\ S[k] = [hits |-> Hits(l, k), ends |-> Ends(l, k), expiresAt |-> now + Expiration]
      /\ \A j \in DOMAIN S \ {k} : Kept(l, k, j)
  BY Setting
<1> HIDE DEF S
<1>2. /\ NextSweep(l) \in Nat /\ NextSweep(l) <= now + SweepInterval /\ now \in Nat
      /\ now < nextSweep[l] => NextSweep(l) = nextSweep[l]
      /\ ~(now < nextSweep[l]) => NextSweep(l) = now + SweepInterval
  BY Limits DEF NextSweep, LimitersTyped, SweepInv
<1>3. /\ S[k] \in Entries /\ S[k].ends <= S[k].expiresAt /\ S[k].expiresAt = now + Expiration
  BY <1>1, <1>2, Counting, Limits DEF Entries
<1>4. ASSUME NEW j \in DOMAIN S, j # k
      PROVE  /\ S[j] \in Entries /\ S[j].ends <= S[j].expiresAt /\ S[j].expiresAt <= now + Expiration
             /\ NextSweep(l) < S[j].expiresAt + SweepInterval
             /\ now < S[j].expiresAt + SweepInterval
  <2>1. /\ j \in DOMAIN entries[l] /\ S[j] = entries[l][j] /\ S[j].expiresAt \in Nat
        /\ nextSweep[l] < S[j].expiresAt + SweepInterval /\ nextSweep[l] \in Nat
        /\ now < nextSweep[l] \/ now < S[j].expiresAt
    BY <1>1, <1>4 DEF LimitersTyped, SweepInv, Entries, Kept, Survives, S
  <2> QED
    BY <1>2, <2>1, Limits DEF LimitersTyped
<1>5. ASSUME NEW j \in DOMAIN S
      PROVE  /\ S[j] \in Entries /\ S[j].ends <= S[j].expiresAt /\ S[j].expiresAt <= now + Expiration
             /\ NextSweep(l) < S[j].expiresAt + SweepInterval
             /\ now < S[j].expiresAt + SweepInterval
  <2>1. CASE j = k
    BY <1>2, <1>3, <2>1, Limits
  <2> QED
    BY <1>4, <2>1
<1> QED
  BY <1>2, <1>5 DEF StorageOK, S

LEMMA InitLimiters == Init => LimitersTyped /\ SweepInv
<1> SUFFICES ASSUME Init
             PROVE  LimitersTyped /\ SweepInv
  OBVIOUS
<1>1. /\ entries = [l \in Limiters |-> << >>] /\ now = 0
      /\ nextSweep = [l \in Limiters |-> 0] /\ lastWrite = [l \in Limiters |-> 0]
  BY DEF Init
<1>2. DOMAIN << >> = {}
  OBVIOUS
<1> QED
  BY <1>1, <1>2, Limits DEF LimitersTyped, SweepInv

LEMMA NextLimiters ==
  ASSUME LimitersTyped, SweepInv, [Next]_vars
  PROVE  LimitersTyped' /\ SweepInv'
<1>1. ASSUME NEW r \in Requests, Arrive(r)
      PROVE  LimitersTyped' /\ SweepInv'
  <2>1. PICK in \in Inputs[r] :
          LET crowded == Count("global", "all").hits > GlobalLimit
          IN  /\ entries' = [entries EXCEPT !["global"] = Set("global", "all"),
                               !["client"] = IF crowded THEN @ ELSE Set("client", in.client)]
              /\ Written(IF crowded THEN {"global"} ELSE Limiters)
    BY <1>1 DEF Arrive
  <2>2. PICK busy \in BOOLEAN :
          /\ entries'["global"] = Set("global", "all")
          /\ entries'["client"] = IF busy THEN Set("client", in.client) ELSE entries["client"]
          /\ entries' = [l \in Limiters |-> entries'[l]]
          /\ Written(IF busy THEN Limiters ELSE {"global"})
    <3>1. CASE Count("global", "all").hits > GlobalLimit
      BY <2>1, <3>1 DEF LimitersTyped, Limiters
    <3>2. CASE ~(Count("global", "all").hits > GlobalLimit)
      BY <2>1, <3>2 DEF LimitersTyped, Limiters
    <3> QED
      BY <3>1, <3>2
  <2>3. /\ nextSweep' = [l \in Limiters |-> nextSweep'[l]] /\ lastWrite' = [l \in Limiters |-> lastWrite'[l]]
        /\ nextSweep'["global"] = NextSweep("global") /\ lastWrite'["global"] = now
        /\ nextSweep'["client"] = IF busy THEN NextSweep("client") ELSE nextSweep["client"]
        /\ lastWrite'["client"] = IF busy THEN now ELSE lastWrite["client"]
    BY <2>2 DEF Written, Limiters
  <2>4. now' = now
    BY <1>1 DEF Arrive
  <2>5. StorageOK("global", entries'["global"], nextSweep'["global"], lastWrite'["global"], now)
    BY <2>2, <2>3, SettingOK DEF Limiters
  <2>6. StorageOK("client", entries'["client"], nextSweep'["client"], lastWrite'["client"], now)
    <3>1. StorageOK("client", Set("client", in.client), NextSweep("client"), now, now)
      BY SettingOK DEF Limiters
    <3>2. StorageOK("client", entries["client"], nextSweep["client"], lastWrite["client"], now)
      BY StorageIs DEF Limiters
    <3> QED
      BY <2>2, <2>3, <3>1, <3>2
  <2>7. /\ now' \in 0 .. MaxTime
        /\ \A l \in Limiters : StorageOK(l, entries'[l], nextSweep'[l], lastWrite'[l], now')
    BY <2>4, <2>5, <2>6 DEF Limiters, LimitersTyped
  <2> QED
    BY <2>2, <2>3, <2>7 DEF LimitersTyped, SweepInv, StorageOK
<1>2. CASE Tick
  BY <1>2, Limits DEF Tick, limiterVars, LimitersTyped, SweepInv, Entries
<1>3. CASE \/ \E r \in Requests : RequestStep(r) /\ ~Arrive(r)
           \/ EditForm \/ CancelRequests \/ UNCHANGED vars
  <2>1. UNCHANGED <<now, entries, nextSweep, lastWrite>>
    BY <1>3 DEF RequestStep, LoadForm, CheckInput, Verify, VerifyLost, VerifyAborted,
                CreateSubmission, EditForm, CancelRequests, vars, limiterVars
  <2> QED
    BY <2>1 DEF LimitersTyped, SweepInv
<1> QED
  BY <1>1, <1>2, <1>3, NextIsStep

(***************************************************************************)
(* The rate.                                                               *)
(***************************************************************************)
ClientKeys == UNION {{in.client : in \in Inputs[r]} : r \in Requests}
AllKeys == {"all"} \cup ClientKeys
Lim(k) == IF k = "all" THEN "global" ELSE "client"
MaxOf(k) == IF k = "all" THEN GlobalLimit ELSE ClientLimit

\* When the window of a key began, or now when none is open.
Since(k) == IF Open(Lim(k), k) THEN entries[Lim(k)][k].ends - Expiration ELSE now

\* What a key passed, from one moment to before another.
PassesOf(k) == {q \in passed : q.key = k}
Passes(k, from, to) == {q \in PassesOf(k) : from <= q.at /\ q.at < to}

\* An open window began with a pass, counts every pass in it, and left at most
\* one less than the limit to the time a window's length before it.
KeyRate(k) ==
  /\ \A p \in PassesOf(k) : p.at + Expiration > Since(k) =>
       Cardinality(Passes(k, p.at, Since(k))) <= MaxOf(k) - 1
  /\ Open(Lim(k), k) =>
       /\ Since(k) <= now
       /\ \E p \in PassesOf(k) : p.at = Since(k)
       /\ Cardinality(Passes(k, Since(k), now + 1)) <= entries[Lim(k)][k].hits
       /\ Cardinality(Passes(k, Since(k), now + 1)) <= MaxOf(k)
  /\ ~Open(Lim(k), k) => \A p \in PassesOf(k) : p.at < now

PassedTyped ==
  /\ IsFiniteSet(passed)
  /\ \A q \in passed :
       /\ q.key \in AllKeys /\ q.at \in Nat /\ q.at <= now
       /\ q.request \in Requests /\ request[q.request].step # "none"

RateInv == PassedTyped /\ (\A k \in AllKeys : KeyRate(k)) /\ RateHolds

LEMMA KeyTypes ==
  ASSUME NEW k \in AllKeys
  PROVE  /\ Lim(k) \in Limiters /\ MaxOf(k) \in Nat /\ MaxOf(k) > 0
         /\ k # "all" => Lim(k) = "client" /\ MaxOf(k) = ClientLimit
BY Limits DEF Lim, MaxOf, Limiters

LEMMA PassesFinite ==
  ASSUME PassedTyped, NEW k, NEW from, NEW to
  PROVE  /\ IsFiniteSet(Passes(k, from, to)) /\ Cardinality(Passes(k, from, to)) \in Nat
         /\ IsFiniteSet(PassesOf(k))
<1>1. Passes(k, from, to) \subseteq passed /\ PassesOf(k) \subseteq passed
  BY DEF Passes, PassesOf
<1> QED
  BY <1>1, FS_Subset, FS_CardinalityType DEF PassedTyped

LEMMA FewerPasses ==
  ASSUME PassedTyped, NEW k, NEW from, NEW to, NEW S, S \subseteq Passes(k, from, to)
  PROVE  Cardinality(S) \in Nat /\ Cardinality(S) <= Cardinality(Passes(k, from, to))
BY PassesFinite, FS_Subset, FS_CardinalityType

LEMMA SinceInt ==
  ASSUME LimitersTyped, NEW k \in AllKeys
  PROVE  Since(k) \in Int
BY KeyTypes, Limits DEF Since, Open, LimitersTyped, Entries

\* A request that does not count for a key leaves it alone.
Untouched(k) ==
  /\ PassesOf(k)' = PassesOf(k)
  /\ Open(Lim(k), k)' <=> Open(Lim(k), k)
  /\ Open(Lim(k), k) => entries'[Lim(k)][k] = entries[Lim(k)][k]

\* One that counts passes if it is within the limit.
Touched(k, r) ==
  /\ k \in DOMAIN entries'[Lim(k)]
  /\ entries'[Lim(k)][k].hits = Hits(Lim(k), k) /\ entries'[Lim(k)][k].ends = Ends(Lim(k), k)
  /\ PassesOf(k)' = PassesOf(k) \cup (IF Hits(Lim(k), k) <= MaxOf(k)
                                      THEN {[key |-> k, request |-> r, at |-> now]} ELSE {})

LEMMA ArriveKeys ==
  ASSUME LimitersTyped, NEW r \in Requests, Arrive(r), NEW k \in AllKeys
  PROVE  Untouched(k) \/ Touched(k, r)
<1> DEFINE Pass(j) == [key |-> j, request |-> r, at |-> now]
           crowded == Count("global", "all").hits > GlobalLimit
<1>1. PICK in \in Inputs[r] :
        LET busy == Count("client", in.client).hits > ClientLimit
        IN  /\ entries' = [entries EXCEPT !["global"] = Set("global", "all"),
                             !["client"] = IF crowded THEN @ ELSE Set("client", in.client)]
            /\ passed' = passed \cup {Pass(j) : j \in (IF crowded THEN {} ELSE {"all"})
                                                   \cup (IF crowded \/ busy THEN {} ELSE {in.client})}
  BY DEF Arrive
<1>2. /\ entries'["global"] = Set("global", "all")
      /\ entries'["client"] = IF crowded THEN entries["client"] ELSE Set("client", in.client)
  BY <1>1 DEF LimitersTyped, Limiters
<1>3. in.client # "all" /\ "global" \in Limiters /\ "client" \in Limiters
  BY InputTyped DEF Limiters
<1>4. now' = now /\ now \in Nat
  BY Limits DEF Arrive, LimitersTyped
<1>5. /\ crowded <=> ~(Hits("global", "all") <= GlobalLimit)
      /\ Count("client", in.client).hits > ClientLimit <=> ~(Hits("client", in.client) <= ClientLimit)
  <2>1. /\ Count("global", "all").hits = Hits("global", "all") /\ Hits("global", "all") \in Nat
        /\ Count("client", in.client).hits = Hits("client", in.client)
        /\ Hits("client", in.client) \in Nat
    BY <1>3, Counting
  <2> QED
    BY <2>1, Limits
<1>6. CASE k = "all"
  <2>1. /\ "all" \in DOMAIN entries'["global"]
        /\ entries'["global"]["all"].hits = Hits("global", "all")
        /\ entries'["global"]["all"].ends = Ends("global", "all")
    <3>1. /\ "all" \in DOMAIN Set("global", "all")
          /\ Set("global", "all")["all"] = [hits |-> Hits("global", "all"), ends |-> Ends("global", "all"),
                                           expiresAt |-> now + Expiration]
      BY <1>3, Setting
    <3> QED
      BY <1>2, <3>1
  <2>2. PassesOf("all")' = PassesOf("all") \cup (IF crowded THEN {} ELSE {Pass("all")})
    BY <1>1, <1>3 DEF PassesOf
  <2> QED
    BY <1>5, <1>6, <2>1, <2>2 DEF Touched, Lim, MaxOf
<1>7. CASE k = in.client /\ ~crowded
  <2>1. Lim(k) = "client" /\ MaxOf(k) = ClientLimit
    BY <1>3, <1>7 DEF Lim, MaxOf
  <2>2. /\ k \in DOMAIN entries'["client"]
        /\ entries'["client"][k].hits = Hits("client", k) /\ entries'["client"][k].ends = Ends("client", k)
    <3>1. /\ k \in DOMAIN Set("client", k)
          /\ Set("client", k)[k] = [hits |-> Hits("client", k), ends |-> Ends("client", k),
                                   expiresAt |-> now + Expiration]
      BY <1>3, Setting
    <3> QED
      BY <1>2, <1>7, <3>1
  <2>3. PassesOf(k)' = PassesOf(k) \cup (IF Hits("client", k) <= ClientLimit THEN {Pass(k)} ELSE {})
    BY <1>1, <1>3, <1>5, <1>7 DEF PassesOf
  <2> QED
    BY <2>1, <2>2, <2>3 DEF Touched
<1>8. CASE k # "all" /\ ~(k = in.client /\ ~crowded)
  <2>1. Lim(k) = "client"
    BY <1>8 DEF Lim
  <2>2. PassesOf(k)' = PassesOf(k)
    BY <1>1, <1>8 DEF PassesOf
  <2>3. CASE crowded
    BY <1>2, <1>4, <2>1, <2>2, <2>3 DEF Untouched, Open
  <2>4. CASE ~crowded
    <3> DEFINE S == Set("client", in.client)
    <3>2. entries'["client"] = S /\ k # in.client
      BY <1>2, <1>8, <2>4
    <3> HIDE DEF S
    <3>3. /\ k \in DOMAIN S => k \in DOMAIN entries["client"] /\ S[k] = entries["client"][k]
          /\ Open("client", k) => k \in DOMAIN S
      BY <1>3, <3>2, SettingOther DEF S
    <3>4. Open("client", k) => k \in DOMAIN S /\ S[k] = entries["client"][k]
      BY <3>3
    <3>5. Open("client", k)' <=> Open("client", k)
      BY <1>4, <3>2, <3>3 DEF Open
    <3> QED
      BY <2>1, <2>2, <3>2, <3>4, <3>5 DEF Untouched
  <2> QED
    BY <2>3, <2>4
<1> QED
  BY <1>6, <1>7, <1>8

LEMMA UntouchedRate ==
  ASSUME LimitersTyped, PassedTyped, NEW k \in AllKeys, KeyRate(k), Untouched(k), now' = now
  PROVE  KeyRate(k)'
<1>1. Since(k)' = Since(k)
  BY DEF Untouched, Since
<1>2. \A a, b : Passes(k, a, b)' = Passes(k, a, b)
  BY DEF Untouched, Passes
<1>3. \A a, b : Cardinality(Passes(k, a, b))' = Cardinality(Passes(k, a, b))
  BY <1>2
<1>4. MaxOf(k)' = MaxOf(k)
  BY DEF MaxOf
<1>5. PassesOf(k)' = PassesOf(k) /\ (Open(Lim(k), k)' <=> Open(Lim(k), k))
  BY DEF Untouched
<1>6. Open(Lim(k), k) => entries'[Lim(k)][k] = entries[Lim(k)][k]
  BY DEF Untouched
<1> QED
  BY <1>1, <1>3, <1>4, <1>5, <1>6 DEF KeyRate

LEMMA TouchedRate ==
  ASSUME LimitersTyped, PassedTyped, PassedTyped', NEW k \in AllKeys, KeyRate(k),
         NEW r \in Requests, Touched(k, r), now' = now,
         [key |-> k, request |-> r, at |-> now] \notin passed,
         NEW since, since = Since(k)'
  PROVE  KeyRate(k)'
<1> DEFINE new == [key |-> k, request |-> r, at |-> now]
           max == MaxOf(k)
<1>0. /\ now \in Nat /\ max \in Nat /\ max > 0 /\ MaxOf(k)' = max
      /\ Expiration \in Nat /\ Expiration > 0
  BY KeyTypes, Limits DEF LimitersTyped, MaxOf
<1>1. /\ Open(Lim(k), k)' /\ since = Ends(Lim(k), k) - Expiration
      /\ entries'[Lim(k)][k].hits = Hits(Lim(k), k)
  <2>1. now < Ends(Lim(k), k)
    BY KeyTypes, Counting
  <2> QED
    BY <2>1 DEF Touched, Open, Since
<1>2. Ends(Lim(k), k) \in Nat /\ Hits(Lim(k), k) \in Nat /\ Hits(Lim(k), k) > 0
  BY KeyTypes, Counting
<1>3. /\ PassesOf(k)' \subseteq PassesOf(k) \cup {new}
      /\ Hits(Lim(k), k) <= max => PassesOf(k)' = PassesOf(k) \cup {new}
      /\ ~(Hits(Lim(k), k) <= max) => PassesOf(k)' = PassesOf(k)
  BY DEF Touched
<1>4. new.at = now /\ new.key = k /\ new \notin passed
  OBVIOUS
<1>5. \A p \in PassesOf(k) : p.at \in Nat /\ p.at <= now
  BY DEF PassesOf, PassedTyped
<1> HIDE DEF new, max
<1>6. CASE Open(Lim(k), k)
  <2>1. /\ since = Since(k) /\ Since(k) <= now /\ Since(k) \in Int
        /\ Hits(Lim(k), k) = entries[Lim(k)][k].hits + 1
    BY <1>1, <1>6, SinceInt DEF KeyRate, Hits, Ends, Since
  <2>8. entries[Lim(k)][k].hits \in Nat
    BY <1>6, KeyTypes DEF LimitersTyped, Entries, Open
  <2>2. \A a : Passes(k, a, since)' = Passes(k, a, since)
    BY <1>0, <1>3, <1>4, <2>1 DEF Passes
  <2>3. Passes(k, now, since)' = {}
    BY <1>0, <1>3, <1>4, <1>5, <2>1 DEF Passes
  <2>4. \A p \in PassesOf(k)' : p.at + Expiration > since =>
          Cardinality(Passes(k, p.at, since)') <= max - 1
    <3> SUFFICES ASSUME NEW p \in PassesOf(k)', p.at + Expiration > since
                 PROVE  Cardinality(Passes(k, p.at, since)') <= max - 1
      OBVIOUS
    <3>1. CASE p \in PassesOf(k)
      BY <2>1, <2>2, <3>1 DEF KeyRate, max
    <3>2. CASE p = new
      BY <1>0, <1>4, <2>3, <3>2, FS_EmptySet
    <3> QED
      BY <1>3, <3>1, <3>2
  <2>5. \E p \in PassesOf(k)' : p.at = since
    BY <1>3, <1>6, <2>1 DEF KeyRate
  <2>6. /\ Cardinality(Passes(k, since, now + 1)') <= Hits(Lim(k), k)
        /\ Cardinality(Passes(k, since, now + 1)') <= max
    <3> DEFINE P == Passes(k, since, now + 1)
    <3>1. /\ Cardinality(P) <= entries[Lim(k)][k].hits /\ Cardinality(P) <= max
          /\ IsFiniteSet(P) /\ Cardinality(P) \in Nat
      BY <1>6, <2>1, PassesFinite DEF KeyRate, max
    <3>2. CASE Hits(Lim(k), k) <= max
      <4>1. P' = P \cup {new} /\ new \notin P
        BY <1>0, <1>3, <1>4, <2>1, <3>2 DEF Passes, PassesOf
      <4>2. Cardinality(P') = Cardinality(P) + 1
        BY <3>1, <4>1, FS_AddElement
      <4> QED
        BY <1>0, <1>2, <2>1, <2>8, <3>1, <3>2, <4>2
    <3>3. CASE ~(Hits(Lim(k), k) <= max)
      <4>1. P' = P
        BY <1>3, <3>3, <2>1 DEF Passes
      <4> QED
        BY <1>0, <1>2, <2>1, <2>8, <3>1, <3>3, <4>1
    <3> QED
      BY <3>2, <3>3
  <2> QED
    BY <1>0, <1>1, <2>1, <2>4, <2>5, <2>6 DEF KeyRate
<1>7. CASE ~Open(Lim(k), k)
  <2>1. since = now /\ Since(k) = now /\ Hits(Lim(k), k) = 1
    BY <1>0, <1>1, <1>7 DEF Hits, Ends, Since
  <2>2. PassesOf(k)' = PassesOf(k) \cup {new} /\ \A p \in PassesOf(k) : p.at < now
    BY <1>0, <1>3, <1>7, <2>1 DEF KeyRate
  <2>3. \A a : Passes(k, a, now)' = Passes(k, a, now)
    BY <1>0, <1>4, <2>2 DEF Passes
  <2>4. \A p \in PassesOf(k)' : p.at + Expiration > now =>
          Cardinality(Passes(k, p.at, now)') <= max - 1
    <3> SUFFICES ASSUME NEW p \in PassesOf(k)', p.at + Expiration > now
                 PROVE  Cardinality(Passes(k, p.at, now)') <= max - 1
      OBVIOUS
    <3>1. CASE p \in PassesOf(k)
      BY <2>1, <2>3, <3>1 DEF KeyRate, max
    <3>2. CASE p = new
      <4>1. Passes(k, now, now)' = {}
        BY <1>0, <1>4, <1>5, <2>2 DEF Passes
      <4> QED
        BY <1>0, <1>4, <3>2, <4>1, FS_EmptySet
    <3> QED
      BY <2>2, <3>1, <3>2
  <2>5. Passes(k, now, now + 1)' = {new}
    BY <1>0, <1>4, <1>5, <2>2 DEF Passes
  <2>6. Cardinality(Passes(k, now, now + 1)') = 1
    BY <2>5, FS_Singleton
  <2>7. \E p \in PassesOf(k)' : p.at = now
    BY <1>4, <2>2
  <2> QED
    BY <1>0, <1>1, <2>1, <2>4, <2>6, <2>7 DEF KeyRate
<1> QED
  BY <1>6, <1>7

LEMMA TickRate ==
  ASSUME LimitersTyped, PassedTyped, NEW k \in AllKeys, KeyRate(k), Tick
  PROVE  KeyRate(k)'
<1> DEFINE max == MaxOf(k)
<1>0. /\ now \in Nat /\ now' = now + 1 /\ UNCHANGED <<entries, passed>>
      /\ max \in Nat /\ MaxOf(k)' = max
      /\ Expiration \in Nat /\ Expiration > 0
  BY KeyTypes, Limits DEF Tick, limiterVars, LimitersTyped, MaxOf
<1>1. /\ PassesOf(k)' = PassesOf(k) /\ \A a, b : Passes(k, a, b)' = Passes(k, a, b)
      /\ \A p \in PassesOf(k) : p \in passed /\ p.at \in Nat /\ p.at <= now
  BY <1>0 DEF PassesOf, Passes, PassedTyped
<1> HIDE DEF max
<1>2. CASE Open(Lim(k), k)'
  <2>1. Open(Lim(k), k)
    BY <1>0, <1>2, KeyTypes DEF Open, LimitersTyped, Entries
  <2>2. Since(k)' = Since(k) /\ Since(k) \in Int /\ Since(k) <= now
    BY <1>0, <1>2, <2>1, SinceInt DEF Since, KeyRate
  <2>3. Passes(k, Since(k), now + 2) = Passes(k, Since(k), now + 1)
    BY <1>0, <1>1 DEF Passes
  <2>4. Passes(k, Since(k), now + 1)' = Passes(k, Since(k), now + 1)
    <3>1. (now + 1)' = now + 2
      BY <1>0
    <3> QED
      BY <1>0, <1>1, <2>2, <2>3, <3>1
  <2>5. \A p \in PassesOf(k) : Passes(k, p.at, Since(k))' = Passes(k, p.at, Since(k))
    BY <1>1, <2>2
  <2> QED
    BY <1>0, <1>1, <1>2, <2>1, <2>2, <2>4, <2>5 DEF KeyRate, max
<1>3. CASE ~Open(Lim(k), k)'
  <2>1. Since(k)' = now + 1
    BY <1>0, <1>3 DEF Since
  <2>2. \A p \in PassesOf(k)' : p.at < now'
    BY <1>0, <1>1
  <2>3. ASSUME NEW p \in PassesOf(k), p.at + Expiration > now + 1
        PROVE  Cardinality(Passes(k, p.at, now + 1)) <= max - 1
    <3>1. CASE Open(Lim(k), k)
      <4>1. /\ Since(k) \in Int /\ Since(k) + Expiration = now + 1
        BY <1>0, <1>3, <3>1, KeyTypes DEF Since, Open, LimitersTyped, Entries
      <4>2. PICK first \in PassesOf(k) : first.at = Since(k)
        BY <3>1 DEF KeyRate
      <4> DEFINE window == Passes(k, Since(k), now + 1)
      <4>3. /\ IsFiniteSet(window) /\ Cardinality(window) \in Nat /\ Cardinality(window) <= max
        BY <3>1, PassesFinite DEF KeyRate, max
      <4>4. first \in window /\ Passes(k, p.at, now + 1) \subseteq window \ {first}
        BY <1>0, <1>1, <2>3, <4>1, <4>2 DEF Passes
      <4>5. IsFiniteSet(window \ {first}) /\ Cardinality(window \ {first}) = Cardinality(window) - 1
        BY <4>3, <4>4, FS_RemoveElement
      <4>6. /\ Cardinality(Passes(k, p.at, now + 1)) <= Cardinality(window \ {first})
            /\ Cardinality(Passes(k, p.at, now + 1)) \in Nat
        BY <4>4, <4>5, FS_Subset, FS_CardinalityType
      <4> QED
        BY <1>0, <4>3, <4>5, <4>6
    <3>2. CASE ~Open(Lim(k), k)
      <4>1. Since(k) = now
        BY <3>2 DEF Since
      <4>2. Passes(k, p.at, now + 1) = Passes(k, p.at, now)
        BY <1>0, <1>1, <3>2 DEF Passes, KeyRate
      <4>3. p.at + Expiration > Since(k)
        BY <1>0, <1>1, <2>3, <4>1
      <4> QED
        BY <4>1, <4>2, <4>3 DEF KeyRate, max
    <3> QED
      BY <3>1, <3>2
  <2>4. \A p \in PassesOf(k) : Passes(k, p.at, Since(k))' = Passes(k, p.at, now + 1)
    BY <1>1, <2>1
  <2> QED
    BY <1>0, <1>1, <1>3, <2>1, <2>2, <2>3, <2>4 DEF KeyRate, max
<1> QED
  BY <1>2, <1>3

\* The passes that RateHolds counts from one of them on.
Near(p) == Passes(p.key, p.at, p.at + Expiration)

LEMMA RateIs == RateHolds <=> \A p \in passed : Cardinality(Near(p)) <= 2 * MaxOf(p.key) - 1
<1>1. ASSUME NEW p \in passed
      PROVE  Near(p) = {q \in passed : q.key = p.key /\ q.at >= p.at /\ q.at < p.at + Expiration}
  BY DEF Near, Passes, PassesOf
<1> QED
  BY <1>1 DEF RateHolds, MaxOf

\* What can still be near a pass is what the last window left, and the window
\* that is open.
LEMMA NearOpenWindow ==
  ASSUME LimitersTyped, PassedTyped, NEW p \in passed, KeyRate(p.key),
         p.at + Expiration > Since(p.key)
  PROVE  Cardinality(Near(p)) <= 2 * MaxOf(p.key) - 1
<1> DEFINE k == p.key
           before == Passes(k, p.at, Since(k))
           within == Passes(k, Since(k), now + 1)
<1>0. /\ k \in AllKeys /\ p \in PassesOf(k) /\ p.at \in Nat /\ now \in Nat
      /\ \A q \in PassesOf(k) : q.at \in Nat /\ q.at <= now
  BY Limits DEF PassedTyped, PassesOf, LimitersTyped
<1>1. /\ Since(k) \in Int /\ MaxOf(k) \in Nat /\ MaxOf(k) > 0
      /\ Expiration \in Nat /\ Expiration > 0
  BY <1>0, SinceInt, KeyTypes, Limits
<1>2. /\ IsFiniteSet(before) /\ Cardinality(before) \in Nat
      /\ IsFiniteSet(within) /\ Cardinality(within) \in Nat
  BY PassesFinite
<1>3. Cardinality(before) <= MaxOf(k) - 1
  BY <1>0 DEF KeyRate
<1>4. Near(p) \subseteq before \cup within
  BY <1>0, <1>1 DEF Near, Passes
<1>5. Cardinality(within) <= MaxOf(k)
  <2>1. CASE Open(Lim(k), k)
    BY <2>1 DEF KeyRate
  <2>2. CASE ~Open(Lim(k), k)
    <3>1. Since(k) = now /\ \A q \in PassesOf(k) : q.at < now
      BY <2>2 DEF Since, KeyRate
    <3>2. within = {}
      BY <1>0, <3>1 DEF Passes
    <3> QED
      BY <1>1, <3>2, FS_EmptySet
  <2> QED
    BY <2>1, <2>2
<1> HIDE DEF k, before, within
<1>6. /\ IsFiniteSet(before \cup within) /\ before \cap within \in SUBSET before
      /\ Cardinality(before \cup within) =
           Cardinality(before) + Cardinality(within) - Cardinality(before \cap within)
  BY <1>2, FS_Union
<1>7. Cardinality(before \cap within) \in Nat
  BY <1>2, <1>6, FS_Subset, FS_CardinalityType
<1>8. /\ Cardinality(Near(p)) <= Cardinality(before \cup within)
      /\ Cardinality(Near(p)) \in Nat
  BY <1>4, <1>6, FS_Subset, FS_CardinalityType
<1>9. Cardinality(Near(p)) <= 2 * MaxOf(k) - 1
  BY <1>1, <1>2, <1>3, <1>5, <1>6, <1>7, <1>8
<1> QED
  BY <1>9 DEF k

\* The same of any state, as the next one needs it.
AnyRate ==
  /\ RateHolds <=> \A p \in passed : Cardinality(Near(p)) <= 2 * MaxOf(p.key) - 1
  /\ LimitersTyped => \A k \in AllKeys : Since(k) \in Int
  /\ LimitersTyped /\ PassedTyped =>
       \A p \in passed : KeyRate(p.key) /\ p.at + Expiration > Since(p.key) =>
         Cardinality(Near(p)) <= 2 * MaxOf(p.key) - 1

LEMMA RateAnywhere == AnyRate
BY RateIs, SinceInt, NearOpenWindow DEF AnyRate

\* A step adds passes that happen now, each of a request that had not arrived.
LEMMA ArrivePasses ==
  ASSUME SubmissionTyped, SubmissionInv, LimitersTyped, PassedTyped,
         NEW r \in Requests, Arrive(r)
  PROVE  /\ PassedTyped' /\ passed \subseteq passed'
         /\ \A k : [key |-> k, request |-> r, at |-> now] \notin passed
         /\ \A q \in passed' \ passed : q.at = now
<1> DEFINE Pass(k) == [key |-> k, request |-> r, at |-> now]
<1>0. PICK in \in Inputs[r] : \E keys \in SUBSET {"all", in.client} :
        passed' = passed \cup {Pass(k) : k \in keys}
  <2>1. PICK in \in Inputs[r] :
          passed' = passed \cup
            {Pass(k) : k \in (IF Count("global", "all").hits > GlobalLimit THEN {} ELSE {"all"})
                        \cup (IF \/ Count("global", "all").hits > GlobalLimit
                                 \/ Count("client", in.client).hits > ClientLimit
                              THEN {} ELSE {in.client})}
    BY DEF Arrive
  <2> QED
    BY <2>1
<1>1. PICK keys \in SUBSET {"all", in.client} : passed' = passed \cup {Pass(k) : k \in keys}
  BY <1>0
<1>2. Moves(r) /\ request[r].step = "none" /\ request'[r].step # "none" /\ now' = now
  <2>1. Progress(r)
    BY ThisKeeps DEF RequestStep
  <2> QED
    BY <2>1, ArriveMoves DEF Arrive, SubmissionTyped, Progress
<1>3. now \in Nat
  BY Limits DEF LimitersTyped
<1>4. \A k : Pass(k) \notin passed
  BY <1>2 DEF PassedTyped
<1>5. {Pass(k) : k \in keys} \subseteq {Pass("all")} \cup {Pass(in.client)}
  OBVIOUS
<1>6. IsFiniteSet(passed')
  <2>1. IsFiniteSet({Pass("all")} \cup {Pass(in.client)})
    BY FS_Singleton, FS_Union
  <2>2. IsFiniteSet({Pass(k) : k \in keys})
    BY <1>5, <2>1, FS_Subset
  <2> QED
    BY <1>1, <2>2, FS_Union DEF PassedTyped
<1>7. ASSUME NEW q \in passed'
      PROVE  /\ q.key \in AllKeys /\ q.at \in Nat /\ q.at <= now'
             /\ q.request \in Requests /\ request'[q.request].step # "none"
             /\ q \notin passed => q.at = now
  <2>1. CASE q \in passed
    <3>1. /\ q.key \in AllKeys /\ q.at \in Nat /\ q.at <= now
          /\ q.request \in Requests /\ request[q.request].step # "none"
      BY <2>1 DEF PassedTyped
    <3> QED
      BY <1>2, <2>1, <3>1 DEF Moves
  <2>2. CASE q \in {Pass("all"), Pass(in.client)}
    <3>1. in.client \in AllKeys /\ "all" \in AllKeys
      BY DEF AllKeys, ClientKeys
    <3> QED
      BY <1>2, <1>3, <2>2, <3>1
  <2> QED
    BY <1>1, <1>5, <2>1, <2>2
<1>8. AllKeys' = AllKeys
  BY DEF AllKeys, ClientKeys
<1> QED
  BY <1>1, <1>4, <1>6, <1>7, <1>8 DEF PassedTyped

\* The rate holds after a step that adds passes of now only.
LEMMA RateStep ==
  ASSUME PassedTyped, RateHolds, LimitersTyped', PassedTyped', \A k \in AllKeys : KeyRate(k)',
         passed \subseteq passed', \A q \in passed' \ passed : q.at = now', now' \in Nat
  PROVE  RateHolds'
<1>1. AnyRate'
  BY RateAnywhere, PTL
<1>2. AllKeys' = AllKeys /\ \A k : MaxOf(k)' = MaxOf(k)
  BY DEF AllKeys, ClientKeys, MaxOf
<1>3. ASSUME NEW p \in passed'
      PROVE  Cardinality(Near(p)') <= 2 * MaxOf(p.key) - 1
  <2> DEFINE k == p.key
  <2>0. k \in AllKeys /\ KeyRate(k)' /\ p.at \in Nat
    BY DEF PassedTyped
  <2>1. /\ Since(k)' \in Int /\ Since(k)' <= now'
        /\ Expiration \in Nat /\ Expiration > 0
    <3>1. Since(k)' \in Int
      BY <1>1, <1>2, <2>0 DEF AnyRate
    <3>2. Since(k)' <= now'
      <4>1. CASE Open(Lim(k), k)'
        BY <2>0, <4>1 DEF KeyRate
      <4>2. CASE ~Open(Lim(k), k)'
        BY <4>2 DEF Since
      <4> QED
        BY <4>1, <4>2
    <3> QED
      BY <3>1, <3>2, Limits
  <2>2. CASE p.at + Expiration > Since(k)'
    BY <1>1, <1>2, <2>0, <2>2 DEF AnyRate
  <2>3. CASE ~(p.at + Expiration > Since(k)')
    <3>1. p \in passed
      BY <2>0, <2>1, <2>3
    <3>2. Near(p)' = Near(p)
      BY <2>0, <2>1, <2>3 DEF Near, Passes, PassesOf, PassedTyped
    <3> QED
      BY <3>1, <3>2, RateIs
  <2> QED
    BY <2>2, <2>3
<1> QED
  BY <1>1, <1>2, <1>3 DEF AnyRate

LEMMA NextRate ==
  ASSUME SubmissionTyped, SubmissionInv, LimitersTyped, SweepInv, RateInv, [Next]_vars
  PROVE  RateInv'
<1>0. PassedTyped /\ RateHolds /\ \A k \in AllKeys : KeyRate(k)
  BY DEF RateInv
<1>1. LimitersTyped' /\ now' \in Nat /\ AllKeys' = AllKeys
  BY NextLimiters, Limits DEF LimitersTyped, AllKeys, ClientKeys
<1>2. ASSUME NEW r \in Requests, Arrive(r)
      PROVE  RateInv'
  <2>1. /\ PassedTyped' /\ passed \subseteq passed' /\ now' = now
        /\ \A k : [key |-> k, request |-> r, at |-> now] \notin passed
        /\ \A q \in passed' \ passed : q.at = now
    BY <1>0, <1>2, ArrivePasses DEF Arrive
  <2>2. ASSUME NEW k \in AllKeys
        PROVE  KeyRate(k)'
    <3>1. CASE Untouched(k)
      BY <1>0, <2>1, <3>1, UntouchedRate
    <3>2. CASE Touched(k, r)
      BY <1>0, <2>1, <3>2, TouchedRate
    <3> QED
      BY <1>2, <3>1, <3>2, ArriveKeys
  <2>3. RateHolds'
    BY <1>0, <1>1, <2>1, <2>2, RateStep
  <2> QED
    BY <1>1, <2>1, <2>2, <2>3 DEF RateInv
<1>3. CASE Tick
  <2>1. now' = now + 1 /\ UNCHANGED <<passed, request>> /\ now \in Nat
    BY <1>3, Limits DEF Tick, limiterVars, LimitersTyped
  <2>2. PassedTyped'
    BY <1>0, <1>1, <2>1 DEF PassedTyped
  <2>3. \A k \in AllKeys : KeyRate(k)'
    BY <1>0, <1>3, TickRate
  <2>4. RateHolds'
    BY <1>0, <1>1, <2>1, <2>2, <2>3, RateStep
  <2> QED
    BY <1>1, <2>2, <2>3, <2>4 DEF RateInv
<1>4. CASE \/ \E r \in Requests : RequestStep(r) /\ ~Arrive(r)
           \/ EditForm \/ CancelRequests \/ UNCHANGED vars
  <2>1. UNCHANGED <<now, entries, passed>>
    BY <1>4 DEF RequestStep, LoadForm, CheckInput, Verify, VerifyLost, VerifyAborted,
                CreateSubmission, EditForm, CancelRequests, vars, limiterVars
  <2>2. \A q \in Requests : request[q].step # "none" => request'[q].step # "none"
    <3>1. CASE \E r \in Requests : RequestStep(r)
      BY <3>1, ThisKeeps DEF Progress, Moves
    <3>2. CASE EditForm \/ CancelRequests \/ UNCHANGED vars
      BY <3>2, SurroundingsKeep
    <3> QED
      BY <1>4, <3>1, <3>2
  <2>3. PassedTyped'
    BY <1>0, <1>1, <2>1, <2>2 DEF PassedTyped
  <2>4. \A k \in AllKeys : KeyRate(k)'
    BY <1>0, <2>1, UntouchedRate DEF Untouched, PassesOf, Open
  <2>5. RateHolds'
    BY <1>0, <1>1, <2>1, <2>3, <2>4, RateStep
  <2> QED
    BY <1>1, <2>3, <2>4, <2>5 DEF RateInv
<1> QED
  BY <1>2, <1>3, <1>4, NextIsStep

LEMMA InitRate == Init => RateInv
<1> SUFFICES ASSUME Init
             PROVE  RateInv
  OBVIOUS
<1>1. passed = {} /\ PassedTyped
  BY FS_EmptySet DEF Init, PassedTyped
<1>2. ASSUME NEW k \in AllKeys
      PROVE  KeyRate(k)
  <2>1. ~Open(Lim(k), k)
    BY KeyTypes DEF Init, Open
  <2> QED
    BY <1>1, <2>1 DEF KeyRate, PassesOf
<1> QED
  BY <1>1, <1>2 DEF RateInv, RateHolds

LEMMA AlwaysRate ==
  Spec => [](SubmissionTyped /\ SubmissionInv /\ LimitersTyped /\ SweepInv /\ RateInv)
BY InitSubmission, NextSubmission, InitLimiters, NextLimiters, InitRate, NextRate, PTL DEF Spec

\* Expiring and sweeping entries never resets a window that is still open
\* (rate_limit_storage.go:35, 83): in less than a window's time from any pass
\* a key passes at most twice its limit less one.
THEOREM AdmissionRateHolds == Spec => []RateHolds
<1>1. RateInv => RateHolds
  BY DEF RateInv
<1> QED
  BY <1>1, AlwaysRate, PTL

\* Types, the bound on the attempts of a verification (turnstile.go:67), where
\* redirects lead (origins.go:40) and the storage of the limiters
\* (rate_limit_storage.go:84).
THEOREM AdmissionInvariant == Spec => []Inv
<1>1. ASSUME SubmissionTyped, SubmissionInv, LimitersTyped, SweepInv
      PROVE  Inv
  <2>1. RedirectsStayHome
    BY <1>1 DEF SubmissionInv, RequestInv, StaysHome, RedirectsStayHome
  <2>2. SweptInTime
    BY <1>1 DEF SweepInv, SweptInTime
  <2>3. ASSUME NEW r \in Requests
        PROVE  /\ request[r].step \in {"none", "admitted", "loaded", "verifying", "verified",
                                       "answered"}
               /\ request[r].attempt \in 0 .. attempts - 1
               /\ request[r].answer.status \in Statuses
    <3>1. CASE request[r] \in Fresh
      BY <3>1, Constants DEF Fresh, NoAnswer, Statuses
    <3>2. CASE request[r] \in Arrived(r) \cup Loaded(r)
      BY <3>2 DEF Arrived, Loaded, Answers
    <3> QED
      BY <1>1, <3>1, <3>2 DEF SubmissionTyped, RequestsTyped
  <2>4. TypeOK
    BY <1>1, <2>3 DEF TypeOK, Statuses, SubmissionTyped, LimitersTyped, Entries
  <2> QED
    BY <2>1, <2>2, <2>4 DEF Inv
<1> QED
  BY <1>1, AlwaysRate, PTL
=============================================================================
