------------------------- MODULE MCPublicAdmission -------------------------
(***************************************************************************)
(* An instance of PublicAdmission: one site with a subdomain and a         *)
(* stranger, a good captcha token and one solved elsewhere.                *)
(***************************************************************************)
EXTENDS PublicAdmission, TLC

CONSTANTS good, elsewhere, r1, r2, r3

Home == <<"site">>
Sub == <<"www", "site">>
Stranger == <<"other">>
Url(host) == [kind |-> "url", host |-> host]
Path == [kind |-> "path", host |-> NoHost]
Odd == [kind |-> "odd", host |-> NoHost]

MCVerdict ==
  (good :> [valid |-> TRUE, action |-> "submit", host |-> Home])
    @@ (elsewhere :> [valid |-> TRUE, action |-> "submit", host |-> Stranger])

MCSettings ==
  {[origins |-> {Home}, captcha |-> TRUE, uploads |-> TRUE, live |-> TRUE],
   [origins |-> {AnyHost}, captcha |-> TRUE, uploads |-> FALSE, live |-> TRUE],
   [origins |-> {AnyHost}, captcha |-> FALSE, uploads |-> FALSE, live |-> TRUE]}

Usual ==
  [client |-> "c1", origin |-> Home, token |-> TRUE, body |-> "fields", captcha |-> good,
   success |-> Path, failure |-> Nowhere]

Shapes ==
  {Usual,
   [Usual EXCEPT !.origin = Sub, !.body = "file", !.success = Url(Sub), !.failure = Path],
   [Usual EXCEPT !.origin = NoHost, !.body = "honeypot", !.success = Nowhere],
   [Usual EXCEPT !.captcha = elsewhere, !.success = Url(Stranger)],
   [Usual EXCEPT !.client = "c2", !.body = "invalid", !.success = Odd, !.failure = Url(Home)],
   [Usual EXCEPT !.client = "c2", !.body = "reserved", !.captcha = NoToken, !.failure = Odd]}

\* The third request only takes its share of the limits.
MCInputs ==
  (r1 :> Shapes) @@ (r2 :> Shapes) @@ (r3 :> {[Usual EXCEPT !.client = "c2", !.token = FALSE]})

Symmetry == Permutations({r1, r2})
=============================================================================
