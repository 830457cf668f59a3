-------------------------- MODULE MCAdminSessions --------------------------
(* Two starts, two sign-ins, a request and a command. *)
EXTENDS AdminSessions, TLC
CONSTANTS b1, b2, p1, p2
MCBootPassword == (b1 :> p1) @@ (b2 :> p2)
Symmetry == Permutations(Logins)
=============================================================================
