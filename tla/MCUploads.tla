----------------------------- MODULE MCUploads -----------------------------
(***************************************************************************)
(* Instances of UploadLifecycle: two uploads (one of two files), deletion  *)
(* of one submission and of the form.  In one process, or as the shipped   *)
(* program runs them: public uploads in the server, deletions and imports  *)
(* in processes of the CLI.                                                *)
(***************************************************************************)
EXTENDS UploadLifecycle, TLC

CONSTANTS u1, u2, d1, d2, f1, f2, f3, server, cli, cli2, cli3

MCFilesOf == (u1 :> {f1, f2}) @@ (u2 :> {f3})
MCFilesOfOne == (u1 :> {f1}) @@ (u2 :> {f3})
MCTargetOf == (d1 :> {u1}) @@ (d2 :> {u1, u2})
MCTargetOfOne == d1 :> {u1}
InServer == [t \in Tasks |-> server]
Spread == [t \in Tasks |-> CASE t = u1 -> server [] t = u2 -> cli [] t = d1 -> cli2 [] OTHER -> cli3]
Both == {InServer, Spread}
Shipped == {Spread}
=============================================================================
