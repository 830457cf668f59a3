-------------------------- MODULE MCAdministration --------------------------
(* Two operators, one operation each through a page or a command, on one of *)
(* the four kinds of rows; entries of one byte and field or of two of each. *)
EXTENDS Administration, TLC
MCContents == {[bytes |-> 1, fields |-> {"a"}], [bytes |-> 2, fields |-> {"b", "c"}]}
Symmetry == Permutations(Operators) \cup Permutations(Names) \cup Permutations(Secrets)
=============================================================================
