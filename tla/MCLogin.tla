------------------------------ MODULE MCLogin -------------------------------
(* Instances of Login for TLC. *)
EXTENDS Login, TLC

\* Logins differ only in their names and tokens.
Interchangeable == Permutations(Logins)

\* The game database has no weight.
ThreeDatabases ==
    <<[id |-> 1, weight |-> 0], [id |-> 10, weight |-> 1], [id |-> 11, weight |-> 2]>>
=============================================================================
