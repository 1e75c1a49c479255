----------------------------- MODULE MCUserLock -----------------------------
(* Instances of UserLock for TLC.                                          *)
EXTENDS UserLock, TLC

\* Requests differ only in their tokens.
Interchangeable == Permutations(Request)
=============================================================================
