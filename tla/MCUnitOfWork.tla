----------------------------- MODULE MCUnitOfWork -----------------------------
(* Model values and bounds for checking UnitOfWork. *)
EXTENDS UnitOfWork, TLC

Symmetry == Permutations(Key)
=============================================================================
