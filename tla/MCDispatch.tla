----------------------------- MODULE MCDispatch -----------------------------
(* Instances of Dispatch for TLC.                                          *)
EXTENDS Dispatch, TLC

\* Upgrades differ only in their names.
UpgradesInterchangeable == Permutations(Upgrades)
=============================================================================
