----------------------------- MODULE MCApiKeys -----------------------------
(***************************************************************************)
(* Instances of ApiKeys for TLC.                                           *)
(***************************************************************************)
EXTENDS ApiKeys, TLC

Symmetry == Permutations(Keys) \cup Permutations(Slots)
=============================================================================
