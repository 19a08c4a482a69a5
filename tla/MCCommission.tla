---------------------------- MODULE MCCommission ----------------------------
(***************************************************************************)
(* Instances of Commission for TLC.                                        *)
(***************************************************************************)
EXTENDS Commission, TLC

Symmetry == Permutations(Payments) \cup Permutations(Slots)
=============================================================================
