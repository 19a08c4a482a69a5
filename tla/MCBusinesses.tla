---------------------------- MODULE MCBusinesses ----------------------------
(***************************************************************************)
(* Instances of Businesses for TLC.                                        *)
(***************************************************************************)
EXTENDS Businesses, TLC

Symmetry == Permutations(Ids) \cup Permutations(Wallets)
            \cup Permutations(Slots)
=============================================================================
