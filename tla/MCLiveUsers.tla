---------------------------- MODULE MCLiveUsers ----------------------------
(***************************************************************************)
(* Instances of LiveUsers for TLC.                                         *)
(***************************************************************************)
EXTENDS LiveUsers, TLC

Symmetry == Permutations(Users) \cup Permutations(Sockets)
=============================================================================
