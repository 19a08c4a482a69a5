---------------------------- MODULE MCQrPayments ----------------------------
(***************************************************************************)
(* Instances of QrPayments for TLC.                                        *)
(***************************************************************************)
EXTENDS QrPayments, TLC

Symmetry == Permutations(Qrs) \cup Permutations(Slots)

\* Most properties are about QRs that were never removed: after a removal two
\* references will do, the removed one and that of a late save.
TwoRefsOnceRemoved == \A q \in removed : refs[q] <= 2
=============================================================================
