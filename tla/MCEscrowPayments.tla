-------------------------- MODULE MCEscrowPayments --------------------------
(***************************************************************************)
(* Instances of EscrowPayments for TLC.                                    *)
(***************************************************************************)
EXTENDS EscrowPayments, TLC

\* Neither wallets nor slots nor payments are compared with anything but
\* themselves.
WalletsAndSlots ==
    Permutations(Wallets) \cup Permutations(Slots) \cup Permutations(Payments)

\* Buyers that ask for transactions and never sign one: what is left to the
\* scans is to expire every row, BatchSize at a time.
AbandonedSpec == Init /\ [][Next /\ UNCHANGED escrow]_vars /\ Fairness
=============================================================================
