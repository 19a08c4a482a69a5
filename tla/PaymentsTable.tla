---------------------------- MODULE PaymentsTable ----------------------------
(***************************************************************************)
(* What the models of the reports share: the ids of the payments table,    *)
(* null, and SUM.                                                          *)
(***************************************************************************)
EXTENDS Integers, FiniteSets

CONSTANTS
    Payments,       \* ids of the payments that may be created
    None            \* null

\* SUM of the values of f, naturals, one for each row: the number of pairs of
\* a row and one of its units.  (Sums that are cardinalities can be reasoned
\* about without recursion.)
Total(f) == Cardinality(UNION {{x} \X (1..f[x]) : x \in DOMAIN f})

=============================================================================
