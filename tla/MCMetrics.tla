----------------------------- MODULE MCMetrics ------------------------------
(***************************************************************************)
(* Instances of Metrics for TLC: three merchants with businesses, the first *)
(* with two; one without; an admin (5) with a business. Day 10 is a Sunday. *)
(* p3 goes to the first merchant, whose volume then equals the second's, to *)
(* the third or to the admin.                                              *)
(***************************************************************************)
EXTENDS Metrics, TLC

CONSTANTS p1, p2, p3

UserOfBusiness == <<1, 1, 2, 3, 5>>
AskersOf == (p1 :> {1}) @@ (p2 :> {3}) @@ (p3 :> {2, 4, 5})
AmountOf == (p1 :> 2) @@ (p2 :> 5) @@ (p3 :> 3)

Symmetry == Permutations(Handlers)

\* Handlers overlap while there is one payment: an update touches one row.
OverlapOnOne ==
    \/ Cardinality({p \in Payments : row[p] # NoRow}) <= 1
    \/ twice = {} /\ Cardinality({h \in Handlers : hand[h] # NoUpdate}) <= 1

OverlapOnOneSpec == MetricsInit /\ [][MetricsNext /\ OverlapOnOne']_metricsVars
=============================================================================
