------------------------- MODULE MCWebhookDelivery -------------------------
(***************************************************************************)
(* Instances of WebhookDelivery for TLC.                                   *)
(***************************************************************************)
EXTENDS WebhookDelivery, TLC

\* Every call is of the same type.
OneType == [e \in Events |-> CHOOSE type \in Types : TRUE]

Symmetry == Permutations(Endpoints) \cup Permutations(Events)
            \cup Permutations(Slots)

\* A second update of the endpoint in flight leads nowhere that a sequence of
\* updates does not: whatever it read, what it saves is a status.
OneUpdateInFlight == Cardinality(updating) <= 1
=============================================================================
