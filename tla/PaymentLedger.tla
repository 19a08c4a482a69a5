--------------------------- MODULE PaymentLedger ---------------------------
(***************************************************************************)
(* What the payment rows promise to a merchant, without the handlers that  *)
(* write them: a row may name a stage of the sale only when the chain, the *)
(* seller or the clock has reached that stage.  EscrowPayments implements  *)
(* this specification.                                                     *)
(***************************************************************************)

CONSTANT Payments

VARIABLES
    status,     \* payments.status of each row, "absent" before it exists
    chain,      \* how far the best escrow account of the payment has come
    shipped,    \* payments whose shipment the seller has recorded
    overdue     \* payments whose expires_at has passed

vars == <<status, chain, shipped, overdue>>

Status == {"absent", "pending", "escrow_locked", "shipped", "released",
           "auto_released", "expired"}

ChainState == {"none", "locked", "released"}

TypeOK ==
    /\ status \in [Payments -> Status]
    /\ chain \in [Payments -> ChainState]
    /\ shipped \subseteq Payments
    /\ overdue \subseteq Payments

Init ==
    /\ status = [p \in Payments |-> "absent"]
    /\ chain = [p \in Payments |-> "none"]
    /\ shipped = {}
    /\ overdue = {}

\* What must already be true of payment p for its row to be given status s.
Justified(p, s) ==
    \/ s = "pending" /\ status[p] = "absent"
    \/ s = "escrow_locked" /\ chain[p] # "none"
    \/ s = "released" /\ chain[p] = "released"
    \/ s = "auto_released" /\ chain[p] # "none" /\ p \in shipped
    \/ s = "expired" /\ p \in overdue

Report(p, s) ==
    /\ Justified(p, s)
    /\ status' = [status EXCEPT ![p] = s]
    /\ UNCHANGED <<chain, shipped, overdue>>

Ship(p) ==
    /\ chain[p] # "none"
    /\ status' = [status EXCEPT ![p] = "shipped"]
    /\ shipped' = shipped \cup {p}
    /\ UNCHANGED <<chain, overdue>>

\* The chain never takes a step back: an escrow is locked once, released once.
ChainMoves(p) ==
    /\ \/ chain[p] = "none" /\ chain' = [chain EXCEPT ![p] = "locked"]
       \/ chain[p] = "locked" /\ chain' = [chain EXCEPT ![p] = "released"]
    /\ UNCHANGED <<status, shipped, overdue>>

DeadlinePasses(p) ==
    /\ overdue' = overdue \cup {p}
    /\ UNCHANGED <<status, chain, shipped>>

Next ==
    \E p \in Payments :
        \/ \E s \in Status : Report(p, s)
        \/ Ship(p)
        \/ ChainMoves(p)
        \/ DeadlinePasses(p)

Spec == Init /\ [][Next]_vars

\* A row that says the money is locked, shipped against or paid out is never
\* ahead of the chain.
ClaimsBacked ==
    \A p \in Payments :
        /\ status[p] \in {"escrow_locked", "shipped", "released", "auto_released"}
               => chain[p] # "none"
        /\ status[p] = "released" => chain[p] = "released"
=============================================================================
