--------------------------- MODULE PaymentReceipts ---------------------------
(***************************************************************************)
(* What QR payments promise a business, without the QRs, copies and        *)
(* overlapping scans that keep the promise: each payment is entered into   *)
(* the books once, and whoever has entered it is the only one to tell of   *)
(* it.  QrPayments implements this specification.                          *)
(***************************************************************************)

CONSTANTS Signatures, Tellers

VARIABLES
    paid,       \* payments made
    recorded,   \* those in the books
    telling,    \* <<teller, payment>>: has entered it and is going to tell
    told,       \* payments that the business was told of
    missed,     \* payments that a failure took from their teller
    void        \* payments whose books were thrown away

vars == <<paid, recorded, telling, told, missed, void>>

Init ==
    /\ paid = {}
    /\ recorded = {}
    /\ telling = {}
    /\ told = {}
    /\ missed = {}
    /\ void = {}

\* Buyers still pay when the books are gone.
Pay(s) ==
    /\ s \notin paid
    /\ paid' = paid \cup {s}
    /\ void' \in {void, void \cup {s}}
    /\ UNCHANGED <<recorded, telling, told, missed>>

\* A payment is entered when the books do not have it.  tellers: who tells of
\* it, one or none; before, a teller had nothing to tell.
Record(s, tellers) ==
    /\ s \in paid \ recorded
    /\ \A h, k \in tellers : h = k
    /\ \A pair \in telling : pair[1] \notin tellers
    /\ recorded' = recorded \cup {s}
    /\ telling' = telling \cup (tellers \X {s})
    /\ UNCHANGED <<paid, told, missed, void>>

Tell(h, s) ==
    /\ <<h, s>> \in telling
    /\ telling' = telling \ {<<h, s>>}
    /\ told' = told \cup {s}
    /\ UNCHANGED <<paid, recorded, missed, void>>

\* What tellers leave unsaid is missed, or void.
Leave(pairs) ==
    /\ pairs \subseteq telling
    /\ telling' = telling \ pairs
    /\ missed \subseteq missed'
    /\ missed' \subseteq missed \cup {pair[2] : pair \in pairs}
    /\ \A pair \in pairs : pair[2] \in missed' \cup void
    /\ UNCHANGED <<paid, recorded, told, void>>

\* The books on payments S are thrown away, those still to come included.
Discard(S) ==
    /\ S \subseteq paid
    /\ void' = void \cup S
    /\ recorded' = recorded \ S
    /\ UNCHANGED <<paid, telling, told, missed>>

Next ==
    \/ \E pairs \in SUBSET telling : Leave(pairs)
    \/ \E s \in Signatures :
          \/ Pay(s)
          \/ Record(s, {})
          \/ \E h \in Tellers : Record(s, {h}) \/ Tell(h, s)
    \/ \E S \in SUBSET paid : Discard(S)

Spec == Init /\ [][Next]_vars

=============================================================================
