---------------------------- MODULE DeliveryQueue ----------------------------
(***************************************************************************)
(* What webhooks with retries promise a merchant, without the rows, copies *)
(* and overlapping runs that keep the promise: a queue of deliveries, each *)
(* accepted once and closed once.  WebhookDelivery implements this         *)
(* specification.                                                          *)
(***************************************************************************)
EXTENDS Naturals

CONSTANTS Deliveries, MaxAttempts

VARIABLES
    accepted,   \* deliveries that have entered the queue
    open,       \* those that somebody holds, or will take up
    posts,      \* POSTs made for each, up to one too many
    acked,      \* deliveries answered with a 2xx
    lost,       \* deliveries given up by a failure or with their endpoint
    shared      \* deliveries that two runs have held at the same time

vars == <<accepted, open, posts, acked, lost, shared>>

Init ==
    /\ accepted = {}
    /\ open = {}
    /\ posts = [id \in Deliveries |-> 0]
    /\ acked = {}
    /\ lost = {}
    /\ shared = {}

\* A dispatch sets out to make its deliveries, all of them new.
Accept(S) ==
    /\ S \cap accepted = {}
    /\ accepted' = accepted \cup S
    /\ UNCHANGED <<posts, acked, lost, shared>>
    /\ open' = open \cup S

\* A POST: never too many, never after a 2xx, unless two runs have shared the
\* delivery.
Attempt(id, answer) ==
    /\ id \in open
    /\ id \in shared \/ (posts[id] < MaxAttempts /\ id \notin acked)
    /\ posts' = [posts EXCEPT ![id] = IF @ > MaxAttempts THEN @ ELSE @ + 1]
    /\ acked' = IF answer = "ok" THEN acked \cup {id} ELSE acked
    /\ UNCHANGED <<accepted, open, lost, shared>>

\* Deliveries L are lost, though some may remain in somebody's hands; what is
\* closed was acknowledged, lost or attempted as often as allowed.
Settle(L) ==
    /\ L \subseteq accepted
    /\ lost' = lost \cup L
    /\ UNCHANGED <<accepted, posts, acked, shared>>
    /\ open' \subseteq open
    /\ \A id \in open \ open' : id \in acked \cup lost' \/ posts[id] >= MaxAttempts

\* A second run takes up what another one holds.
Overlap(S) ==
    /\ shared' = shared \cup S
    /\ S \subseteq open
    /\ UNCHANGED <<accepted, open, posts, acked, lost>>

Next ==
    \/ \E S \in SUBSET Deliveries : Accept(S) \/ Settle(S) \/ Overlap(S)
    \/ \E id \in Deliveries, answer \in {"ok", "failed"} : Attempt(id, answer)

Spec == Init /\ [][Next]_vars

=============================================================================
