------------------------ MODULE EscrowNotifications ------------------------
(***************************************************************************)
(* From a change of a payment to the merchant who is told of it:           *)
(* EscrowPayments and WebhookDelivery composed.  Both live in one process  *)
(* and one database, for the payments and the endpoints of one business.   *)
(*                                                                         *)
(* A handler of the payments (a scan, shipPayment) updates its row, then   *)
(* awaits webhookDelivery.dispatch, then paymentWebhook.dispatch.  A step  *)
(* here is a step of one component while the other stands still, or a step *)
(* of both: the call of dispatch, its rejection, the stop of the process.  *)
(* What EscrowPayments defines keeps its name; the variables row, task and *)
(* contended of WebhookDelivery are called delivery, run and shared here.  *)
(***************************************************************************)
EXTENDS EscrowPayments

CONSTANTS
    Endpoints,
    Types,          \* event types that endpoints subscribe to
    Timers,         \* runs of processPendingRetries in flight
    MaxAttempts,    \* MAX_ATTEMPTS
    RetryBatch,     \* `take` of processPendingRetries
    CallBound,      \* bound: calls of dispatch for one payment and event
    Nothing         \* no call, or no delivery, in hand

VARIABLES
    endpoint, subscribed, updating, dispatched, delivery, run, posts, acked,
    addressed, dropped, shared,
    call,           \* the call of dispatch that each handler has made
    lost            \* history: <<p, event>> whose notification a failure cut
                    \* short

hookVars == <<endpoint, subscribed, updating, dispatched, delivery, run,
              posts, acked, addressed, dropped, shared>>
systemVars == <<vars, hookVars, call, lost>>

-----------------------------------------------------------------------------
ASSUME TypesAssumption == Types \subseteq Events
ASSUME RunsAssumption == Slots \cap Timers = {}

\* A call of dispatch: for which payment, of which event, and a number.
Calls == Payments \X Types \X (1..CallBound)

Hooks == INSTANCE WebhookDelivery WITH
    Events <- Calls, TypeOf <- [c \in Calls |-> c[2]],
    Slots <- Slots \cup Timers, BatchSize <- RetryBatch,
    row <- delivery, task <- run, contended <- shared

ASSUME AttemptsAssumption == MaxAttempts \in Nat \ {0}
ASSUME RetryBatchAssumption == RetryBatch \in Nat \ {0}
ASSUME NothingAssumption == Nothing \notin Hooks!Copy \cup Calls

SystemTypeOK ==
    /\ TypeOK
    /\ Hooks!TypeOK
    /\ call \in [Slots -> Calls \cup {Nothing}]
    /\ lost \subseteq Payments \X Events

SystemInit ==
    /\ Init
    /\ Hooks!Init
    /\ call = [h \in Slots |-> Nothing]
    /\ lost = {}

-----------------------------------------------------------------------------
(* The notification of a change.                                           *)

Notifying(h) == task[h].pc = "notify"

\* Payment and event of the change that a handler is telling of.
Change(h) == <<Current(h).p, EventOf(task[h].kind)>>

\* The calls still to be made for a change, if its type is modelled.
Open(change) == {c \in Calls \ dispatched : <<c[1], c[2]>> = change}

\* webhookDelivery.dispatch is called and finds endpoints to tell.
DispatchCalled(h) ==
    /\ Notifying(h)
    /\ call[h] = Nothing
    /\ \E c \in Open(Change(h)) :
          /\ \A d \in Open(Change(h)) : c[3] <= d[3]
          /\ Hooks!DispatchStart(h, c)
          /\ call' = [call EXCEPT ![h] = c]
    /\ UNCHANGED <<vars, lost>>

\* No endpoint is active and subscribed: dispatch returns at once.
NobodyToTell(h) ==
    \A c \in Open(Change(h)) : Hooks!Targets(c) = {}

\* Variant: the call of dispatch is not awaited.
ToldAtOnce(h) ==
    /\ Notifying(h)
    /\ call[h] # Nothing \/ NobodyToTell(h)
    /\ Notify(h)
    /\ call' = [call EXCEPT ![h] = Nothing]
    /\ UNCHANGED <<hookVars, lost>>

\* dispatch has returned: paymentWebhook.dispatch, which never rejects, and
\* on with the next row.
Told(h) ==
    /\ Notifying(h)
    /\ IF call[h] = Nothing THEN NobodyToTell(h) ELSE run[h] = Hooks!Idle
    /\ Notify(h)
    /\ call' = [call EXCEPT ![h] = Nothing]
    /\ UNCHANGED <<hookVars, lost>>

\* A save inside dispatch, or another await of the handler, is rejected.
Fails(h) ==
    /\ HandlerFails(h)
    /\ IF run[h] = Hooks!Idle THEN UNCHANGED hookVars ELSE Hooks!RunFails(h)
    /\ call' = [call EXCEPT ![h] = Nothing]
    /\ lost' = IF Notifying(h) THEN lost \cup {Change(h)} ELSE lost

\* The machine stops: both components lose what they have in flight.
MachineStops ==
    /\ \/ ProcessStops
       \/ UNCHANGED vars /\ \A h \in Slots : task[h] = Idle
    /\ \/ Hooks!ProcessStops
       \/ UNCHANGED hookVars
             /\ \A t \in Slots \cup Timers : run[t] = Hooks!Idle
    /\ call' = [h \in Slots |-> Nothing]
    /\ lost' = lost \cup {Change(h) : h \in {g \in Slots : Notifying(g)}}

-----------------------------------------------------------------------------
(* Steps of one component.                                                 *)

PaymentsOnly(A) == A /\ UNCHANGED <<hookVars, call, lost>>
HooksOnly(A) == A /\ UNCHANGED <<vars, call, lost>>

\* A run of dispatch, or of the timer, goes on; the failure of a dispatch is
\* Fails.
RunStep(t) ==
    HooksOnly(
        \/ \E d \in run[t].todo : \/ Hooks!DispatchInsert(t, d)
                                  \/ Hooks!RetrySkip(t, d)
        \/ Hooks!Claims(t)
        \/ \E answer \in {"ok", "failed"} : Hooks!Post(t, answer)
        \/ Hooks!SaveOutcome(t)
        \/ t \in Timers /\ Hooks!RunFails(t))

SystemNext ==
    \/ PaymentsOnly(Environment)
    \/ \E h \in Slots :
          \/ PaymentsOnly(Begins(h) \/ GoesOn(h))
          \/ DispatchCalled(h)
          \/ Told(h)
          \/ Fails(h)
    \/ \E t \in Slots \cup Timers : RunStep(t)
    \/ \E t \in Timers : HooksOnly(Hooks!RetryStart(t))
    \/ \E id \in Hooks!Deliveries : HooksOnly(Hooks!RetryBecomesDue(id))
    \/ HooksOnly(Hooks!Merchant)
    \/ MachineStops

System == SystemInit /\ [][SystemNext]_systemVars
-----------------------------------------------------------------------------
(* What a merchant can rely on.                                             *)

\* The changes that a row shows: the stages it has gone through.
Shown(p) ==
    (IF row[p].escrowPda # NoWallet THEN {"escrow.locked"} ELSE {})
    \cup (IF row[p].shippedAt THEN {"escrow.shipped"} ELSE {})
    \cup (CASE row[p].status = "released" -> {"escrow.released"}
            [] row[p].status = "auto_released" -> {"escrow.auto_released"}
            [] row[p].status = "expired" -> {"payment.expired"}
            [] OTHER -> {})

\* What the world outside the database says of an event.
Backed(p, event) ==
    CASE event = "escrow.released" -> PaidOut(p) # {}
      [] event = "payment.expired" -> p \in overdue
      [] OTHER -> Locked(p) # {}

\* Whatever a merchant is POSTed, at the first attempt or hours later in a
\* retry, by a run of dispatch that is still going on or was cut short, is
\* backed by the chain or the clock, and the row that the merchant reads in
\* answer to it already shows the change (a row that two handlers held may
\* have lost it again).
PostsTruthful ==
    \A id \in Hooks!Deliveries :
        LET p == id[1][1]
            event == id[1][2]
        IN  posts[id] > 0 =>
                Backed(p, event) /\ (p \in contended \/ event \in Shown(p))

Settled(id) ==
    \/ delivery[id].delivered
    \/ posts[id] >= MaxAttempts
    \/ id \in dropped

\* No change of a payment is forgotten without a failure: as long as none cut
\* its notification short, the handler that made it is telling of it, or has
\* told the payment's own webhook after a first attempt at every endpoint, and
\* what these attempts left over waits for a retry.
ChangesTold ==
    \A p \in Payments : \A event \in Shown(p) :
        \/ <<p, event>> \in lost
        \/ \E h \in Slots : Notifying(h) /\ Change(h) = <<p, event>>
        \/ /\ event \in sent[p]
           /\ \A id \in addressed : <<id[1][1], id[1][2]>> = <<p, event>> =>
                 /\ posts[id] > 0
                 /\ \/ Settled(id)
                    \/ delivery[id].retry # "none"
                    \/ \E t \in Timers : id \in Hooks!Held(t)

-----------------------------------------------------------------------------
(* What is inductive of the two components together.                        *)

\* Payment and event of a call of dispatch.
ChangeOf(c) == <<c[1], c[2]>>

\* A handler that has called dispatch is telling of the change it called it
\* for, and the run in its slot is the one of that call.
Awaited(h) ==
    /\ call[h] # Nothing => Notifying(h) /\ ChangeOf(call[h]) = Change(h)
    /\ run[h] # Hooks!Idle => call[h] # Nothing /\ run[h].kind = "dispatch"
    /\ \A id \in Hooks!Copied(h) : id[1] = call[h]

\* dispatch was only ever called for changes that are true.
CallsTruthful ==
    \A c \in dispatched :
        /\ Backed(c[1], c[2])
        /\ c[1] \in contended \/ c[2] \in Shown(c[1])

\* The deliveries that the run of a handler has not POSTed yet.
Unposted(h) ==
    {d.id : d \in run[h].todo}
    \cup (IF run[h].pc = "post" THEN {run[h].cur.id} ELSE {})

\* A dispatch gets to every delivery it set out to make, or is cut short.
Reached ==
    \A id \in addressed :
        \/ posts[id] > 0
        \/ ChangeOf(id[1]) \in lost
        \/ \E h \in Slots : id \in Unposted(h)

\* A change of a row is told of, or about to be, or its handler was cut short.
ShownTold ==
    \A p \in Payments : \A event \in Shown(p) :
        \/ event \in sent[p]
        \/ <<p, event>> \in lost
        \/ \E h \in Slots : Notifying(h) /\ Change(h) = <<p, event>>

\* The inductive invariant behind PostsTruthful and ChangesTold, to be added
\* to those of the components.
TellingInv ==
    /\ call \in [Slots -> Calls \cup {Nothing}]
    /\ \A h \in Slots : Awaited(h)
    /\ CallsTruthful
    /\ Reached
    /\ ShownTold

-----------------------------------------------------------------------------
(* Liveness.  As in the components: handlers and runs in flight do not      *)
(* hang, time passes, cron and the timer start their runs again and again,  *)
(* the RPC node does not fail for ever and a process that stops does not    *)
(* stop at the same place for ever.  Nothing is assumed of merchants and    *)
(* buyers.                                                                  *)

HandlerProgress(h) ==
    PaymentsOnly(GoesOn(h)) \/ DispatchCalled(h) \/ Told(h)
        \/ Fails(h) \/ RunStep(h)

SystemFairness ==
    /\ \A id \in Hooks!Deliveries :
          WF_systemVars(HooksOnly(Hooks!RetryBecomesDue(id)))
    /\ \A h \in Slots :
          /\ WF_systemVars(HandlerProgress(h))
          /\ SF_systemVars(PaymentsOnly(ScanStart(h, "scanEscrowReleased")))
          /\ SF_systemVars(PaymentsOnly(ScanFinds(h, "scanEscrowReleased")))
          /\ SF_systemVars(PaymentsOnly(MarkReleased(h)))
    /\ \A t \in Timers :
          /\ WF_systemVars(RunStep(t))
          /\ WF_systemVars(HooksOnly(Hooks!RetryStart(t)))
          /\ SF_systemVars(HooksOnly(Hooks!Claims(t)))

FairSystem == System /\ SystemFairness

\* Once the buyer has released the escrow, the merchant is told: the row
\* becomes final, its event goes to the endpoints subscribed to it, and each
\* gets it or has been tried as often as allowed -- unless a failure takes the
\* notification or the delivery, or the endpoint is switched off.
ReleaseTold ==
    \A p \in Payments :
        (row[p].status \in {"escrow_locked", "shipped"}
            /\ row[p].escrowPda \in PaidOut(p))
        ~> \E event \in {"escrow.released", "escrow.auto_released"} :
              \/ <<p, event>> \in lost
              \/ /\ event \in sent[p]
                 /\ \A id \in addressed : <<id[1][1], id[1][2]>> = <<p, event>> =>
                       Settled(id) \/ endpoint[id[2]] # "active"
=============================================================================
