-------------------------- MODULE WebhookDelivery --------------------------
(***************************************************************************)
(* Webhooks with retries: webhook-delivery.service.ts, the endpoints and   *)
(* subscriptions of webhooks.service.ts and the 60 s timer of              *)
(* webhooks.module.ts, for one business (the endpoints are one business's).*)
(*                                                                         *)
(* A delivery is a row of webhook_deliveries that a run of dispatch or of  *)
(* processPendingRetries copies into memory, POSTs to the merchant and     *)
(* saves again.  save() compares the whole copy with the row and writes    *)
(* what differs, so that an old copy undoes what another run saved; a copy *)
(* whose row is gone is inserted anew, which the foreign key allows as     *)
(* long as the endpoint is there.                                          *)
(***************************************************************************)
EXTENDS Naturals, FiniteSets

CONSTANTS
    Endpoints,      \* endpoints that may be created (ids are never reused)
    Types,          \* event types that are subscribed to
    Events,         \* calls of dispatch, each with its event
    TypeOf,         \* the event type of each call
    Slots,          \* runs that may be in flight at the same time
    MaxAttempts,    \* MAX_ATTEMPTS
    BatchSize,      \* `take` of processPendingRetries
    Nothing         \* no delivery in hand

ASSUME TypeOfAssumption == TypeOf \in [Events -> Types]
ASSUME MaxAttemptsAssumption == MaxAttempts \in Nat \ {0}
ASSUME BatchSizeAssumption == BatchSize \in Nat \ {0}

VARIABLES
    endpoint,       \* the webhook_endpoints table
    subscribed,     \* <<endpoint, type>> with a row in webhook_subscriptions
    updating,       \* updates of endpoints read and not yet saved
    dispatched,     \* calls of dispatch so far
    row,            \* the webhook_deliveries table
    task,           \* what each slot is running
    posts,          \* history: POSTs made for each delivery
    acked,          \* history: deliveries answered with a 2xx
    addressed,      \* history: deliveries that a dispatch set out to make
    dropped,        \* history: deliveries taken from a run by a failure, or
                    \* from the table with their endpoint
    contended       \* history: deliveries two runs held at the same time

tables == <<endpoint, subscribed, updating, row>>
history == <<posts, acked, addressed, dropped, contended>>
vars == <<tables, dispatched, task, history>>

-----------------------------------------------------------------------------
\* One delivery for each event and endpoint.
Deliveries == Events \X Endpoints
EndpointOf(id) == id[2]

EndpointState == {"unborn", "active", "inactive", "deleted"}

\* attempt_number; delivered_at; next_retry_at: null, in the future, or past.
Row == [attempt : 1..MaxAttempts, delivered : BOOLEAN,
        retry : {"none", "later", "due"}]
NoRow == [attempt |-> 0, delivered |-> FALSE, retry |-> "none"]

\* The copy in memory; that it is undelivered, and its retry, follow from pc.
Copy == [id : Deliveries, attempt : 1..MaxAttempts]

ASSUME NothingAssumption == Nothing \notin Copy

\* pc "next": about to take up one of todo; "post": about to POST cur; "ok",
\* "failed": answered, about to save cur.
Task == [kind : {"none", "dispatch", "retries"},
         pc : {"idle", "next", "post", "ok", "failed"},
         cur : Copy \cup {Nothing},
         todo : SUBSET Copy]

Idle == [kind |-> "none", pc |-> "idle", cur |-> Nothing, todo |-> {}]

\* Counts of POSTs go up to one more than allowed ("too many").
PostsBound == MaxAttempts + 1

TypeOK ==
    /\ endpoint \in [Endpoints -> EndpointState]
    /\ subscribed \subseteq Endpoints \X Types
    /\ updating \subseteq Endpoints \X BOOLEAN
    /\ dispatched \subseteq Events
    /\ row \in [Deliveries -> Row \cup {NoRow}]
    /\ task \in [Slots -> Task]
    /\ posts \in [Deliveries -> 0..PostsBound]
    /\ acked \subseteq Deliveries
    /\ addressed \subseteq Deliveries
    /\ dropped \subseteq Deliveries
    /\ contended \subseteq Deliveries

Init ==
    /\ endpoint = [ep \in Endpoints |-> "unborn"]
    /\ subscribed = {}
    /\ updating = {}
    /\ dispatched = {}
    /\ row = [id \in Deliveries |-> NoRow]
    /\ task = [t \in Slots |-> Idle]
    /\ posts = [id \in Deliveries |-> 0]
    /\ acked = {}
    /\ addressed = {}
    /\ dropped = {}
    /\ contended = {}

Exists(ep) == endpoint[ep] \in {"active", "inactive"}

-----------------------------------------------------------------------------
(* Endpoints and subscriptions.                                            *)

CreateEndpoint(ep) ==
    /\ endpoint[ep] = "unborn"
    /\ endpoint' = [endpoint EXCEPT ![ep] = "active"]
    /\ UNCHANGED <<subscribed, updating, row, dispatched, task, history>>

\* updateEndpoint reads the endpoint; what it will save is the requested
\* is_active or, when the request only has a url, the one just read.
UpdateBegin(ep, active) ==
    /\ Exists(ep)
    /\ updating' = updating \cup {<<ep, active>>}
    /\ UNCHANGED <<endpoint, subscribed, row, dispatched, task, history>>

\* save() brings an endpoint deleted in between back, without what hung on it.
UpdateFinish(u) ==
    /\ u \in updating
    /\ updating' = updating \ {u}
    /\ endpoint' = [endpoint EXCEPT ![u[1]] =
                       IF u[2] THEN "active" ELSE "inactive"]
    /\ UNCHANGED <<subscribed, row, dispatched, task, history>>

\* The foreign keys cascade to subscriptions and deliveries.
DeleteEndpoint(ep) ==
    /\ Exists(ep)
    /\ endpoint' = [endpoint EXCEPT ![ep] = "deleted"]
    /\ subscribed' = subscribed \ ({ep} \X Types)
    /\ row' = [id \in Deliveries |->
                  IF EndpointOf(id) = ep THEN NoRow ELSE row[id]]
    /\ dropped' = dropped \cup {id \in addressed : EndpointOf(id) = ep}
    /\ UNCHANGED <<updating, dispatched, task, posts, acked, addressed,
                   contended>>

\* A type may be subscribed to twice: the pair stays until its last row goes.
AddSubscription(ep, type) ==
    /\ Exists(ep)
    /\ subscribed' = subscribed \cup {<<ep, type>>}
    /\ UNCHANGED <<endpoint, updating, row, dispatched, task, history>>

RemoveSubscription(ep, type) ==
    /\ <<ep, type>> \in subscribed
    /\ subscribed' = subscribed \ {<<ep, type>>}
    /\ UNCHANGED <<endpoint, updating, row, dispatched, task, history>>

-----------------------------------------------------------------------------
(* Runs in flight.                                                         *)

At(t, kind, pc) == task[t].kind = kind /\ task[t].pc = pc

\* Deliveries of which a run has a copy.
Copied(t) == {d.id : d \in task[t].todo}
             \cup (IF task[t].cur = Nothing THEN {} ELSE {task[t].cur.id})

Run(t, kind, copies) ==
    /\ task[t] = Idle
    /\ contended' = contended \cup
          ({d.id : d \in copies} \cap UNION {Copied(u) : u \in Slots})
    /\ task' = [task EXCEPT ![t] =
           [kind |-> kind, pc |-> "next", cur |-> Nothing, todo |-> copies]]

\* Leave cur, and end the run when nothing is left of it.
Continue(t, rest) ==
    task' = [task EXCEPT ![t] =
                IF rest = {} THEN Idle
                ELSE [kind |-> task[t].kind, pc |-> "next",
                      cur |-> Nothing, todo |-> rest]]

TakeUp(t, d) ==
    task' = [task EXCEPT ![t] =
                [kind |-> task[t].kind, pc |-> "post",
                 cur |-> d, todo |-> task[t].todo \ {d}]]

\* The deliveries of a call: the active endpoints that subscribe to its type.
Targets(e) == {id \in {e} \X Endpoints :
                 /\ endpoint[EndpointOf(id)] = "active"
                 /\ <<EndpointOf(id), TypeOf[e]>> \in subscribed}

\* dispatch reads the endpoints and their subscriptions once.
DispatchStart(t, e) ==
    /\ e \notin dispatched
    /\ Targets(e) # {}
    /\ Run(t, "dispatch", {[id |-> id, attempt |-> 1] : id \in Targets(e)})
    /\ dispatched' = dispatched \cup {e}
    /\ addressed' = addressed \cup Targets(e)
    /\ UNCHANGED <<tables, posts, acked, dropped>>

\* The first save; with the endpoint gone it fails on the foreign key, which
\* leaves RunFails.
DispatchInsert(t, d) ==
    /\ At(t, "dispatch", "next")
    /\ d \in task[t].todo
    /\ Exists(EndpointOf(d.id))
    /\ row' = [row EXCEPT ![d.id] =
                  [attempt |-> d.attempt, delivered |-> FALSE,
                   retry |-> "none"]]
    /\ TakeUp(t, d)
    /\ UNCHANGED <<endpoint, subscribed, updating, dispatched, history>>

\* Variant: the query leaves out the last attempt.
DueBeforeLast ==
    {id \in Deliveries : /\ ~row[id].delivered
                         /\ row[id].retry = "due"
                         /\ row[id].attempt < MaxAttempts}

\* The rows that the query of processPendingRetries selects.
Due == {id \in Deliveries : ~row[id].delivered /\ row[id].retry = "due"}

\* `take: 50`, no order: any BatchSize of them.
RetryStart(t) ==
    \E batch \in SUBSET Due :
        /\ batch # {}
        /\ Cardinality(batch) <= BatchSize
        /\ batch # Due => Cardinality(batch) = BatchSize
        /\ Run(t, "retries",
               {[id |-> id, attempt |-> row[id].attempt] : id \in batch})
        /\ UNCHANGED <<tables, dispatched, posts, acked, addressed, dropped>>

\* `continue`: the endpoint is inactive or gone; the row stays due.
RetrySkip(t, d) ==
    /\ At(t, "retries", "next")
    /\ d \in task[t].todo
    /\ endpoint[EndpointOf(d.id)] # "active"
    /\ Continue(t, task[t].todo \ {d})
    /\ UNCHANGED <<tables, dispatched, history>>

\* Variant: the row is not saved before the POST.
RetryWithoutClaim(t, d) ==
    /\ At(t, "retries", "next")
    /\ d \in task[t].todo
    /\ endpoint[EndpointOf(d.id)] = "active"
    /\ TakeUp(t, d)
    /\ UNCHANGED <<tables, dispatched, history>>

\* next_retry_at is nulled and saved before the POST.  The test that the
\* attempt is at most MAX_ATTEMPTS always holds (TypeOK).
RetryClaim(t, d) ==
    /\ At(t, "retries", "next")
    /\ d \in task[t].todo
    /\ endpoint[EndpointOf(d.id)] = "active"
    /\ row' = [row EXCEPT ![d.id] =
                  [attempt |-> d.attempt, delivered |-> FALSE,
                   retry |-> "none"]]
    /\ TakeUp(t, d)
    /\ UNCHANGED <<endpoint, subscribed, updating, dispatched, history>>

\* The POST and the merchant's answer: a 2xx, or anything else (another
\* status, a refused connection, no answer within 10 s).
Post(t, answer) ==
    LET id == task[t].cur.id IN
    /\ task[t].pc = "post"
    /\ task' = [task EXCEPT ![t].pc = answer]
    /\ posts' = [posts EXCEPT ![id] = IF @ = PostsBound THEN @ ELSE @ + 1]
    /\ acked' = IF answer = "ok" THEN acked \cup {id} ELSE acked
    /\ UNCHANGED <<tables, dispatched, addressed, dropped, contended>>

\* Variants: one attempt too few, attempts that are not counted.
ScheduleOneLess(attempt) ==
    IF attempt >= MaxAttempts - 1
    THEN [attempt |-> attempt, delivered |-> FALSE, retry |-> "none"]
    ELSE [attempt |-> attempt + 1, delivered |-> FALSE, retry |-> "later"]

ScheduleUncounted(attempt) ==
    [attempt |-> attempt, delivered |-> FALSE, retry |-> "later"]

\* scheduleRetry; the minutes to wait are left to RetryBecomesDue.
ScheduleRetry(attempt) ==
    IF attempt >= MaxAttempts
    THEN [attempt |-> attempt, delivered |-> FALSE, retry |-> "none"]
    ELSE [attempt |-> attempt + 1, delivered |-> FALSE, retry |-> "later"]

\* Variant: every answer counts as a delivery.
OutcomeAlwaysOk(pc, attempt) ==
    [attempt |-> attempt, delivered |-> TRUE, retry |-> "none"]

\* What the end of tryDeliverOnce saves.
Outcome(pc, attempt) ==
    IF pc = "ok"
    THEN [attempt |-> attempt, delivered |-> TRUE, retry |-> "none"]
    ELSE ScheduleRetry(attempt)

SaveOutcome(t) ==
    LET d == task[t].cur IN
    /\ task[t].pc \in {"ok", "failed"}
    /\ Exists(EndpointOf(d.id))
    /\ row' = [row EXCEPT ![d.id] = Outcome(task[t].pc, d.attempt)]
    /\ Continue(t, task[t].todo)
    /\ UNCHANGED <<endpoint, subscribed, updating, dispatched, history>>

-----------------------------------------------------------------------------
(* Failures and time.                                                      *)

\* What nobody will take up again if the run ends here: the delivery in hand
\* (its row has no retry) and, for a dispatch, those without a row yet.
AtRisk(t) ==
    IF task[t] = Idle THEN {}
    ELSE (IF task[t].pc = "next" THEN {} ELSE {task[t].cur.id})
         \cup (IF task[t].kind = "retries" THEN {}
               ELSE {d.id : d \in task[t].todo})

\* A rejected save (or query) ends the run: the timer swallows it, dispatch
\* passes it on to its caller.
RunFails(t) ==
    /\ task[t] # Idle
    /\ task' = [task EXCEPT ![t] = Idle]
    /\ dropped' = dropped \cup AtRisk(t)
    /\ UNCHANGED <<tables, dispatched, posts, acked, addressed, contended>>

ProcessStops ==
    /\ \E t \in Slots : task[t] # Idle
    /\ task' = [t \in Slots |-> Idle]
    /\ updating' = {}
    /\ dropped' = dropped \cup UNION {AtRisk(t) : t \in Slots}
    /\ UNCHANGED <<endpoint, subscribed, row, dispatched, posts, acked,
                   addressed, contended>>

RetryBecomesDue(id) ==
    /\ row[id].retry = "later"
    /\ row' = [row EXCEPT ![id].retry = "due"]
    /\ UNCHANGED <<endpoint, subscribed, updating, dispatched, task, history>>

-----------------------------------------------------------------------------
Merchant ==
    \/ \E ep \in Endpoints :
          \/ CreateEndpoint(ep)
          \/ \E active \in BOOLEAN : UpdateBegin(ep, active)
          \/ DeleteEndpoint(ep)
          \/ \E type \in Types :
                AddSubscription(ep, type) \/ RemoveSubscription(ep, type)
    \/ \E u \in updating : UpdateFinish(u)

Claims(t) == \E d \in task[t].todo : RetryClaim(t, d)

Progress(t) ==
    \/ \E d \in task[t].todo : DispatchInsert(t, d) \/ RetrySkip(t, d)
    \/ Claims(t)
    \/ \E answer \in {"ok", "failed"} : Post(t, answer)
    \/ SaveOutcome(t)
    \/ RunFails(t)

Next ==
    \/ Merchant
    \/ \E t \in Slots :
          \/ \E e \in Events : DispatchStart(t, e)
          \/ RetryStart(t)
          \/ Progress(t)
    \/ ProcessStops
    \/ \E id \in Deliveries : RetryBecomesDue(id)

Spec == Init /\ [][Next]_vars
-----------------------------------------------------------------------------
(* Safety with any number of runs in flight.                                *)

\* A delivery that the table says was delivered was answered with a 2xx, even
\* though old copies are saved over newer ones.
DeliveredIsAcked ==
    \A id \in Deliveries : row[id].delivered => id \in acked

InHand(t) == task[t].pc \in {"post", "ok", "failed"}

\* Deliveries that a run is going to take up, or has in hand.
Held(t) ==
    (IF InHand(t) THEN {task[t].cur.id} ELSE {})
    \cup (IF task[t].kind = "dispatch" THEN {d.id : d \in task[t].todo}
          ELSE {})

\* Every delivery a dispatch set out to make is accounted for: delivered,
\* waiting for its retry, in the hands of a run, given up after MAX_ATTEMPTS
\* POSTs or more -- or dropped, by a failure at a moment when the table knows
\* of no retry, or with its endpoint.  Overlapping runs lose nothing more.
Accounted ==
    \A id \in addressed \ dropped :
        \/ row[id].delivered
        \/ row[id].retry # "none"
        \/ \E t \in Slots : id \in Held(t)
        \/ posts[id] >= MaxAttempts

\* Attempts are backed by POSTs, in the table and in every copy: a stale copy
\* lowers the count of attempts, it never raises it.
TaskPosted(t) ==
    /\ \A d \in task[t].todo : d.attempt <= posts[d.id] + 1
    /\ InHand(t) => task[t].cur.attempt <= posts[task[t].cur.id] + 1
    /\ task[t].pc \in {"ok", "failed"} =>
          task[t].cur.attempt <= posts[task[t].cur.id]
    /\ task[t].pc = "ok" => task[t].cur.id \in acked

RowsPosted == \A id \in Deliveries : row[id].attempt <= posts[id] + 1

TaskShape(t) ==
    /\ task[t].pc = "idle" => task[t] = Idle
    /\ task[t].kind = "none" => task[t].pc = "idle"
    /\ InHand(t) <=> task[t].cur # Nothing

\* What is inductive of it, whatever runs overlap.
BackedInv ==
    /\ TypeOK
    /\ \A t \in Slots : TaskShape(t)
    /\ \A t \in Slots : TaskPosted(t)
    /\ RowsPosted
    /\ DeliveredIsAcked
    /\ Accounted

\* The copies of one run are of different deliveries.
TaskDistinct(t) ==
    /\ \A c, d \in task[t].todo : c.id = d.id => c = d
    /\ \A d \in task[t].todo : InHand(t) => d.id # task[t].cur.id

\* Of a delivery that no dispatch set out to make there is no trace.
TracesDispatched ==
    \A id \in Deliveries :
        IF id \in addressed THEN id[1] \in dispatched
        ELSE /\ row[id] = NoRow /\ posts[id] = 0 /\ id \notin acked
             /\ \A t \in Slots : id \notin Copied(t)

\* The attempt a row is waiting for has not been made ...
RowCounted(id) ==
    /\ posts[id] <= MaxAttempts
    /\ row[id].retry # "none" =>
          posts[id] < row[id].attempt /\ id \notin acked

\* ... nor that of a copy to be taken up; the row of the copy in hand waits
\* for none.
CopiesCounted(t, id) ==
    /\ \A d \in task[t].todo :
          d.id = id => posts[id] < d.attempt /\ id \notin acked
    /\ InHand(t) /\ task[t].cur.id = id =>
          /\ row[id].retry = "none"
          /\ posts[id] <= task[t].cur.attempt
          /\ task[t].pc = "post" => posts[id] < task[t].cur.attempt
          /\ task[t].pc # "ok" => id \notin acked

HeldOnce(id) ==
    \A t, u \in Slots : id \in Copied(t) /\ id \in Copied(u) => t = u

\* What is inductive of the deliveries that no two runs held at the same time.
CountedInv ==
    /\ \A t \in Slots : TaskDistinct(t)
    /\ TracesDispatched
    /\ \A id \in Deliveries \ contended :
          /\ RowCounted(id)
          /\ HeldOnce(id)
          /\ \A t \in Slots : CopiesCounted(t, id)

\* The inductive invariant behind DeliveredIsAcked, Accounted,
\* PostsWithinAttempts and NeverPostedAgain.
IInv == BackedInv /\ CountedInv

-----------------------------------------------------------------------------
(* What holds of a delivery that no two runs held at the same time, process *)
(* stops included, and is lost when a run of retries outlasts the timer.    *)

\* It is not POSTed more than MAX_ATTEMPTS times.
PostsWithinAttempts ==
    \A id \in Deliveries \ contended : posts[id] <= MaxAttempts

\* What the merchant answered with a 2xx is not POSTed again, even when the
\* process stops before the answer is saved.
NeverPostedAgain ==
    [][\A id \in acked \ contended : posts'[id] = posts[id]]_vars

-----------------------------------------------------------------------------
(* The queue of DeliveryQueue, as tables and runs present it.              *)

\* What somebody holds, or will take up.
Pending == {id \in Deliveries : row[id].retry # "none"}
           \cup UNION {Copied(t) : t \in Slots}

Queue == INSTANCE DeliveryQueue WITH
    accepted <- addressed,
    open <- Pending,
    lost <- dropped,
    shared <- contended

\* Whatever runs overlap, fail or are cut short, a delivery is taken into the
\* queue once and leaves it for good, only acknowledged, given up after
\* MAX_ATTEMPTS POSTs or dropped; as long as no two runs have held it, it is
\* POSTed no more than allowed and never after a 2xx.
ImplementsQueue == Queue!Spec

=============================================================================
