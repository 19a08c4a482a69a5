------------------------ MODULE WebhookDeliveryProofs -----------------------
(***************************************************************************)
(* Proofs about WebhookDelivery for any endpoints, events and number of    *)
(* runs in flight.                                                         *)
(***************************************************************************)
EXTENDS WebhookDelivery, TLAPS

\* What a merchant has received, no step takes back.
PostsGrow ==
    /\ posts' \in [Deliveries -> 0..PostsBound]
    /\ \A id \in Deliveries : posts'[id] >= posts[id]
    /\ acked \subseteq acked' /\ acked' \subseteq Deliveries

\* Deliveries that need no run to take them up.
AtRest(id) ==
    \/ row[id].delivered
    \/ row[id].retry # "none"
    \/ posts[id] >= MaxAttempts

-----------------------------------------------------------------------------
(* What the steps of the slots have in common.                             *)

LEMMA SlotStep ==
    ASSUME TypeOK, NEW t \in Slots, NEW r \in Task,
           task' = [task EXCEPT ![t] = r]
    PROVE  /\ task' \in [Slots -> Task]
           /\ task'[t] = r
           /\ \A u \in Slots \ {t} : task'[u] = task[u]
  BY DEF TypeOK

LEMMA SamePosts ==
    ASSUME TypeOK, UNCHANGED <<posts, acked>>
    PROVE  PostsGrow
  BY DEF TypeOK, PostsGrow, PostsBound

\* Copies stay backed while POSTs and answers only grow.
LEMMA CopiesStayBacked ==
    ASSUME BackedInv, PostsGrow, NEW t \in Slots, task'[t] = task[t]
    PROVE  TaskShape(t)' /\ TaskPosted(t)'
<1>1. TaskShape(t) /\ TaskPosted(t) /\ task[t] \in Task
  BY DEF BackedInv, TypeOK
<1>2. TaskShape(t)'
  BY <1>1 DEF TaskShape, InHand
<1>3. \A d \in task[t].todo : d.attempt \in Nat /\ posts[d.id] \in Nat
        /\ posts'[d.id] \in Nat /\ posts'[d.id] >= posts[d.id]
  BY <1>1, MaxAttemptsAssumption DEF Task, Copy, PostsGrow, BackedInv, TypeOK, PostsBound
<1>4. InHand(t) => /\ task[t].cur.attempt \in Nat
                   /\ task[t].cur.id \in Deliveries
                   /\ posts[task[t].cur.id] \in Nat
                   /\ posts'[task[t].cur.id] \in Nat
                   /\ posts'[task[t].cur.id] >= posts[task[t].cur.id]
  BY <1>1, MaxAttemptsAssumption DEF TaskShape, Task, Copy, PostsGrow, BackedInv, TypeOK, PostsBound
<1>5. \A d \in task'[t].todo : d.attempt <= posts'[d.id] + 1
  BY <1>1, <1>3 DEF TaskPosted
<1>6. InHand(t)' => task'[t].cur.attempt <= posts'[task'[t].cur.id] + 1
  BY <1>1, <1>4 DEF TaskPosted, InHand
<1>7. task'[t].pc \in {"ok", "failed"} =>
        task'[t].cur.attempt <= posts'[task'[t].cur.id]
  BY <1>1, <1>4 DEF TaskPosted, InHand
<1>8. task'[t].pc = "ok" => task'[t].cur.id \in acked'
  BY <1>1 DEF TaskPosted, PostsGrow
<1> QED BY <1>2, <1>5, <1>6, <1>7, <1>8 DEF TaskPosted

\* The tables stay backed when a step writes no row.
LEMMA RowsStayBacked ==
    ASSUME BackedInv, PostsGrow, UNCHANGED row
    PROVE  RowsPosted' /\ DeliveredIsAcked'
<1>1. \A id \in Deliveries : /\ row[id].attempt \in Nat
                             /\ posts[id] \in Nat /\ posts'[id] \in Nat
                             /\ posts'[id] >= posts[id]
  BY MaxAttemptsAssumption DEF BackedInv, TypeOK, PostsGrow, PostsBound, Row, NoRow
<1> QED BY <1>1 DEF BackedInv, RowsPosted, DeliveredIsAcked, PostsGrow

\* ... or one backed row.
LEMMA RowWritten ==
    ASSUME BackedInv, UNCHANGED <<posts, acked>>, NEW id \in Deliveries,
           NEW new \in Row, row' = [row EXCEPT ![id] = new],
           new.attempt <= posts[id] + 1, new.delivered => id \in acked
    PROVE  /\ row' \in [Deliveries -> Row \cup {NoRow}]
           /\ RowsPosted' /\ DeliveredIsAcked'
<1>1. row \in [Deliveries -> Row \cup {NoRow}]
  BY DEF BackedInv, TypeOK
<1>2. row'[id] = new /\ \A x \in Deliveries \ {id} : row'[x] = row[x]
  BY <1>1
<1>3. RowsPosted'
  BY <1>2 DEF BackedInv, RowsPosted
<1>4. DeliveredIsAcked'
  BY <1>2 DEF BackedInv, DeliveredIsAcked
<1> QED BY <1>1, <1>3, <1>4

\* A delivery that was accounted for remains so, if the step of slot t keeps
\* it, or leaves it at rest.
LEMMA AccountedKept ==
    ASSUME BackedInv, NEW t \in Slots, NEW r \in Task,
           task' = [task EXCEPT ![t] = r],
           dropped \subseteq dropped',
           \A id \in addressed' \ dropped' :
               \/ AtRest(id)'
               \/ id \in Held(t)'
               \/ id \in addressed /\ ~AtRest(id) /\ id \notin Held(t)
    PROVE  Accounted'
<1>1. \A u \in Slots \ {t} : task'[u] = task[u]
  BY SlotStep DEF BackedInv
<1>2. \A u \in Slots \ {t} : Held(u)' = Held(u)
  BY <1>1 DEF Held, InHand
<1> SUFFICES ASSUME NEW id \in addressed' \ dropped', ~AtRest(id)'
             PROVE  \E u \in Slots : id \in Held(u)'
  BY DEF Accounted, AtRest
<1>3. CASE id \in Held(t)'
  BY <1>3
<1>4. CASE id \in addressed /\ ~AtRest(id) /\ id \notin Held(t)
  <2>1. \E u \in Slots : id \in Held(u)
    BY <1>4 DEF BackedInv, Accounted, AtRest
  <2>2. PICK u \in Slots : id \in Held(u)
    BY <2>1
  <2>3. u # t
    BY <2>2, <1>4
  <2> QED BY <2>2, <2>3, <1>2
<1> QED BY <1>3, <1>4

\* What a step of one slot owes to the invariant.
LEMMA SlotStepPreserves ==
    ASSUME BackedInv, NEW t \in Slots, NEW r \in Task,
           task' = [task EXCEPT ![t] = r],
           UNCHANGED <<endpoint, subscribed, updating>>,
           dispatched' \subseteq Events,
           row' \in [Deliveries -> Row \cup {NoRow}],
           PostsGrow, RowsPosted', DeliveredIsAcked',
           TaskShape(t)', TaskPosted(t)',
           addressed' \subseteq Deliveries,
           dropped \subseteq dropped', dropped' \subseteq Deliveries,
           contended' \subseteq Deliveries,
           \A id \in addressed' \ dropped' :
               \/ AtRest(id)'
               \/ id \in Held(t)'
               \/ id \in addressed /\ ~AtRest(id) /\ id \notin Held(t)
    PROVE  BackedInv'
<1>1. task' \in [Slots -> Task] /\ \A u \in Slots \ {t} : task'[u] = task[u]
  BY SlotStep DEF BackedInv
<1>2. TypeOK'
  BY <1>1 DEF BackedInv, TypeOK, PostsGrow, PostsBound
<1>3. \A u \in Slots : TaskShape(u)' /\ TaskPosted(u)'
  BY <1>1, CopiesStayBacked
<1>4. Accounted'
  BY AccountedKept
<1> QED BY <1>2, <1>3, <1>4 DEF BackedInv

\* What a step of the merchant, or of time, owes to it.
LEMMA OtherStepPreserves ==
    ASSUME BackedInv, UNCHANGED <<task, posts, acked, addressed, contended>>,
           endpoint' \in [Endpoints -> EndpointState],
           subscribed' \subseteq Endpoints \X Types,
           updating' \subseteq Endpoints \X BOOLEAN,
           dispatched' \subseteq Events,
           row' \in [Deliveries -> Row \cup {NoRow}],
           RowsPosted', DeliveredIsAcked',
           dropped \subseteq dropped', dropped' \subseteq Deliveries,
           \A id \in addressed \ dropped' : AtRest(id) => AtRest(id)'
    PROVE  BackedInv'
<1>1. PostsGrow
  BY SamePosts DEF BackedInv
<1>2. TypeOK'
  BY DEF BackedInv, TypeOK, PostsBound
<1>3. \A u \in Slots : TaskShape(u)' /\ TaskPosted(u)'
  BY <1>1, CopiesStayBacked
<1>4. \A u \in Slots : Held(u)' = Held(u)
  BY DEF Held, InHand
<1>5. Accounted'
  BY <1>4 DEF BackedInv, Accounted, AtRest
<1> QED BY <1>2, <1>3, <1>5 DEF BackedInv

-----------------------------------------------------------------------------
(* Endpoints, subscriptions and time.                                      *)

\* Creating and updating endpoints and subscriptions touches no delivery.
LEMMA SettingsPreserve ==
    ASSUME BackedInv, UNCHANGED <<row, task, dispatched, history>>,
           endpoint' \in [Endpoints -> EndpointState],
           subscribed' \subseteq Endpoints \X Types,
           updating' \subseteq Endpoints \X BOOLEAN
    PROVE  BackedInv'
<1>1. PostsGrow
  BY SamePosts DEF BackedInv, history
<1>2. RowsPosted' /\ DeliveredIsAcked'
  BY <1>1, RowsStayBacked
<1>3. /\ row' \in [Deliveries -> Row \cup {NoRow}]
      /\ dispatched' \subseteq Events
      /\ dropped' \subseteq Deliveries
  BY DEF BackedInv, TypeOK, history
<1>4. \A id \in Deliveries : AtRest(id) => AtRest(id)'
  BY DEF AtRest, history
<1>5. addressed \subseteq Deliveries
  BY DEF BackedInv, TypeOK
<1> QED BY <1>2, <1>3, <1>4, <1>5, OtherStepPreserves DEF history

\* Deleting an endpoint drops its deliveries and no other.
LEMMA DeleteEndpointPreserves ==
    ASSUME BackedInv, NEW ep \in Endpoints, DeleteEndpoint(ep)
    PROVE  BackedInv'
<1> USE DEF DeleteEndpoint
<1>1. /\ endpoint' \in [Endpoints -> EndpointState]
      /\ subscribed' \subseteq Endpoints \X Types
      /\ updating' \subseteq Endpoints \X BOOLEAN
      /\ dispatched' \subseteq Events
      /\ row' \in [Deliveries -> Row \cup {NoRow}]
      /\ dropped \subseteq dropped' /\ dropped' \subseteq Deliveries
  BY DEF BackedInv, TypeOK, EndpointState
<1>2. \A id \in Deliveries : row'[id] = NoRow \/ row'[id] = row[id]
  OBVIOUS
<1>3. \A id \in Deliveries : posts[id] \in Nat
  BY MaxAttemptsAssumption DEF BackedInv, TypeOK, PostsBound
<1>4. RowsPosted' /\ DeliveredIsAcked'
  BY <1>2, <1>3 DEF BackedInv, RowsPosted, DeliveredIsAcked, NoRow
<1>5. \A id \in addressed \ dropped' : row'[id] = row[id]
  BY DEF BackedInv, TypeOK
<1>6. \A id \in addressed \ dropped' : AtRest(id) => AtRest(id)'
  BY <1>5 DEF AtRest
<1> QED BY <1>1, <1>4, <1>6, OtherStepPreserves

LEMMA MerchantPreserves ==
    ASSUME BackedInv, Merchant
    PROVE  BackedInv'
<1>1. ASSUME NEW ep \in Endpoints, CreateEndpoint(ep)
      PROVE  BackedInv'
  <2>1. endpoint' \in [Endpoints -> EndpointState]
    BY <1>1 DEF CreateEndpoint, BackedInv, TypeOK, EndpointState
  <2> QED BY <1>1, <2>1, SettingsPreserve DEF CreateEndpoint, BackedInv, TypeOK
<1>2. ASSUME NEW ep \in Endpoints, NEW active \in BOOLEAN,
             UpdateBegin(ep, active)
      PROVE  BackedInv'
  BY <1>2, SettingsPreserve DEF UpdateBegin, BackedInv, TypeOK
<1>3. ASSUME NEW ep \in Endpoints, DeleteEndpoint(ep)
      PROVE  BackedInv'
  BY <1>3, DeleteEndpointPreserves
<1>4. ASSUME NEW ep \in Endpoints, NEW type \in Types,
             AddSubscription(ep, type) \/ RemoveSubscription(ep, type)
      PROVE  BackedInv'
  BY <1>4, SettingsPreserve
     DEF AddSubscription, RemoveSubscription, BackedInv, TypeOK
<1>5. ASSUME NEW u \in updating, UpdateFinish(u)
      PROVE  BackedInv'
  <2>1. u[1] \in Endpoints /\ updating' \subseteq Endpoints \X BOOLEAN
    BY <1>5 DEF UpdateFinish, BackedInv, TypeOK
  <2>2. endpoint' \in [Endpoints -> EndpointState]
    BY <1>5, <2>1 DEF UpdateFinish, BackedInv, TypeOK, EndpointState
  <2> QED BY <1>5, <2>1, <2>2, SettingsPreserve
          DEF UpdateFinish, BackedInv, TypeOK
<1> QED BY <1>1, <1>2, <1>3, <1>4, <1>5 DEF Merchant

\* A retry that becomes due is still a retry.
LEMMA RetryBecomesDuePreserves ==
    ASSUME BackedInv, NEW id \in Deliveries, RetryBecomesDue(id)
    PROVE  BackedInv'
<1> USE DEF RetryBecomesDue
<1>1. row[id] \in Row
  BY DEF BackedInv, TypeOK, NoRow
<1>2. DEFINE new == [row[id] EXCEPT !.retry = "due"]
<1>3. /\ row' = [row EXCEPT ![id] = new]
      /\ new \in Row /\ new.attempt = row[id].attempt
      /\ new.delivered = row[id].delivered /\ new.retry = "due"
  BY <1>1 DEF Row
<1>4. row' \in [Deliveries -> Row \cup {NoRow}] /\ RowsPosted' /\ DeliveredIsAcked'
  <2>1. new.attempt <= posts[id] + 1 /\ (new.delivered => id \in acked)
    BY <1>3 DEF BackedInv, RowsPosted, DeliveredIsAcked
  <2> HIDE DEF new
  <2> QED BY <1>3, <2>1, RowWritten DEF history
<1>5. \A x \in Deliveries : AtRest(x) => AtRest(x)'
  <2>1. row'[id].retry = "due" /\ \A x \in Deliveries \ {id} : row'[x] = row[x]
    BY <1>3 DEF BackedInv, TypeOK
  <2> QED BY <2>1 DEF AtRest, history
<1>6. /\ UNCHANGED <<task, posts, acked, addressed, contended>>
      /\ endpoint' \in [Endpoints -> EndpointState]
      /\ subscribed' \subseteq Endpoints \X Types
      /\ updating' \subseteq Endpoints \X BOOLEAN
      /\ dispatched' \subseteq Events
      /\ dropped \subseteq dropped' /\ dropped' \subseteq Deliveries
      /\ addressed \subseteq Deliveries
  BY DEF BackedInv, TypeOK, history
<1> QED BY <1>4, <1>5, <1>6, OtherStepPreserves

-----------------------------------------------------------------------------
(* Starting a run.                                                         *)

\* A run that starts has its copies to take up and nothing in hand.
LEMMA RunStarts ==
    ASSUME BackedInv, NEW t \in Slots, NEW kind \in {"dispatch", "retries"},
           NEW copies \in SUBSET Copy, Run(t, kind, copies),
           UNCHANGED <<posts, acked>>,
           \A d \in copies : d.attempt <= posts[d.id] + 1
    PROVE  LET r == [kind |-> kind, pc |-> "next", cur |-> Nothing,
                     todo |-> copies]
           IN  /\ r \in Task /\ task' = [task EXCEPT ![t] = r]
               /\ PostsGrow /\ TaskShape(t)' /\ TaskPosted(t)'
               /\ contended' \subseteq Deliveries
               /\ Held(t) = {}
               /\ Held(t)' = IF kind = "dispatch" THEN {d.id : d \in copies}
                             ELSE {}
<1> DEFINE r == [kind |-> kind, pc |-> "next", cur |-> Nothing,
                 todo |-> copies]
<1>1. r \in Task /\ task' = [task EXCEPT ![t] = r]
  BY DEF Task, Run
<1>2. task'[t] = r /\ task[t] = Idle
  BY <1>1, SlotStep DEF BackedInv, Run
<1>3. PostsGrow
  BY SamePosts DEF BackedInv
<1>4. TaskShape(t)' /\ TaskPosted(t)'
  BY <1>2 DEF TaskShape, TaskPosted, InHand
<1>5. contended' \subseteq Deliveries
  BY DEF Run, BackedInv, TypeOK, Copy
<1>6. Held(t) = {}
  BY <1>2 DEF Held, InHand, Idle
<1>7. Held(t)' = IF kind = "dispatch" THEN {d.id : d \in copies} ELSE {}
  BY <1>2 DEF Held, InHand
<1> QED BY <1>1, <1>3, <1>4, <1>5, <1>6, <1>7

\* What a dispatch sets out to make, it holds.
LEMMA DispatchStartPreserves ==
    ASSUME BackedInv, NEW t \in Slots, NEW e \in Events, DispatchStart(t, e)
    PROVE  BackedInv'
<1> DEFINE copies == {[id |-> id, attempt |-> 1] : id \in Targets(e)}
           r == [kind |-> "dispatch", pc |-> "next", cur |-> Nothing,
                 todo |-> copies]
<1>1. Targets(e) \subseteq Deliveries
  BY DEF Targets, Deliveries
<1>2. copies \in SUBSET Copy /\ {d.id : d \in copies} = Targets(e)
  <2>1. \A id \in Targets(e) : [id |-> id, attempt |-> 1] \in Copy
    BY <1>1, MaxAttemptsAssumption DEF Copy
  <2>2. copies \subseteq Copy
    BY <2>1
  <2>3. {d.id : d \in copies} \subseteq Targets(e)
    OBVIOUS
  <2>4. ASSUME NEW id \in Targets(e)
        PROVE  id \in {d.id : d \in copies}
    <3>1. [id |-> id, attempt |-> 1] \in copies
      OBVIOUS
    <3>2. [id |-> id, attempt |-> 1].id = id
      OBVIOUS
    <3> QED BY <3>1, <3>2
  <2> QED BY <2>2, <2>3, <2>4
<1>3. \A d \in copies : d.attempt <= posts[d.id] + 1
  <2>1. \A id \in Targets(e) : posts[id] \in Nat
    BY <1>1, MaxAttemptsAssumption DEF BackedInv, TypeOK, PostsBound
  <2> QED BY <2>1
<1>4. /\ Run(t, "dispatch", copies)
      /\ UNCHANGED <<endpoint, subscribed, updating, row, posts, acked,
                     dropped>>
      /\ dispatched' = dispatched \cup {e}
      /\ addressed' = addressed \cup Targets(e)
  BY DEF DispatchStart, tables
<1> HIDE DEF copies
<1>5. /\ r \in Task /\ task' = [task EXCEPT ![t] = r]
      /\ PostsGrow /\ TaskShape(t)' /\ TaskPosted(t)'
      /\ contended' \subseteq Deliveries
      /\ Held(t) = {} /\ Held(t)' = Targets(e)
  BY <1>2, <1>3, <1>4, RunStarts
<1> HIDE DEF r
<1>6. RowsPosted' /\ DeliveredIsAcked'
  BY <1>4, <1>5, RowsStayBacked
<1>7. /\ row' \in [Deliveries -> Row \cup {NoRow}]
      /\ dispatched' \subseteq Events
      /\ addressed' \subseteq Deliveries
      /\ dropped' \subseteq Deliveries
  BY <1>1, <1>4 DEF BackedInv, TypeOK
<1>8. \A id \in addressed' \ dropped' :
          \/ AtRest(id)'
          \/ id \in Held(t)'
          \/ id \in addressed /\ ~AtRest(id) /\ id \notin Held(t)
  BY <1>4, <1>5 DEF AtRest
<1> QED BY <1>4, <1>5, <1>6, <1>7, <1>8, SlotStepPreserves

\* A run of retries copies rows that keep their retry.
LEMMA RetryStartPreserves ==
    ASSUME BackedInv, NEW t \in Slots, RetryStart(t)
    PROVE  BackedInv'
<1>1. PICK batch \in SUBSET Due :
          /\ Run(t, "retries",
                 {[id |-> id, attempt |-> row[id].attempt] : id \in batch})
          /\ UNCHANGED <<tables, dispatched, posts, acked, addressed, dropped>>
  BY DEF RetryStart
<1> DEFINE copies == {[id |-> id, attempt |-> row[id].attempt] : id \in batch}
           r == [kind |-> "retries", pc |-> "next", cur |-> Nothing,
                 todo |-> copies]
<1>2. \A id \in batch : id \in Deliveries /\ row[id] \in Row
  BY DEF Due, BackedInv, TypeOK, NoRow
<1>3. copies \in SUBSET Copy
  BY <1>2 DEF Copy, Row
<1>4. \A d \in copies : d.attempt <= posts[d.id] + 1
  BY <1>2 DEF BackedInv, RowsPosted
<1>5. /\ Run(t, "retries", copies)
      /\ UNCHANGED <<endpoint, subscribed, updating, row, dispatched, posts,
                     acked, addressed, dropped>>
  BY <1>1 DEF tables
<1> HIDE DEF copies
<1>6. /\ r \in Task /\ task' = [task EXCEPT ![t] = r]
      /\ PostsGrow /\ TaskShape(t)' /\ TaskPosted(t)'
      /\ contended' \subseteq Deliveries
      /\ Held(t) = {}
  BY <1>3, <1>4, <1>5, RunStarts
<1> HIDE DEF r
<1>7. RowsPosted' /\ DeliveredIsAcked'
  BY <1>5, <1>6, RowsStayBacked
<1>8. /\ row' \in [Deliveries -> Row \cup {NoRow}]
      /\ dispatched' \subseteq Events
      /\ addressed' \subseteq Deliveries
      /\ dropped' \subseteq Deliveries
  BY <1>5 DEF BackedInv, TypeOK
<1>9. \A id \in addressed' \ dropped' :
          \/ AtRest(id)'
          \/ id \in addressed /\ ~AtRest(id) /\ id \notin Held(t)
  BY <1>5, <1>6 DEF AtRest
<1> QED BY <1>5, <1>6, <1>7, <1>8, <1>9, SlotStepPreserves

-----------------------------------------------------------------------------
(* The steps of a run.                                                     *)

\* A run that leaves its delivery holds, if a dispatch, what is left to do.
LEMMA RunContinues ==
    ASSUME BackedInv, NEW t \in Slots, task[t].pc # "idle",
           NEW rest \in SUBSET task[t].todo, Continue(t, rest),
           UNCHANGED <<posts, acked>>
    PROVE  \E r \in Task :
              /\ task' = [task EXCEPT ![t] = r]
              /\ PostsGrow /\ TaskShape(t)' /\ TaskPosted(t)'
              /\ Held(t)' = IF task[t].kind = "dispatch"
                            THEN {d.id : d \in rest} ELSE {}
<1>1. task[t] \in Task /\ TaskShape(t) /\ TaskPosted(t)
  BY DEF BackedInv, TypeOK
<1>2. PostsGrow
  BY SamePosts DEF BackedInv
<1>3. CASE rest = {}
  <2>1. Idle \in Task /\ task' = [task EXCEPT ![t] = Idle]
    BY <1>3 DEF Continue, Idle, Task
  <2>2. task'[t] = Idle
    BY <2>1, SlotStep DEF BackedInv
  <2>3. TaskShape(t)' /\ TaskPosted(t)'
    BY <2>2 DEF TaskShape, TaskPosted, InHand, Idle
  <2>4. Held(t)' = {}
    BY <2>2 DEF Held, InHand, Idle
  <2> QED BY <1>2, <1>3, <2>1, <2>3, <2>4
<1>4. CASE rest # {}
  <2> DEFINE r == [kind |-> task[t].kind, pc |-> "next",
                   cur |-> Nothing, todo |-> rest]
  <2>1. r \in Task /\ task' = [task EXCEPT ![t] = r]
    BY <1>1, <1>4 DEF Continue, Task
  <2>2. task'[t] = r
    BY <2>1, SlotStep DEF BackedInv
  <2>3. TaskShape(t)'
    BY <1>1, <2>2 DEF TaskShape, InHand
  <2>4. TaskPosted(t)'
    BY <1>1, <2>2 DEF TaskPosted, InHand
  <2>5. Held(t)' = IF task[t].kind = "dispatch"
                   THEN {d.id : d \in rest} ELSE {}
    BY <2>2 DEF Held, InHand
  <2> QED BY <1>2, <2>1, <2>3, <2>4, <2>5
<1> QED BY <1>3, <1>4

\* A row of an inactive endpoint keeps its retry.
LEMMA RetrySkipPreserves ==
    ASSUME BackedInv, NEW t \in Slots, NEW d \in task[t].todo, RetrySkip(t, d)
    PROVE  BackedInv'
<1>1. /\ task[t].kind = "retries" /\ task[t].pc = "next"
      /\ Continue(t, task[t].todo \ {d})
      /\ UNCHANGED <<endpoint, subscribed, updating, row, dispatched, posts,
                     acked, addressed, dropped, contended>>
  BY DEF RetrySkip, At, tables, history
<1>2. PICK r \in Task :
          /\ task' = [task EXCEPT ![t] = r]
          /\ PostsGrow /\ TaskShape(t)' /\ TaskPosted(t)'
  BY <1>1, RunContinues
<1>3. RowsPosted' /\ DeliveredIsAcked'
  BY <1>1, <1>2, RowsStayBacked
<1>4. Held(t) = {}
  BY <1>1 DEF Held, InHand
<1>5. /\ row' \in [Deliveries -> Row \cup {NoRow}]
      /\ dispatched' \subseteq Events
      /\ addressed' \subseteq Deliveries /\ dropped' \subseteq Deliveries
      /\ contended' \subseteq Deliveries
  BY <1>1 DEF BackedInv, TypeOK
<1>6. \A id \in addressed' \ dropped' :
          AtRest(id)' \/ (id \in addressed /\ ~AtRest(id) /\ id \notin Held(t))
  BY <1>1, <1>4 DEF AtRest
<1> QED BY <1>1, <1>2, <1>3, <1>5, <1>6, SlotStepPreserves

\* A delivery whose row loses its retry is in hand, and its copy is backed.
LEMMA TakingUpPreserves ==
    ASSUME BackedInv, NEW t \in Slots, NEW d \in task[t].todo,
           task[t].pc = "next", TakeUp(t, d),
           row' = [row EXCEPT ![d.id] = [attempt |-> d.attempt,
                                         delivered |-> FALSE,
                                         retry |-> "none"]],
           UNCHANGED <<endpoint, subscribed, updating, dispatched, history>>
    PROVE  BackedInv'
<1> DEFINE r == [kind |-> task[t].kind, pc |-> "post",
                 cur |-> d, todo |-> task[t].todo \ {d}]
           new == [attempt |-> d.attempt, delivered |-> FALSE,
                   retry |-> "none"]
<1>1. task[t] \in Task /\ TaskShape(t) /\ TaskPosted(t)
  BY DEF BackedInv, TypeOK
<1>2. d \in Copy /\ d.attempt <= posts[d.id] + 1
  BY <1>1 DEF Task, TaskPosted
<1>3. r \in Task /\ task' = [task EXCEPT ![t] = r]
  BY <1>1, <1>2 DEF TakeUp, Task
<1>4. task'[t] = r
  BY <1>3, SlotStep DEF BackedInv
<1>5. UNCHANGED <<posts, acked, addressed, dropped, contended>>
  BY DEF history
<1>6. PostsGrow
  BY <1>5, SamePosts DEF BackedInv
<1>7. TaskShape(t)'
  BY <1>1, <1>2, <1>4, NothingAssumption DEF TaskShape, InHand
<1>8. TaskPosted(t)'
  BY <1>1, <1>2, <1>4, <1>5 DEF TaskPosted, InHand
<1>9. d.id \in Deliveries /\ new \in Row
  BY <1>2 DEF Copy, Row
<1>10. /\ row' \in [Deliveries -> Row \cup {NoRow}]
       /\ RowsPosted' /\ DeliveredIsAcked'
  <2>1. /\ row' = [row EXCEPT ![d.id] = new]
        /\ new.attempt <= posts[d.id] + 1
        /\ new.delivered => d.id \in acked
    BY <1>2
  <2> HIDE DEF new
  <2> QED BY <1>5, <1>9, <2>1, RowWritten
<1>11. /\ dispatched' \subseteq Events
       /\ addressed' \subseteq Deliveries /\ dropped' \subseteq Deliveries
       /\ contended' \subseteq Deliveries
  BY <1>5 DEF BackedInv, TypeOK
<1>12. d.id \in Held(t)' /\ Held(t) \subseteq Held(t)'
  BY <1>1, <1>4 DEF Held, InHand
<1>13. \A id \in Deliveries \ {d.id} : row'[id] = row[id]
  BY <1>9 DEF BackedInv, TypeOK
<1>14. \A id \in addressed' \ dropped' :
           \/ AtRest(id)'
           \/ id \in Held(t)'
           \/ id \in addressed /\ ~AtRest(id) /\ id \notin Held(t)
  BY <1>5, <1>11, <1>12, <1>13 DEF AtRest
<1> HIDE DEF r
<1> QED BY <1>3, <1>5, <1>6, <1>7, <1>8, <1>10, <1>11, <1>14, SlotStepPreserves

LEMMA ClaimsPreserve ==
    ASSUME BackedInv, NEW t \in Slots, NEW d \in task[t].todo,
           DispatchInsert(t, d) \/ RetryClaim(t, d)
    PROVE  BackedInv'
  BY TakingUpPreserves DEF DispatchInsert, RetryClaim, At

\* A POST backs the attempt in hand, its answer the outcome to be saved.
LEMMA PostPreserves ==
    ASSUME BackedInv, NEW t \in Slots, NEW answer \in {"ok", "failed"},
           Post(t, answer)
    PROVE  BackedInv'
<1> DEFINE r == [task[t] EXCEPT !.pc = answer]
<1>1. task[t] \in Task /\ TaskShape(t) /\ TaskPosted(t) /\ task[t].pc = "post"
  BY DEF BackedInv, TypeOK, Post
<1>0. task[t].cur \in Copy /\ task[t].cur.id \in Deliveries
  BY <1>1 DEF Task, Copy, TaskShape, InHand
<1> PICK id \in Deliveries : id = task[t].cur.id
  BY <1>0
<1>2. /\ task[t].cur \in Copy
      /\ task[t].cur.attempt \in 1..MaxAttempts
      /\ task[t].cur.attempt <= posts[id] + 1
      /\ task[t].kind # "none"
  BY <1>1 DEF Task, Copy, TaskShape, TaskPosted, InHand
<1>3. /\ r \in Task /\ task' = [task EXCEPT ![t] = r]
      /\ r = [kind |-> task[t].kind, pc |-> answer,
              cur |-> task[t].cur, todo |-> task[t].todo]
  BY <1>1 DEF Post, Task
<1>4. task'[t] = r
  BY <1>3, SlotStep DEF BackedInv
<1>5. /\ posts' = [posts EXCEPT ![id] = IF @ = PostsBound THEN @ ELSE @ + 1]
      /\ acked' = IF answer = "ok" THEN acked \cup {id} ELSE acked
      /\ UNCHANGED <<endpoint, subscribed, updating, row, dispatched,
                     addressed, dropped, contended>>
  BY DEF Post, tables
<1>6. /\ \A x \in Deliveries : posts[x] \in 0..PostsBound
      /\ \A x \in Deliveries : posts'[x] \in 0..PostsBound /\ posts'[x] >= posts[x]
      /\ task[t].cur.attempt <= posts'[id]
      /\ posts' \in [Deliveries -> 0..PostsBound]
  <2> HIDE DEF r
  <2>1. posts \in [Deliveries -> 0..PostsBound]
    BY DEF BackedInv, TypeOK
  <2>2. PostsBound \in Nat /\ PostsBound = MaxAttempts + 1
    BY MaxAttemptsAssumption DEF PostsBound
  <2>3. \A x \in Deliveries \ {id} : posts'[x] = posts[x]
    BY <1>5, <2>1
  <2>4. posts'[id] = IF posts[id] = PostsBound THEN posts[id]
                     ELSE posts[id] + 1
    BY <1>5, <2>1
  <2>5. posts'[id] \in 0..PostsBound /\ posts'[id] >= posts[id]
    BY <2>1, <2>2, <2>4
  <2>6. task[t].cur.attempt <= posts'[id]
    <3>1. posts[id] \in Nat
      BY <2>1, <2>2
    <3> QED BY <1>2, <2>2, <2>4, <3>1, MaxAttemptsAssumption
  <2>7. \A x \in Deliveries : posts[x] \in 0..PostsBound /\ posts[x] >= posts[x]
    BY <2>1, <2>2
  <2>8. DOMAIN posts' = Deliveries /\ posts' = [x \in Deliveries |-> posts'[x]]
    BY <1>5, <2>1
  <2> QED BY <2>1, <2>3, <2>5, <2>6, <2>7, <2>8
<1>7. PostsGrow
  BY <1>2, <1>5, <1>6 DEF PostsGrow, BackedInv, TypeOK
<1>8. TaskShape(t)'
  BY <1>1, <1>2, <1>3, <1>4 DEF TaskShape, InHand
<1>9. \A d \in task[t].todo : d.attempt <= posts'[d.id] + 1
  <2>1. \A d \in task[t].todo : /\ d.id \in Deliveries /\ d.attempt \in Nat
                                /\ d.attempt <= posts[d.id] + 1
    BY <1>1, MaxAttemptsAssumption DEF Task, Copy, TaskPosted
  <2> HIDE DEF r
  <2> QED BY <1>6, <2>1
<1>10. TaskPosted(t)'
  <2>1. /\ task'[t].cur = task[t].cur /\ task'[t].todo = task[t].todo
        /\ task'[t].pc = answer
    BY <1>3, <1>4
  <2>2. task'[t].cur.attempt <= posts'[id] /\ posts'[id] \in Nat
    BY <1>6, <2>1, MaxAttemptsAssumption DEF PostsBound
  <2>3. task'[t].cur.attempt <= posts'[id] + 1
    BY <1>2, <2>1, <2>2
  <2>4. task'[t].cur.id = id
    BY <2>1
  <2>5. \A d \in task'[t].todo : d.attempt <= posts'[d.id] + 1
    BY <1>9, <2>1
  <2>6. task'[t].pc = "ok" => task'[t].cur.id \in acked'
    BY <1>5, <2>1, <2>4
  <2> HIDE DEF r
  <2> QED BY <2>2, <2>3, <2>4, <2>5, <2>6 DEF TaskPosted
<1>11. RowsPosted' /\ DeliveredIsAcked'
  BY <1>5, <1>7, RowsStayBacked
<1>12. /\ row' \in [Deliveries -> Row \cup {NoRow}]
       /\ dispatched' \subseteq Events
       /\ addressed' \subseteq Deliveries /\ dropped' \subseteq Deliveries
       /\ contended' \subseteq Deliveries
  BY <1>5 DEF BackedInv, TypeOK
<1>13. Held(t)' = Held(t)
  BY <1>1, <1>3, <1>4 DEF Held, InHand
<1>14. \A x \in Deliveries : AtRest(x) => AtRest(x)'
  <2> HIDE DEF r
  <2>1. \A x \in Deliveries : /\ posts[x] \in Nat /\ posts'[x] \in Nat
                              /\ posts'[x] >= posts[x]
    BY <1>6, MaxAttemptsAssumption DEF PostsBound
  <2>2. UNCHANGED row
    BY <1>5
  <2> QED BY <2>1, <2>2, MaxAttemptsAssumption DEF AtRest
<1>15. \A x \in addressed' \ dropped' :
           \/ AtRest(x)'
           \/ x \in Held(t)'
           \/ x \in addressed /\ ~AtRest(x) /\ x \notin Held(t)
  BY <1>5, <1>12, <1>13, <1>14
<1> HIDE DEF r
<1> QED BY <1>3, <1>5, <1>7, <1>8, <1>10, <1>11, <1>12, <1>15, SlotStepPreserves

\* The outcome saved is a delivery, a retry, or the end of the attempts.
LEMMA SaveOutcomePreserves ==
    ASSUME BackedInv, NEW t \in Slots, SaveOutcome(t)
    PROVE  BackedInv'
<1> DEFINE attempt == task[t].cur.attempt
           new == Outcome(task[t].pc, attempt)
<1>1. /\ task[t] \in Task /\ TaskShape(t) /\ TaskPosted(t)
      /\ task[t].pc \in {"ok", "failed"}
  BY DEF BackedInv, TypeOK, SaveOutcome
<1>0. task[t].cur.id \in Deliveries
  BY <1>1 DEF Task, Copy, TaskShape, InHand
<1> PICK id \in Deliveries : id = task[t].cur.id
  BY <1>0
<1>2. /\ attempt \in 1..MaxAttempts
      /\ attempt <= posts[id] /\ posts[id] \in Nat
      /\ task[t].pc = "ok" => id \in acked
  BY <1>1, MaxAttemptsAssumption
     DEF Task, Copy, TaskShape, TaskPosted, InHand, BackedInv, TypeOK, PostsBound
<1>3. /\ row' = [row EXCEPT ![id] = new]
      /\ Continue(t, task[t].todo)
      /\ UNCHANGED <<endpoint, subscribed, updating, dispatched, posts,
                     acked, addressed, dropped, contended>>
  BY DEF SaveOutcome, history
<1>4. /\ new \in Row
      /\ new.attempt <= posts[id] + 1
      /\ new.delivered => id \in acked
      /\ new.delivered \/ new.retry # "none" \/ posts[id] >= MaxAttempts
  <2> HIDE DEF attempt
  <2> QED BY <1>1, <1>2, MaxAttemptsAssumption DEF Outcome, ScheduleRetry, Row
<1>5. PICK r \in Task :
          /\ task' = [task EXCEPT ![t] = r]
          /\ PostsGrow /\ TaskShape(t)' /\ TaskPosted(t)'
          /\ Held(t)' = IF task[t].kind = "dispatch"
                        THEN {d.id : d \in task[t].todo} ELSE {}
  BY <1>1, <1>3, RunContinues
<1>6. Held(t) = {id} \cup Held(t)'
  BY <1>1, <1>5 DEF Held, InHand
<1> HIDE DEF new
<1>7. /\ row' \in [Deliveries -> Row \cup {NoRow}]
      /\ RowsPosted' /\ DeliveredIsAcked'
  BY <1>2, <1>3, <1>4, RowWritten
<1>8. /\ dispatched' \subseteq Events
      /\ addressed' \subseteq Deliveries /\ dropped' \subseteq Deliveries
      /\ contended' \subseteq Deliveries
  BY <1>3 DEF BackedInv, TypeOK
<1>9. row'[id] = new /\ \A x \in Deliveries \ {id} : row'[x] = row[x]
  BY <1>2, <1>3 DEF BackedInv, TypeOK
<1>10. AtRest(id)'
  BY <1>3, <1>4, <1>9 DEF AtRest
<1>11. \A x \in Deliveries \ {id} : AtRest(x) => AtRest(x)'
  BY <1>3, <1>9 DEF AtRest
<1>12. \A x \in addressed' \ dropped' :
           \/ AtRest(x)'
           \/ x \in Held(t)'
           \/ x \in addressed /\ ~AtRest(x) /\ x \notin Held(t)
  BY <1>3, <1>6, <1>8, <1>10, <1>11
<1> QED BY <1>3, <1>5, <1>7, <1>8, <1>12, SlotStepPreserves

-----------------------------------------------------------------------------
(* Failures.                                                               *)

\* What a run holds is what its end drops.
LEMMA HeldIsAtRisk ==
    ASSUME BackedInv, NEW t \in Slots
    PROVE  Held(t) \subseteq AtRisk(t) /\ AtRisk(t) \subseteq Deliveries
<1>1. task[t] \in Task /\ TaskShape(t)
  BY DEF BackedInv, TypeOK
<1>2. CASE task[t] = Idle
  BY <1>2 DEF Held, AtRisk, InHand, Idle
<1>3. CASE task[t] # Idle
  <2>1. task[t].pc \in {"next", "post", "ok", "failed"}
    BY <1>1, <1>3 DEF TaskShape, Task
  <2>2. task[t].kind \in {"dispatch", "retries"}
    BY <1>1, <2>1 DEF TaskShape, Task
  <2>3. task[t].pc # "next" => task[t].cur \in Copy
    BY <1>1, <2>1 DEF TaskShape, InHand, Task
  <2>4. AtRisk(t) = (IF task[t].pc = "next" THEN {} ELSE {task[t].cur.id})
                    \cup (IF task[t].kind = "retries" THEN {}
                          ELSE {d.id : d \in task[t].todo})
    BY <1>3 DEF AtRisk
  <2>5. Held(t) \subseteq AtRisk(t)
    BY <2>1, <2>2, <2>4 DEF Held, InHand
  <2>6. AtRisk(t) \subseteq Deliveries
    BY <1>1, <2>3, <2>4 DEF Task, Copy
  <2> QED BY <2>5, <2>6
<1> QED BY <1>2, <1>3

\* An idle slot holds nothing and owes nothing.
LEMMA IdleAgain ==
    ASSUME NEW t \in Slots, task'[t] = Idle
    PROVE  TaskShape(t)' /\ TaskPosted(t)' /\ Held(t)' = {}
  BY DEF TaskShape, TaskPosted, Held, InHand, Idle

LEMMA RunFailsPreserves ==
    ASSUME BackedInv, NEW t \in Slots, RunFails(t)
    PROVE  BackedInv'
<1>1. /\ task' = [task EXCEPT ![t] = Idle]
      /\ dropped' = dropped \cup AtRisk(t)
      /\ UNCHANGED <<endpoint, subscribed, updating, row, dispatched, posts,
                     acked, addressed, contended>>
  BY DEF RunFails, tables
<1>2. Idle \in Task
  BY DEF Idle, Task
<1>3. TaskShape(t)' /\ TaskPosted(t)'
  BY <1>1, <1>2, SlotStep, IdleAgain DEF BackedInv
<1>4. PostsGrow
  BY <1>1, SamePosts DEF BackedInv
<1>5. RowsPosted' /\ DeliveredIsAcked'
  BY <1>1, <1>4, RowsStayBacked
<1>6. /\ row' \in [Deliveries -> Row \cup {NoRow}]
      /\ dispatched' \subseteq Events
      /\ addressed' \subseteq Deliveries
      /\ contended' \subseteq Deliveries
      /\ dropped \subseteq dropped' /\ dropped' \subseteq Deliveries
  BY <1>1, HeldIsAtRisk DEF BackedInv, TypeOK
<1>7. \A id \in addressed' \ dropped' :
          AtRest(id)' \/ (id \in addressed /\ ~AtRest(id) /\ id \notin Held(t))
  BY <1>1, HeldIsAtRisk DEF AtRest
<1> QED BY <1>1, <1>2, <1>3, <1>4, <1>5, <1>6, <1>7, SlotStepPreserves

\* The end of the process drops what every run held.
LEMMA ProcessStopsPreserves ==
    ASSUME BackedInv, ProcessStops
    PROVE  BackedInv'
<1>1. /\ task' = [t \in Slots |-> Idle]
      /\ updating' = {}
      /\ dropped' = dropped \cup UNION {AtRisk(t) : t \in Slots}
      /\ UNCHANGED <<endpoint, subscribed, row, dispatched, posts, acked,
                     addressed, contended>>
  BY DEF ProcessStops
<1>2. Idle \in Task
  BY DEF Idle, Task
<1>3. \A t \in Slots : TaskShape(t)' /\ TaskPosted(t)'
  BY <1>1, IdleAgain
<1>4. PostsGrow
  BY <1>1, SamePosts DEF BackedInv
<1>5. RowsPosted' /\ DeliveredIsAcked'
  BY <1>1, <1>4, RowsStayBacked
<1>6. \A t \in Slots : Held(t) \subseteq dropped' /\ AtRisk(t) \subseteq Deliveries
  BY <1>1, HeldIsAtRisk
<1>7. TypeOK'
  <2>1. dropped' \subseteq Deliveries
    BY <1>1, <1>6 DEF BackedInv, TypeOK
  <2>2. task' \in [Slots -> Task] /\ updating' \subseteq Endpoints \X BOOLEAN
    BY <1>1, <1>2
  <2> QED BY <1>1, <2>1, <2>2 DEF BackedInv, TypeOK, PostsBound
<1>8. Accounted'
  <2> SUFFICES ASSUME NEW id \in addressed' \ dropped'
               PROVE  AtRest(id)'
    BY DEF Accounted, AtRest
  <2>1. id \in addressed \ dropped /\ \A t \in Slots : id \notin Held(t)
    BY <1>1, <1>6
  <2>2. AtRest(id)
    BY <2>1 DEF BackedInv, Accounted, AtRest
  <2> QED BY <1>1, <2>2 DEF AtRest
<1> QED BY <1>3, <1>5, <1>7, <1>8 DEF BackedInv

-----------------------------------------------------------------------------
(* The deliveries of overlapping runs.                                     *)

LEMMA InitBacked == Init => BackedInv
<1> SUFFICES ASSUME Init PROVE BackedInv
  OBVIOUS
<1> USE DEF Init
<1>1. PostsBound \in Nat /\ 0 \in 0..PostsBound
  BY MaxAttemptsAssumption DEF PostsBound
<1>2. Idle \in Task
  BY DEF Idle, Task
<1>3. TypeOK
  BY <1>1, <1>2 DEF TypeOK, EndpointState
<1>4. \A t \in Slots : TaskShape(t) /\ TaskPosted(t)
  BY DEF TaskShape, TaskPosted, InHand, Idle
<1>5. RowsPosted /\ DeliveredIsAcked /\ Accounted
  BY DEF RowsPosted, DeliveredIsAcked, Accounted, NoRow
<1> QED BY <1>3, <1>4, <1>5 DEF BackedInv

LEMMA StepBacked == BackedInv /\ [Next]_vars => BackedInv'
<1> SUFFICES ASSUME BackedInv, [Next]_vars PROVE BackedInv'
  OBVIOUS
<1>1. CASE Merchant
  BY <1>1, MerchantPreserves
<1>2. ASSUME NEW t \in Slots, NEW e \in Events, DispatchStart(t, e)
      PROVE  BackedInv'
  BY <1>2, DispatchStartPreserves
<1>3. ASSUME NEW t \in Slots, RetryStart(t)
      PROVE  BackedInv'
  BY <1>3, RetryStartPreserves
<1>4. ASSUME NEW t \in Slots, Progress(t)
      PROVE  BackedInv'
  <2>1. ASSUME NEW d \in task[t].todo, DispatchInsert(t, d)
        PROVE  BackedInv'
    BY <2>1, ClaimsPreserve
  <2>2. ASSUME NEW d \in task[t].todo, RetrySkip(t, d)
        PROVE  BackedInv'
    BY <2>2, RetrySkipPreserves
  <2>3. ASSUME NEW d \in task[t].todo, RetryClaim(t, d)
        PROVE  BackedInv'
    BY <2>3, ClaimsPreserve
  <2>4. ASSUME NEW answer \in {"ok", "failed"}, Post(t, answer)
        PROVE  BackedInv'
    BY <2>4, PostPreserves
  <2>5. CASE SaveOutcome(t)
    BY <2>5, SaveOutcomePreserves
  <2>6. CASE RunFails(t)
    BY <2>6, RunFailsPreserves
  <2> QED BY <1>4, <2>1, <2>2, <2>3, <2>4, <2>5, <2>6 DEF Progress, Claims
<1>5. CASE ProcessStops
  BY <1>5, ProcessStopsPreserves
<1>6. ASSUME NEW id \in Deliveries, RetryBecomesDue(id)
      PROVE  BackedInv'
  BY <1>6, RetryBecomesDuePreserves
<1>7. CASE UNCHANGED vars
  <2>1. /\ UNCHANGED <<row, task, dispatched, history>>
        /\ UNCHANGED <<endpoint, subscribed, updating>>
    BY <1>7 DEF vars, tables
  <2>2. /\ endpoint' \in [Endpoints -> EndpointState]
        /\ subscribed' \subseteq Endpoints \X Types
        /\ updating' \subseteq Endpoints \X BOOLEAN
    BY <2>1 DEF BackedInv, TypeOK
  <2> QED BY <2>1, <2>2, SettingsPreserve
<1> QED BY <1>1, <1>2, <1>3, <1>4, <1>5, <1>6, <1>7 DEF Next

-----------------------------------------------------------------------------
(* The deliveries that no two runs hold at the same time.                  *)

\* A step of slot t that takes no new copy disturbs only what t holds.
LEMMA SlotStepCounted ==
    ASSUME BackedInv, BackedInv', CountedInv, NEW t \in Slots,
           \A u \in Slots \ {t} : task'[u] = task[u],
           UNCHANGED <<dispatched, addressed, contended>>,
           TaskDistinct(t)',
           Copied(t)' \subseteq Copied(t),
           \A id \in Deliveries \ Copied(t) :
               /\ row'[id] = row[id] /\ posts'[id] = posts[id]
               /\ id \in acked' <=> id \in acked,
           \A id \in Copied(t) \ contended :
               RowCounted(id)' /\ CopiesCounted(t, id)'
    PROVE  CountedInv'
<1>1. \A u \in Slots : TaskShape(u)'
  BY DEF BackedInv
<1>2. \A u \in Slots \ {t} : TaskDistinct(u)' /\ Copied(u)' = Copied(u)
  BY DEF CountedInv, TaskDistinct, Copied, InHand
<1>3. TracesDispatched'
  <2> SUFFICES ASSUME NEW id \in Deliveries \ addressed
               PROVE  /\ row'[id] = NoRow /\ posts'[id] = 0
                      /\ id \notin acked'
                      /\ \A u \in Slots : id \notin Copied(u)'
    BY DEF CountedInv, TracesDispatched
  <2>1. /\ row[id] = NoRow /\ posts[id] = 0 /\ id \notin acked
        /\ \A u \in Slots : id \notin Copied(u)
    BY DEF CountedInv, TracesDispatched
  <2> QED BY <1>2, <2>1
<1>4. ASSUME NEW id \in Deliveries \ contended
      PROVE  HeldOnce(id)'
  <2>1. HeldOnce(id)
    BY <1>4 DEF CountedInv
  <2> QED BY <1>2, <2>1 DEF HeldOnce
<1>5. ASSUME NEW id \in Deliveries, NEW u \in Slots, id \notin Copied(u)'
      PROVE  CopiesCounted(u, id)'
  BY <1>1, <1>5 DEF CopiesCounted, Copied, TaskShape
<1>6. ASSUME NEW id \in Deliveries \ contended
      PROVE  RowCounted(id)' /\ \A u \in Slots : CopiesCounted(u, id)'
  <2>1. CASE id \in Copied(t)
    <3>1. RowCounted(id)' /\ CopiesCounted(t, id)'
      BY <1>6, <2>1
    <3>2. \A u \in Slots \ {t} : id \notin Copied(u)'
      BY <1>2, <1>6, <2>1 DEF CountedInv, HeldOnce
    <3> QED BY <1>5, <1>6, <3>1, <3>2
  <2>2. CASE id \notin Copied(t)
    <3>1. /\ row'[id] = row[id] /\ posts'[id] = posts[id]
          /\ id \in acked' <=> id \in acked
      BY <1>6, <2>2
    <3>2. RowCounted(id)'
      BY <1>6, <3>1 DEF CountedInv, RowCounted
    <3>3. CopiesCounted(t, id)'
      BY <1>5, <1>6, <2>2
    <3>4. ASSUME NEW u \in Slots \ {t}
          PROVE  CopiesCounted(u, id)'
      <4>1. CopiesCounted(u, id)
        BY <1>6 DEF CountedInv
      <4>2. task'[u] = task[u]
        BY <3>4
      <4> QED BY <3>1, <4>1, <4>2 DEF CopiesCounted, InHand
    <3> QED BY <3>2, <3>3, <3>4
  <2> QED BY <2>1, <2>2
<1> QED BY <1>2, <1>3, <1>4, <1>6 DEF CountedInv

\* What is taken up was to be taken up, and its row waits for nothing.
LEMMA TakingUpCounted ==
    ASSUME BackedInv, BackedInv', CountedInv,
           NEW t \in Slots, NEW d \in task[t].todo,
           task[t].pc = "next", TakeUp(t, d),
           row' = [row EXCEPT ![d.id] = [attempt |-> d.attempt,
                                         delivered |-> FALSE,
                                         retry |-> "none"]],
           UNCHANGED <<dispatched, history>>
    PROVE  CountedInv'
<1> DEFINE r == [kind |-> task[t].kind, pc |-> "post",
                 cur |-> d, todo |-> task[t].todo \ {d}]
<1>1. task[t] \in Task /\ TaskShape(t) /\ TaskDistinct(t)
  BY DEF BackedInv, CountedInv, TypeOK
<1>2. d \in Copy /\ d.id \in Deliveries /\ d # Nothing
  BY <1>1, NothingAssumption DEF Task, Copy
<1>3. task'[t] = r /\ \A u \in Slots \ {t} : task'[u] = task[u]
  BY DEF TakeUp, BackedInv, TypeOK
<1>4. /\ row'[d.id].retry = "none"
      /\ \A id \in Deliveries \ {d.id} : row'[id] = row[id]
  BY <1>2 DEF BackedInv, TypeOK
<1>5. UNCHANGED <<posts, acked, addressed, contended>>
  BY DEF history
<1>6. task'[t].pc = "post" /\ task'[t].cur = d /\ task'[t].todo = task[t].todo \ {d}
  BY <1>3
<1> HIDE DEF r
<1>7. TaskDistinct(t)'
  BY <1>1, <1>6 DEF TaskDistinct
<1>8. Copied(t)' \subseteq Copied(t) /\ d.id \in Copied(t)
  BY <1>6 DEF Copied
<1>9. ASSUME NEW id \in Copied(t) \ contended, id \in Deliveries
      PROVE  RowCounted(id)' /\ CopiesCounted(t, id)'
  <2>1. RowCounted(id) /\ CopiesCounted(t, id)
    BY <1>9 DEF CountedInv
  <2>2. RowCounted(id)'
    BY <1>4, <1>5, <1>9, <2>1 DEF RowCounted
  <2>3. \A c \in task'[t].todo :
            c.id = id => posts'[id] < c.attempt /\ id \notin acked'
    BY <1>5, <1>6, <2>1 DEF CopiesCounted
  <2>4. d.id = id => posts[id] < d.attempt /\ id \notin acked
    BY <2>1 DEF CopiesCounted
  <2>5. d.id = id => posts[id] <= d.attempt
    BY <1>2, <1>9, <2>4, MaxAttemptsAssumption
       DEF Copy, BackedInv, TypeOK, PostsBound
  <2> QED BY <1>4, <1>5, <1>6, <2>2, <2>3, <2>4, <2>5 DEF CopiesCounted
<1>10. Copied(t) \subseteq Deliveries
  BY <1>1 DEF Copied, Task, Copy
<1> QED BY <1>3, <1>4, <1>5, <1>7, <1>8, <1>9, <1>10, SlotStepCounted

\* A run that leaves its delivery has the rest to take up.
LEMMA ContinuesCounted ==
    ASSUME BackedInv, BackedInv', CountedInv, NEW t \in Slots,
           NEW rest \in SUBSET task[t].todo, Continue(t, rest),
           UNCHANGED <<posts, acked, dispatched, addressed, contended>>,
           \A id \in Deliveries \ Copied(t) : row'[id] = row[id],
           \A id \in Copied(t) \ contended : RowCounted(id)'
    PROVE  CountedInv'
<1>1. task[t] \in Task /\ TaskDistinct(t)
  BY DEF BackedInv, CountedInv, TypeOK
<1>2. \A u \in Slots \ {t} : task'[u] = task[u]
  BY DEF Continue, BackedInv, TypeOK
<1>3. task'[t].pc \in {"idle", "next"} /\ task'[t].cur = Nothing
      /\ task'[t].todo = rest
  BY DEF Continue, Idle, BackedInv, TypeOK
<1>4. TaskDistinct(t)'
  BY <1>1, <1>3 DEF TaskDistinct, InHand
<1>5. Copied(t)' \subseteq Copied(t)
  BY <1>3 DEF Copied
<1>6. Copied(t) \subseteq Deliveries
  BY <1>1 DEF Copied, Task, Copy
<1>7. ASSUME NEW id \in Copied(t) \ contended
      PROVE  CopiesCounted(t, id)'
  <2>1. CopiesCounted(t, id)
    BY <1>6, <1>7 DEF CountedInv
  <2> QED BY <1>3, <2>1 DEF CopiesCounted, InHand
<1> QED BY <1>2, <1>4, <1>5, <1>7, SlotStepCounted

\* An answered delivery waits for nothing but its next attempt.
LEMMA SaveOutcomeCounted ==
    ASSUME BackedInv, BackedInv', CountedInv, NEW t \in Slots, SaveOutcome(t)
    PROVE  CountedInv'
<1>1. task[t] \in Task /\ TaskShape(t) /\ task[t].pc \in {"ok", "failed"}
  BY DEF BackedInv, TypeOK, SaveOutcome
<1>2. /\ task[t].cur \in Copy /\ task[t].cur # Nothing
      /\ task[t].cur.id \in Deliveries
  BY <1>1 DEF Task, Copy, TaskShape, InHand
<1> PICK id \in Deliveries, a \in 1..MaxAttempts :
        id = task[t].cur.id /\ a = task[t].cur.attempt
  BY <1>2 DEF Copy
<1>3. /\ row' = [row EXCEPT ![id] = Outcome(task[t].pc, a)]
      /\ Continue(t, task[t].todo)
      /\ UNCHANGED <<posts, acked, dispatched, addressed, contended>>
  BY DEF SaveOutcome, history
<1>4. /\ row'[id] = Outcome(task[t].pc, a)
      /\ \A x \in Deliveries \ {id} : row'[x] = row[x]
  BY <1>3 DEF BackedInv, TypeOK
<1>5. id \in Copied(t)
  BY <1>2 DEF Copied
<1>6. Copied(t) \subseteq Deliveries
  BY <1>1 DEF Copied, Task, Copy
<1>7. ASSUME NEW x \in Copied(t) \ contended
      PROVE  RowCounted(x)'
  <2>1. RowCounted(x) /\ CopiesCounted(t, x)
    BY <1>6, <1>7 DEF CountedInv
  <2>2. CASE x # id
    BY <1>3, <1>4, <1>6, <2>1, <2>2 DEF RowCounted
  <2>3. CASE x = id
    <3>1. /\ posts[id] <= a
          /\ task[t].pc = "failed" => id \notin acked
      BY <1>1, <2>1, <2>3 DEF CopiesCounted, InHand
    <3>2. posts[id] \in Nat
      BY MaxAttemptsAssumption DEF BackedInv, TypeOK, PostsBound
    <3>3. posts[id] <= MaxAttempts
      BY <2>1, <2>3 DEF RowCounted
    <3>4. row'[id].retry # "none" =>
              posts[id] < row'[id].attempt /\ id \notin acked
      BY <1>1, <1>4, <3>1, <3>2, MaxAttemptsAssumption
         DEF Outcome, ScheduleRetry
    <3> QED BY <1>3, <2>3, <3>3, <3>4 DEF RowCounted
  <2> QED BY <2>2, <2>3
<1> QED BY <1>3, <1>4, <1>5, <1>7, ContinuesCounted

\* The POST is the attempt the copy stands for.
LEMMA PostCounted ==
    ASSUME BackedInv, BackedInv', CountedInv, NEW t \in Slots,
           NEW answer \in {"ok", "failed"}, Post(t, answer)
    PROVE  CountedInv'
<1>1. task[t] \in Task /\ TaskShape(t) /\ TaskDistinct(t) /\ task[t].pc = "post"
  BY DEF BackedInv, CountedInv, TypeOK, Post
<1>2. /\ task[t].cur \in Copy /\ task[t].cur # Nothing
      /\ task[t].cur.id \in Deliveries
  BY <1>1 DEF Task, Copy, TaskShape, InHand
<1> PICK id \in Deliveries, a \in 1..MaxAttempts :
        id = task[t].cur.id /\ a = task[t].cur.attempt
  BY <1>2 DEF Copy
<1>3. /\ posts' = [posts EXCEPT ![id] = IF @ = PostsBound THEN @ ELSE @ + 1]
      /\ acked' = IF answer = "ok" THEN acked \cup {id} ELSE acked
      /\ UNCHANGED <<row, dispatched, addressed, contended>>
      /\ task' = [task EXCEPT ![t].pc = answer]
  BY DEF Post, tables
<1>4. /\ \A u \in Slots \ {t} : task'[u] = task[u]
      /\ task'[t].pc = answer /\ task'[t].cur = task[t].cur
      /\ task'[t].todo = task[t].todo
  BY <1>1, <1>3 DEF BackedInv, TypeOK, Task
<1>5. /\ posts'[id] = IF posts[id] = PostsBound THEN posts[id]
                      ELSE posts[id] + 1
      /\ \A x \in Deliveries \ {id} :
             posts'[x] = posts[x] /\ (x \in acked' <=> x \in acked)
  BY <1>3 DEF BackedInv, TypeOK
<1>6. TaskDistinct(t)'
  BY <1>1, <1>4 DEF TaskDistinct, InHand
<1>7. Copied(t)' \subseteq Copied(t) /\ id \in Copied(t)
  BY <1>2, <1>4 DEF Copied
<1>8. Copied(t) \subseteq Deliveries
  BY <1>1 DEF Copied, Task, Copy
<1>9. ASSUME NEW x \in Copied(t) \ contended
      PROVE  RowCounted(x)' /\ CopiesCounted(t, x)'
  <2>1. RowCounted(x) /\ CopiesCounted(t, x) /\ x \in Deliveries
    BY <1>8, <1>9 DEF CountedInv
  <2>2. CASE x # id
    <3>1. /\ posts'[x] = posts[x] /\ row'[x] = row[x]
          /\ x \in acked' <=> x \in acked
      BY <1>3, <1>5, <2>1, <2>2
    <3>2. RowCounted(x)'
      BY <2>1, <3>1 DEF RowCounted
    <3> QED BY <1>4, <2>1, <2>2, <3>1, <3>2 DEF CopiesCounted
  <2>3. CASE x = id
    <3>1. /\ row[id].retry = "none" /\ posts[id] < a /\ id \notin acked
      BY <1>1, <2>1, <2>3 DEF CopiesCounted, InHand
    <3>2. posts[id] \in Nat /\ posts'[id] <= a /\ posts'[id] <= MaxAttempts
      <4>1. posts[id] \in 0..PostsBound /\ PostsBound = MaxAttempts + 1
        BY DEF BackedInv, TypeOK, PostsBound
      <4> QED BY <1>5, <3>1, <4>1, MaxAttemptsAssumption
    <3>3. RowCounted(id)'
      BY <1>3, <3>1, <3>2 DEF RowCounted
    <3>4. \A d \in task'[t].todo : d.id # id
      BY <1>1, <1>4 DEF TaskDistinct, InHand
    <3>5. answer # "ok" => id \notin acked'
      BY <1>3, <3>1
    <3> QED BY <1>3, <1>4, <2>3, <3>1, <3>2, <3>3, <3>4, <3>5
            DEF CopiesCounted
  <2> QED BY <2>2, <2>3
<1> QED BY <1>3, <1>4, <1>5, <1>6, <1>7, <1>9, SlotStepCounted

\* A failed run leaves rows that wait for nothing not yet done.
LEMMA RunFailsCounted ==
    ASSUME BackedInv, BackedInv', CountedInv, NEW t \in Slots, RunFails(t)
    PROVE  CountedInv'
<1>1. /\ task'[t] = Idle /\ \A u \in Slots \ {t} : task'[u] = task[u]
      /\ UNCHANGED <<row, dispatched, posts, acked, addressed, contended>>
  BY DEF RunFails, tables, BackedInv, TypeOK
<1>2. TaskDistinct(t)' /\ Copied(t)' = {}
  BY <1>1 DEF TaskDistinct, Copied, Idle
<1>3. Copied(t) \subseteq Deliveries
  BY DEF Copied, Task, Copy, BackedInv, TypeOK
<1>4. ASSUME NEW id \in Copied(t) \ contended
      PROVE  RowCounted(id)' /\ CopiesCounted(t, id)'
  BY <1>1, <1>3, <1>4 DEF CountedInv, RowCounted, CopiesCounted, InHand, Idle
<1> QED BY <1>1, <1>2, <1>4, SlotStepCounted

\* A run that starts shares a copy only of what becomes contended.
LEMMA RunStartsCounted ==
    ASSUME BackedInv, BackedInv', CountedInv, NEW t \in Slots, NEW kind,
           NEW copies \in SUBSET Copy, Run(t, kind, copies),
           UNCHANGED <<row, posts, acked>>,
           dispatched \subseteq dispatched', addressed \subseteq addressed',
           \A id \in addressed' \ addressed : id[1] \in dispatched',
           \A c, d \in copies : c.id = d.id => c = d,
           \A d \in copies :
               /\ d.id \in addressed'
               /\ d.id \notin contended =>
                      posts[d.id] < d.attempt /\ d.id \notin acked
    PROVE  CountedInv'
<1>1. /\ task[t] = Idle
      /\ contended' = contended \cup
             ({d.id : d \in copies} \cap UNION {Copied(u) : u \in Slots})
  BY DEF Run
<1>2. /\ task'[t].pc = "next" /\ task'[t].cur = Nothing
      /\ task'[t].todo = copies
      /\ \A u \in Slots \ {t} : task'[u] = task[u]
  BY DEF Run, BackedInv, TypeOK
<1>3. /\ Copied(t)' = {d.id : d \in copies}
      /\ \A u \in Slots \ {t} : Copied(u)' = Copied(u)
  BY <1>2 DEF Copied
<1>4. \A u \in Slots : TaskDistinct(u)'
  <2>1. TaskDistinct(t)'
    BY <1>2 DEF TaskDistinct, InHand
  <2> QED BY <1>2, <2>1 DEF CountedInv, TaskDistinct, InHand
<1>5. TracesDispatched'
  BY <1>3 DEF CountedInv, TracesDispatched
<1>6. ASSUME NEW id \in Deliveries \ contended'
      PROVE  /\ RowCounted(id)' /\ HeldOnce(id)'
             /\ \A u \in Slots : CopiesCounted(u, id)'
  <2>1. /\ id \in Deliveries \ contended
        /\ id \in Copied(t)' => \A u \in Slots : id \notin Copied(u)
    BY <1>1, <1>3, <1>6
  <2>2. RowCounted(id) /\ HeldOnce(id) /\ \A u \in Slots : CopiesCounted(u, id)
    BY <2>1 DEF CountedInv
  <2>3. RowCounted(id)'
    BY <2>2 DEF RowCounted
  <2>4. HeldOnce(id)'
    BY <1>3, <2>1, <2>2 DEF HeldOnce
  <2>5. CopiesCounted(t, id)'
    BY <1>2, <2>1 DEF CopiesCounted, InHand
  <2>6. ASSUME NEW u \in Slots \ {t}
        PROVE  CopiesCounted(u, id)'
    <3>1. CopiesCounted(u, id) /\ task'[u] = task[u]
      BY <1>2, <2>2, <2>6
    <3> QED BY <3>1 DEF CopiesCounted, InHand
  <2> QED BY <2>3, <2>4, <2>5, <2>6
<1> QED BY <1>4, <1>5, <1>6 DEF CountedInv

\* The deliveries of a new event are new.
LEMMA DispatchStartCounted ==
    ASSUME BackedInv, BackedInv', CountedInv,
           NEW t \in Slots, NEW e \in Events, DispatchStart(t, e)
    PROVE  CountedInv'
<1> DEFINE copies == {[id |-> id, attempt |-> 1] : id \in Targets(e)}
<1>1. \A id \in Targets(e) : id \in Deliveries /\ id[1] = e
  BY DEF Targets, Deliveries
<1>2. \A id \in Targets(e) : posts[id] = 0 /\ id \notin acked
  BY <1>1 DEF DispatchStart, CountedInv, TracesDispatched
<1>3. copies \in SUBSET Copy
  BY <1>1, MaxAttemptsAssumption DEF Copy
<1>4. \A c, d \in copies : c.id = d.id => c = d
  OBVIOUS
<1>5. \A d \in copies : d.id \in Targets(e) /\ d.attempt = 1
  OBVIOUS
<1>6. /\ Run(t, "dispatch", copies)
      /\ UNCHANGED <<row, posts, acked>>
      /\ dispatched' = dispatched \cup {e}
      /\ addressed' = addressed \cup Targets(e)
  BY DEF DispatchStart, tables
<1>7. \A id \in addressed' \ addressed : id[1] \in dispatched'
  BY <1>1, <1>6
<1>8. \A d \in copies : /\ d.id \in addressed'
                        /\ posts[d.id] < d.attempt /\ d.id \notin acked
  BY <1>1, <1>2, <1>5, <1>6
<1> HIDE DEF copies
<1> QED BY <1>3, <1>4, <1>6, <1>7, <1>8, RunStartsCounted

\* The rows that are due wait for an attempt not made.
LEMMA RetryStartCounted ==
    ASSUME BackedInv, BackedInv', CountedInv, NEW t \in Slots, RetryStart(t)
    PROVE  CountedInv'
<1>1. PICK batch \in SUBSET Due :
          /\ Run(t, "retries",
                 {[id |-> id, attempt |-> row[id].attempt] : id \in batch})
          /\ UNCHANGED <<tables, dispatched, posts, acked, addressed, dropped>>
  BY DEF RetryStart
<1> DEFINE copies == {[id |-> id, attempt |-> row[id].attempt] : id \in batch}
<1>2. \A id \in batch : /\ id \in Deliveries /\ row[id] \in Row
                        /\ row[id].retry = "due"
  BY DEF Due, BackedInv, TypeOK, NoRow
<1>3. copies \in SUBSET Copy
  BY <1>2 DEF Copy, Row
<1>4. \A c, d \in copies : c.id = d.id => c = d
  OBVIOUS
<1>5. \A d \in copies : d.id \in batch /\ d.attempt = row[d.id].attempt
  OBVIOUS
<1>6. /\ Run(t, "retries", copies)
      /\ UNCHANGED <<row, posts, acked, dispatched, addressed>>
  BY <1>1 DEF tables
<1>7. \A id \in batch :
          /\ id \in addressed
          /\ id \notin contended =>
                 posts[id] < row[id].attempt /\ id \notin acked
  BY <1>2 DEF CountedInv, TracesDispatched, RowCounted, NoRow
<1>8. \A d \in copies :
          /\ d.id \in addressed'
          /\ d.id \notin contended =>
                 posts[d.id] < d.attempt /\ d.id \notin acked
  BY <1>5, <1>6, <1>7
<1> HIDE DEF copies
<1> QED BY <1>3, <1>4, <1>6, <1>8, RunStartsCounted

\* Steps of the merchant and of time write no retry that was not there.
LEMMA OtherStepCounted ==
    ASSUME CountedInv,
           UNCHANGED <<task, posts, acked, dispatched, addressed, contended>>,
           \A id \in Deliveries :
               \/ row'[id] = NoRow
               \/ row'[id] = row[id]
               \/ /\ row[id].retry # "none" /\ row[id] # NoRow
                  /\ row'[id].attempt = row[id].attempt
    PROVE  CountedInv'
<1>1. \A t \in Slots : TaskDistinct(t)' /\ Copied(t)' = Copied(t)
  BY DEF CountedInv, TaskDistinct, Copied, InHand
<1>2. TracesDispatched'
  BY <1>1 DEF CountedInv, TracesDispatched, NoRow
<1>3. ASSUME NEW id \in Deliveries \ contended
      PROVE  RowCounted(id)' /\ HeldOnce(id)'
  BY <1>1, <1>3 DEF CountedInv, RowCounted, HeldOnce, NoRow
<1>4. ASSUME NEW id \in Deliveries \ contended, NEW t \in Slots
      PROVE  CopiesCounted(t, id)'
  <2>1. CopiesCounted(t, id)
    BY <1>4 DEF CountedInv
  <2>2. row[id].retry = "none" => row'[id].retry = "none"
    BY <1>4 DEF NoRow
  <2> QED BY <2>1, <2>2 DEF CopiesCounted, InHand
<1> QED BY <1>1, <1>2, <1>3, <1>4 DEF CountedInv

LEMMA MerchantCounted ==
    ASSUME BackedInv, CountedInv, Merchant
    PROVE  CountedInv'
<1>1. UNCHANGED <<task, posts, acked, dispatched, addressed, contended>>
  BY DEF Merchant, CreateEndpoint, UpdateBegin, DeleteEndpoint,
         AddSubscription, RemoveSubscription, UpdateFinish, history
<1>2. \A id \in Deliveries : row'[id] = NoRow \/ row'[id] = row[id]
  BY DEF Merchant, CreateEndpoint, UpdateBegin, DeleteEndpoint,
         AddSubscription, RemoveSubscription, UpdateFinish
<1> QED BY <1>1, <1>2, OtherStepCounted

LEMMA RetryBecomesDueCounted ==
    ASSUME BackedInv, CountedInv, NEW id \in Deliveries, RetryBecomesDue(id)
    PROVE  CountedInv'
<1>1. row[id] \in Row /\ row[id].retry # "none" /\ row[id] # NoRow
  BY DEF RetryBecomesDue, BackedInv, TypeOK, NoRow
<1>2. /\ row'[id].attempt = row[id].attempt
      /\ \A x \in Deliveries \ {id} : row'[x] = row[x]
  BY <1>1 DEF RetryBecomesDue, BackedInv, TypeOK, Row
<1>3. UNCHANGED <<task, posts, acked, dispatched, addressed, contended>>
  BY DEF RetryBecomesDue, history
<1> QED BY <1>1, <1>2, <1>3, OtherStepCounted

\* After a restart no run has a copy.
LEMMA ProcessStopsCounted ==
    ASSUME BackedInv, CountedInv, ProcessStops
    PROVE  CountedInv'
<1>1. /\ \A t \in Slots : task'[t] = Idle
      /\ UNCHANGED <<row, dispatched, posts, acked, addressed, contended>>
  BY DEF ProcessStops
<1>2. \A t \in Slots : TaskDistinct(t)' /\ Copied(t)' = {}
  BY <1>1 DEF TaskDistinct, Copied, Idle
<1>3. TracesDispatched'
  BY <1>1, <1>2 DEF CountedInv, TracesDispatched
<1>4. \A id \in Deliveries \ contended : RowCounted(id)' /\ HeldOnce(id)'
  BY <1>1, <1>2 DEF CountedInv, RowCounted, HeldOnce
<1>5. \A id \in Deliveries, t \in Slots : CopiesCounted(t, id)'
  BY <1>1 DEF CopiesCounted, InHand, Idle
<1> QED BY <1>1, <1>2, <1>3, <1>4, <1>5 DEF CountedInv

-----------------------------------------------------------------------------
(* The invariants.                                                         *)

LEMMA InitIInv == Init => IInv
<1> SUFFICES ASSUME Init PROVE IInv
  OBVIOUS
<1>1. BackedInv
  BY InitBacked
<1>2. \A t \in Slots : TaskDistinct(t) /\ Copied(t) = {}
  BY DEF Init, TaskDistinct, Copied, Idle
<1>3. TracesDispatched
  BY <1>2 DEF Init, TracesDispatched
<1>4. \A id \in Deliveries : /\ RowCounted(id) /\ HeldOnce(id)
                             /\ \A t \in Slots : CopiesCounted(t, id)
  <2>1. \A id \in Deliveries : RowCounted(id) /\ HeldOnce(id)
    BY <1>2, MaxAttemptsAssumption DEF Init, RowCounted, HeldOnce, NoRow
  <2>2. \A id \in Deliveries, t \in Slots : CopiesCounted(t, id)
    BY DEF Init, CopiesCounted, InHand, Idle
  <2> QED BY <2>1, <2>2
<1> QED BY <1>1, <1>2, <1>3, <1>4 DEF IInv, CountedInv

LEMMA StepIInv == IInv /\ [Next]_vars => IInv'
<1> SUFFICES ASSUME IInv, [Next]_vars PROVE IInv'
  OBVIOUS
<1>1. BackedInv /\ CountedInv /\ BackedInv'
  BY StepBacked DEF IInv
<1>2. CASE Merchant
  BY <1>1, <1>2, MerchantCounted DEF IInv
<1>3. ASSUME NEW t \in Slots, NEW e \in Events, DispatchStart(t, e)
      PROVE  IInv'
  BY <1>1, <1>3, DispatchStartCounted DEF IInv
<1>4. ASSUME NEW t \in Slots, RetryStart(t)
      PROVE  IInv'
  BY <1>1, <1>4, RetryStartCounted DEF IInv
<1>5. ASSUME NEW t \in Slots, Progress(t)
      PROVE  IInv'
  <2>1. ASSUME NEW d \in task[t].todo,
               DispatchInsert(t, d) \/ RetryClaim(t, d)
        PROVE  IInv'
    <3>1. /\ task[t].pc = "next" /\ TakeUp(t, d)
          /\ row' = [row EXCEPT ![d.id] = [attempt |-> d.attempt,
                                           delivered |-> FALSE,
                                           retry |-> "none"]]
          /\ UNCHANGED <<dispatched, history>>
      BY <2>1 DEF DispatchInsert, RetryClaim, At
    <3> QED BY <1>1, <3>1, TakingUpCounted DEF IInv
  <2>2. ASSUME NEW d \in task[t].todo, RetrySkip(t, d)
        PROVE  IInv'
    <3>1. /\ Continue(t, task[t].todo \ {d})
          /\ UNCHANGED <<row, posts, acked, dispatched, addressed, contended>>
      BY <2>2 DEF RetrySkip, tables, history
    <3>2. Copied(t) \subseteq Deliveries
      BY <1>1 DEF Copied, Task, Copy, BackedInv, TypeOK
    <3>3. \A id \in Copied(t) \ contended : RowCounted(id)'
      BY <1>1, <3>1, <3>2 DEF CountedInv, RowCounted
    <3> QED BY <1>1, <3>1, <3>3, ContinuesCounted DEF IInv
  <2>3. ASSUME NEW answer \in {"ok", "failed"}, Post(t, answer)
        PROVE  IInv'
    BY <1>1, <2>3, PostCounted DEF IInv
  <2>4. CASE SaveOutcome(t)
    BY <1>1, <2>4, SaveOutcomeCounted DEF IInv
  <2>5. CASE RunFails(t)
    BY <1>1, <2>5, RunFailsCounted DEF IInv
  <2> QED BY <1>5, <2>1, <2>2, <2>3, <2>4, <2>5 DEF Progress, Claims
<1>6. CASE ProcessStops
  BY <1>1, <1>6, ProcessStopsCounted DEF IInv
<1>7. ASSUME NEW id \in Deliveries, RetryBecomesDue(id)
      PROVE  IInv'
  BY <1>1, <1>7, RetryBecomesDueCounted DEF IInv
<1>8. CASE UNCHANGED vars
  <2>1. UNCHANGED <<row, task, posts, acked, dispatched, addressed, contended>>
    BY <1>8 DEF vars, tables, history
  <2> QED BY <1>1, <2>1, OtherStepCounted DEF IInv
<1> QED BY <1>2, <1>3, <1>4, <1>5, <1>6, <1>7, <1>8 DEF Next

\* Whatever the number of endpoints, dispatches and overlapping runs of
\* processPendingRetries and dispatch, and whatever fails, an attempt in the
\* table or in a copy is backed by the POSTs before it.
THEOREM Invariant == Spec => []IInv
  BY InitIInv, StepIInv, PTL DEF Spec

\* No delivery that dispatch set out to make is lost silently: it is
\* delivered, waits for its retry, is in a run's hands, or had MAX_ATTEMPTS
\* POSTs, unless a failure or the deletion of its endpoint dropped it.
THEOREM AlwaysAccounted == Spec => []Accounted
<1>1. IInv => Accounted
  BY DEF IInv, BackedInv
<1> QED BY <1>1, Invariant, PTL

\* delivered_at is only ever set for a delivery the merchant answered with a
\* 2xx, though old copies are saved over newer rows.
THEOREM DeliveriesAcked == Spec => []DeliveredIsAcked
<1>1. IInv => DeliveredIsAcked
  BY DEF IInv, BackedInv
<1> QED BY <1>1, Invariant, PTL

\* A delivery that no two runs held at the same time is not POSTed more than
\* MAX_ATTEMPTS times, whenever runs fail and the process stops.
THEOREM AttemptsBounded == Spec => []PostsWithinAttempts
<1>1. IInv => PostsWithinAttempts
  BY DEF IInv, CountedInv, RowCounted, PostsWithinAttempts
<1> QED BY <1>1, Invariant, PTL

\* What the merchant answered with a 2xx is not POSTed again, unless two runs
\* held the delivery at the same time.
THEOREM AckedOnce == Spec => NeverPostedAgain
<1>1. ASSUME IInv, Next, NEW id \in acked \ contended
      PROVE  posts'[id] = posts[id]
  <2>1. id \in Deliveries
    BY <1>1 DEF IInv, BackedInv, TypeOK
  <2>2. CASE UNCHANGED posts
    BY <2>2
  <2>3. ASSUME NEW t \in Slots, NEW answer \in {"ok", "failed"},
               Post(t, answer)
        PROVE  posts'[id] = posts[id]
    <3>1. CopiesCounted(t, id)
      BY <1>1, <2>1 DEF IInv, CountedInv
    <3>2. task[t].cur.id # id
      BY <1>1, <2>3, <3>1 DEF Post, CopiesCounted, InHand
    <3>3. posts \in [Deliveries -> 0..PostsBound]
      BY <1>1 DEF IInv, BackedInv, TypeOK
    <3> QED BY <2>1, <2>3, <3>2, <3>3 DEF Post
  <2>4. \/ UNCHANGED posts
        \/ \E t \in Slots, answer \in {"ok", "failed"} : Post(t, answer)
    BY <1>1 DEF Next, Merchant, CreateEndpoint, UpdateBegin, DeleteEndpoint,
       AddSubscription, RemoveSubscription, UpdateFinish, DispatchStart,
       RetryStart, Progress, Claims, DispatchInsert, RetrySkip, RetryClaim,
       SaveOutcome, RunFails, ProcessStops, RetryBecomesDue, history
  <2> QED BY <2>2, <2>3, <2>4
<1>2. IInv /\ [Next]_vars =>
          [\A id \in acked \ contended : posts'[id] = posts[id]]_vars
  BY <1>1
<1> QED BY <1>2, Invariant, PTL DEF Spec, NeverPostedAgain

-----------------------------------------------------------------------------
(* The queue.                                                              *)

\* What has left the queue was settled.
ClosedSettled ==
    \A id \in addressed \ Pending :
        id \in acked \cup dropped \/ posts[id] >= MaxAttempts

\* What is in somebody's hands, or in the table, was taken into the queue.
PendingAccepted ==
    /\ Pending \subseteq addressed /\ addressed \subseteq Deliveries
    /\ \A t \in Slots : Copied(t) \subseteq Pending /\ Held(t) \subseteq Copied(t)

LEMMA QueueInvariants == IInv => ClosedSettled /\ PendingAccepted
<1> SUFFICES ASSUME IInv PROVE ClosedSettled /\ PendingAccepted
  OBVIOUS
<1>1. addressed \subseteq Deliveries /\ \A t \in Slots : TaskShape(t) /\ task[t] \in Task
  BY DEF IInv, BackedInv, TypeOK
<1>2. ASSUME NEW t \in Slots
      PROVE  /\ Copied(t) \subseteq Deliveries /\ Held(t) \subseteq Copied(t)
             /\ Copied(t) \subseteq Pending
  <2>1. Copied(t) \subseteq Deliveries
    BY <1>1 DEF Copied, Task, Copy
  <2>2. Held(t) \subseteq Copied(t)
    BY <1>1 DEF Held, Copied, TaskShape
  <2>3. Copied(t) \subseteq Pending
    BY DEF Pending
  <2> QED
    BY <2>1, <2>2, <2>3
<1>3. ASSUME NEW id \in Pending
      PROVE  id \in addressed
  <2>1. id \in Deliveries
    BY <1>2, <1>3 DEF Pending
  <2>2. id \notin addressed => row[id].retry = "none" /\ \A t \in Slots : id \notin Copied(t)
    BY <2>1 DEF IInv, CountedInv, TracesDispatched, NoRow
  <2> QED
    BY <1>3, <2>2 DEF Pending
<1>4. ASSUME NEW id \in addressed \ Pending
      PROVE  id \in acked \cup dropped \/ posts[id] >= MaxAttempts
  <2>1. id \in Deliveries /\ row[id].retry = "none" /\ \A t \in Slots : id \notin Held(t)
    BY <1>1, <1>2, <1>4 DEF Pending
  <2> QED
    BY <1>4, <2>1 DEF IInv, BackedInv, Accounted, DeliveredIsAcked
<1> QED
  BY <1>1, <1>2, <1>3, <1>4 DEF ClosedSettled, PendingAccepted

\* A step that takes nothing new up settles what it leaves.
LEMMA SettleStep ==
    ASSUME PendingAccepted, ClosedSettled',
           UNCHANGED <<addressed, posts, acked, contended>>,
           NEW L \in SUBSET addressed, dropped' = dropped \cup L,
           \A t \in Slots : Copied(t)' \subseteq Copied(t),
           \A id \in Deliveries : row'[id].retry # "none" => id \in Pending
    PROVE  Queue!Next
<1>1. Pending' \subseteq Pending
  BY DEF PendingAccepted, Pending
<1>2. \A id \in Pending \ Pending' : id \in acked \cup dropped' \/ posts[id] >= MaxAttempts
  BY DEF PendingAccepted, ClosedSettled
<1>3. Queue!Settle(L)
  BY <1>1, <1>2 DEF Queue!Settle
<1>4. L \in SUBSET Deliveries
  BY DEF PendingAccepted
<1> QED
  BY <1>3, <1>4 DEF Queue!Next

\* The deliveries of a dispatch are new to the queue.
LEMMA DispatchAccepts ==
    ASSUME IInv, PendingAccepted, NEW t \in Slots, NEW e \in Events, DispatchStart(t, e)
    PROVE  Queue!Next
<1> DEFINE S == Targets(e)
           copies == {[id |-> id, attempt |-> 1] : id \in S}
<1>1. S \subseteq Deliveries /\ \A id \in S : id[1] = e
  BY DEF Targets, Deliveries
<1>2. S \cap addressed = {}
  BY <1>1 DEF IInv, CountedInv, TracesDispatched, DispatchStart
<1>3. {d.id : d \in copies} = S
  <2>1. \A id \in S : [id |-> id, attempt |-> 1] \in copies
    OBVIOUS
  <2>2. ASSUME NEW id \in S
        PROVE  id \in {d.id : d \in copies}
    <3>1. [id |-> id, attempt |-> 1].id = id
      OBVIOUS
    <3> QED
      BY <2>1, <3>1
  <2>3. \A d \in copies : d.id \in S
    OBVIOUS
  <2> QED
    BY <2>2, <2>3
<1>4. Run(t, "dispatch", copies) /\ UNCHANGED <<row, posts, acked, dropped>>
      /\ addressed' = addressed \cup S
  BY DEF DispatchStart, tables
<1> HIDE DEF S, copies
<1>5. UNCHANGED contended
  BY <1>2, <1>3, <1>4 DEF Run, PendingAccepted
<1>6. /\ task'[t].cur = Nothing /\ task'[t].todo = copies /\ task[t] = Idle
      /\ \A u \in Slots \ {t} : task'[u] = task[u]
  BY <1>4 DEF Run, IInv, BackedInv, TypeOK
<1>7. Copied(t)' = S /\ Copied(t) = {} /\ \A u \in Slots \ {t} : Copied(u)' = Copied(u)
  BY <1>3, <1>6 DEF Copied, Idle
<1>8. Pending' = Pending \cup S
  BY <1>4, <1>7 DEF Pending
<1>9. Queue!Accept(S)
  BY <1>2, <1>4, <1>5, <1>8 DEF Queue!Accept
<1> QED
  BY <1>1, <1>9 DEF Queue!Next

\* A run of retries takes up what waits in the table; what another run has
\* taken up before is shared.
LEMMA RetryOverlaps ==
    ASSUME IInv, PendingAccepted, NEW t \in Slots, RetryStart(t)
    PROVE  Queue!Next
<1>1. PICK batch \in SUBSET Due :
          /\ Run(t, "retries",
                 {[id |-> id, attempt |-> row[id].attempt] : id \in batch})
          /\ UNCHANGED <<tables, dispatched, posts, acked, addressed, dropped>>
  BY DEF RetryStart
<1> DEFINE copies == {[id |-> id, attempt |-> row[id].attempt] : id \in batch}
           S == batch \cap UNION {Copied(u) : u \in Slots}
<1>2. {d.id : d \in copies} = batch
  <2>1. ASSUME NEW id \in batch
        PROVE  id \in {d.id : d \in copies}
    <3>1. [id |-> id, attempt |-> row[id].attempt].id = id
      OBVIOUS
    <3> QED
      BY <3>1
  <2>2. \A d \in copies : d.id \in batch
    OBVIOUS
  <2> QED
    BY <2>1, <2>2
<1>3. Run(t, "retries", copies)
      /\ UNCHANGED <<row, posts, acked, addressed, dropped>>
  BY <1>1 DEF tables
<1>4. batch \subseteq Pending
  BY DEF Due, Pending
<1> HIDE DEF copies
<1>5. /\ task'[t].cur = Nothing /\ task'[t].todo = copies /\ task[t] = Idle
      /\ \A u \in Slots \ {t} : task'[u] = task[u]
  BY <1>3 DEF Run, IInv, BackedInv, TypeOK
<1>6. Copied(t)' = batch /\ Copied(t) = {} /\ \A u \in Slots \ {t} : Copied(u)' = Copied(u)
  BY <1>2, <1>5 DEF Copied, Idle
<1>7. Pending' = Pending
  BY <1>3, <1>4, <1>6 DEF Pending
<1>8. contended' = contended \cup S
  BY <1>2, <1>3 DEF Run
<1>9. Queue!Overlap(S)
  BY <1>3, <1>4, <1>7, <1>8 DEF Queue!Overlap
<1>10. S \in SUBSET Deliveries
  BY <1>4 DEF PendingAccepted
<1> HIDE DEF S
<1> QED
  BY <1>9, <1>10 DEF Queue!Next

\* A POST is of a delivery in the queue; unless two runs have shared it, it
\* is one that may still be made.
LEMMA PostAttempts ==
    ASSUME IInv, PendingAccepted, NEW t \in Slots, NEW answer \in {"ok", "failed"},
           Post(t, answer)
    PROVE  Queue!Next
<1>1. task[t] \in Task /\ TaskShape(t) /\ task[t].pc = "post"
  BY DEF IInv, BackedInv, TypeOK, Post
<1>2. /\ task[t].cur \in Copy /\ task[t].cur # Nothing
      /\ task[t].cur.id \in Deliveries
  BY <1>1 DEF Task, Copy, TaskShape, InHand
<1> PICK id \in Deliveries, a \in 1..MaxAttempts :
        id = task[t].cur.id /\ a = task[t].cur.attempt
  BY <1>2 DEF Copy
<1>3. /\ posts' = [posts EXCEPT ![id] = IF @ = PostsBound THEN @ ELSE @ + 1]
      /\ acked' = IF answer = "ok" THEN acked \cup {id} ELSE acked
      /\ UNCHANGED <<row, addressed, dropped, contended>>
      /\ task' = [task EXCEPT ![t].pc = answer]
  BY DEF Post, tables
<1>4. \A u \in Slots : Copied(u)' = Copied(u)
  <2>1. \A u \in Slots : task'[u].cur = task[u].cur /\ task'[u].todo = task[u].todo
    BY <1>1, <1>3 DEF IInv, BackedInv, TypeOK, Task
  <2> QED
    BY <2>1 DEF Copied
<1>5. Pending' = Pending
  BY <1>3, <1>4 DEF Pending
<1>6. id \in Pending
  <2>1. id \in Copied(t)
    BY <1>2 DEF Copied
  <2> QED
    BY <2>1 DEF PendingAccepted
<1>7. id \notin contended => posts[id] < MaxAttempts /\ id \notin acked
  <2> SUFFICES ASSUME id \notin contended
               PROVE  posts[id] < MaxAttempts /\ id \notin acked
    OBVIOUS
  <2>1. CopiesCounted(t, id)
    BY DEF IInv, CountedInv
  <2>2. posts[id] < a /\ id \notin acked
    BY <1>1, <2>1 DEF CopiesCounted, InHand
  <2>3. posts[id] \in Nat
    BY MaxAttemptsAssumption DEF IInv, BackedInv, TypeOK, PostsBound
  <2> QED
    BY <2>2, <2>3, MaxAttemptsAssumption
<1>8. posts' = [posts EXCEPT ![id] = IF @ > MaxAttempts THEN @ ELSE @ + 1]
  <2>1. posts \in [Deliveries -> 0..MaxAttempts + 1]
    BY DEF IInv, BackedInv, TypeOK, PostsBound
  <2>2. posts[id] = MaxAttempts + 1 <=> posts[id] > MaxAttempts
    BY <2>1, MaxAttemptsAssumption
  <2> QED
    BY <1>3, <2>2 DEF PostsBound
<1>9. Queue!Attempt(id, answer)
  BY <1>3, <1>5, <1>6, <1>7, <1>8 DEF Queue!Attempt
<1> QED
  BY <1>9 DEF Queue!Next

\* What a run puts at risk it has copies of.
LEMMA RiskCopied ==
    ASSUME NEW t \in Slots, task[t] \in Task, TaskShape(t)
    PROVE  AtRisk(t) \subseteq Copied(t)
<1>1. task[t] # Idle => task[t].pc # "idle"
  BY DEF TaskShape
<1>2. task[t].pc \notin {"idle", "next"} => InHand(t)
  BY DEF Task, InHand
<1>3. task[t] # Idle /\ task[t].pc # "next" => task[t].cur # Nothing
  BY <1>1, <1>2 DEF TaskShape
<1> QED
  BY <1>3 DEF AtRisk, Copied

\* Other steps of a run take nothing new up.
LEMMA ProgressSettles ==
    ASSUME IInv, PendingAccepted, ClosedSettled', NEW t \in Slots, Progress(t)
    PROVE  Queue!Next
<1>1. task[t] \in Task /\ TaskShape(t)
      /\ row \in [Deliveries -> Row \cup {NoRow}] /\ task \in [Slots -> Task]
  BY DEF IInv, BackedInv, TypeOK
<1>2. \A id \in Deliveries : row[id].retry # "none" => id \in Pending
  BY DEF Pending
<1>3. Copied(t) \subseteq Pending /\ Pending \subseteq Deliveries
  BY DEF PendingAccepted
<1>4. ASSUME NEW d \in task[t].todo, DispatchInsert(t, d) \/ RetryClaim(t, d)
      PROVE  Queue!Next
  <2>1. /\ TakeUp(t, d)
        /\ row' = [row EXCEPT ![d.id] = [attempt |-> d.attempt,
                                         delivered |-> FALSE,
                                         retry |-> "none"]]
        /\ UNCHANGED <<addressed, posts, acked, contended, dropped>>
    BY <1>4 DEF DispatchInsert, RetryClaim, history
  <2>2. /\ task'[t].cur = d /\ task'[t].todo = task[t].todo \ {d}
        /\ \A u \in Slots \ {t} : task'[u] = task[u]
    BY <1>1, <2>1 DEF TakeUp
  <2>3. \A u \in Slots : Copied(u)' \subseteq Copied(u)
    BY <2>2 DEF Copied
  <2>4. \A id \in Deliveries : row'[id].retry # "none" => row[id].retry # "none"
    BY <1>1, <2>1
  <2>5. dropped' = dropped \cup {} /\ {} \in SUBSET addressed
    BY <2>1
  <2> QED
    BY <1>2, <2>1, <2>3, <2>4, <2>5, SettleStep
<1>5. ASSUME NEW rest \in SUBSET task[t].todo, Continue(t, rest),
             UNCHANGED <<addressed, posts, acked, contended, dropped>>,
             \A id \in Deliveries \ Copied(t) : row'[id] = row[id]
      PROVE  Queue!Next
  <2>1. /\ task'[t].cur = Nothing /\ task'[t].todo = rest
        /\ \A u \in Slots \ {t} : task'[u] = task[u]
    BY <1>1, <1>5 DEF Continue, Idle
  <2>2. \A u \in Slots : Copied(u)' \subseteq Copied(u)
    BY <2>1 DEF Copied
  <2>3. \A id \in Deliveries : row'[id].retry # "none" => id \in Pending
    BY <1>2, <1>3, <1>5
  <2>4. dropped' = dropped \cup {} /\ {} \in SUBSET addressed
    BY <1>5
  <2> QED
    BY <1>5, <2>2, <2>3, <2>4, SettleStep
<1>6. ASSUME NEW d \in task[t].todo, RetrySkip(t, d)
      PROVE  Queue!Next
  BY <1>5, <1>6 DEF RetrySkip, tables, history
<1>7. CASE SaveOutcome(t)
  <2>1. task[t].cur.id \in Copied(t)
    BY <1>1, <1>7 DEF SaveOutcome, Copied, TaskShape, InHand
  <2>2. \A id \in Deliveries \ Copied(t) : row'[id] = row[id]
    BY <1>1, <1>7, <2>1 DEF SaveOutcome
  <2> QED
    BY <1>5, <1>7, <2>2 DEF SaveOutcome, history
<1>8. CASE RunFails(t)
  <2>1. AtRisk(t) \subseteq Copied(t)
    BY <1>1, RiskCopied
  <2>2. /\ task'[t] = Idle /\ \A u \in Slots \ {t} : task'[u] = task[u]
        /\ UNCHANGED <<row, addressed, posts, acked, contended>>
        /\ dropped' = dropped \cup AtRisk(t)
    BY <1>1, <1>8 DEF RunFails, tables
  <2>3. \A u \in Slots : Copied(u)' \subseteq Copied(u)
    BY <2>2 DEF Copied, Idle
  <2>4. AtRisk(t) \in SUBSET addressed
    BY <2>1 DEF PendingAccepted
  <2> QED
    BY <1>2, <2>2, <2>3, <2>4, SettleStep
<1>9. ASSUME NEW answer \in {"ok", "failed"}, Post(t, answer)
      PROVE  Queue!Next
  BY <1>9, PostAttempts
<1> QED
  BY <1>4, <1>6, <1>7, <1>8, <1>9 DEF Progress, Claims

\* The merchant's changes: a deletion settles what hung on the endpoint.
LEMMA MerchantSettles ==
    ASSUME IInv, PendingAccepted, ClosedSettled', Merchant
    PROVE  Queue!Next
<1>1. row \in [Deliveries -> Row \cup {NoRow}]
  BY DEF IInv, BackedInv, TypeOK
<1>2. \A id \in Deliveries : row[id].retry # "none" => id \in Pending
  BY DEF Pending
<1>3. ASSUME UNCHANGED <<row, task, history>>
      PROVE  Queue!Next
  <2>1. \A t \in Slots : Copied(t)' \subseteq Copied(t)
    BY <1>3 DEF Copied
  <2>2. dropped' = dropped \cup {} /\ {} \in SUBSET addressed
    BY <1>3 DEF history
  <2> QED
    BY <1>2, <1>3, <2>1, <2>2, SettleStep DEF history
<1>4. ASSUME NEW ep \in Endpoints, DeleteEndpoint(ep)
      PROVE  Queue!Next
  <2>1. \A t \in Slots : Copied(t)' \subseteq Copied(t)
    BY <1>4 DEF DeleteEndpoint, Copied
  <2>2. \A id \in Deliveries : row'[id].retry # "none" => row[id].retry # "none"
    BY <1>4 DEF DeleteEndpoint, NoRow
  <2>3. PICK L \in SUBSET addressed : dropped' = dropped \cup L
    BY <1>4 DEF DeleteEndpoint
  <2>4. UNCHANGED <<addressed, posts, acked, contended>>
    BY <1>4 DEF DeleteEndpoint
  <2> QED
    BY <1>2, <2>1, <2>2, <2>3, <2>4, SettleStep
<1> QED
  BY <1>3, <1>4 DEF Merchant, CreateEndpoint, UpdateBegin, UpdateFinish,
                    AddSubscription, RemoveSubscription

\* A stop drops what was at risk in every run.
LEMMA StopSettles ==
    ASSUME IInv, PendingAccepted, ClosedSettled', ProcessStops
    PROVE  Queue!Next
<1>1. \A t \in Slots : AtRisk(t) \subseteq Copied(t)
  BY RiskCopied DEF IInv, BackedInv, TypeOK
<1>2. UNION {AtRisk(t) : t \in Slots} \in SUBSET addressed
  BY <1>1 DEF PendingAccepted
<1>3. \A t \in Slots : Copied(t)' \subseteq Copied(t)
  BY DEF ProcessStops, Copied, Idle
<1>4. \A id \in Deliveries : row'[id].retry # "none" => id \in Pending
  BY DEF ProcessStops, Pending
<1>5. /\ UNCHANGED <<addressed, posts, acked, contended>>
      /\ dropped' = dropped \cup UNION {AtRisk(t) : t \in Slots}
  BY DEF ProcessStops
<1> QED
  BY <1>2, <1>3, <1>4, <1>5, SettleStep

\* A retry that becomes due was waiting in the queue already.
LEMMA DueSettles ==
    ASSUME IInv, PendingAccepted, ClosedSettled',
           NEW due \in Deliveries, RetryBecomesDue(due)
    PROVE  Queue!Next
<1>1. row \in [Deliveries -> Row \cup {NoRow}]
  BY DEF IInv, BackedInv, TypeOK
<1>2. \A t \in Slots : Copied(t)' \subseteq Copied(t)
  BY DEF RetryBecomesDue, Copied
<1>3. \A id \in Deliveries : row'[id].retry # "none" => id \in Pending
  BY <1>1 DEF RetryBecomesDue, Pending
<1>4. /\ UNCHANGED <<addressed, posts, acked, contended>>
      /\ dropped' = dropped \cup {} /\ {} \in SUBSET addressed
  BY DEF RetryBecomesDue, history
<1> QED
  BY <1>2, <1>3, <1>4, SettleStep

\* Every step is one of the queue, or leaves it as it is.
LEMMA QueueStep ==
    ASSUME IInv, PendingAccepted, ClosedSettled', [Next]_vars
    PROVE  [Queue!Next]_(Queue!vars)
<1>1. CASE Merchant
  BY <1>1, MerchantSettles
<1>2. ASSUME NEW t \in Slots, NEW e \in Events, DispatchStart(t, e)
      PROVE  Queue!Next
  BY <1>2, DispatchAccepts
<1>3. ASSUME NEW t \in Slots, RetryStart(t)
      PROVE  Queue!Next
  BY <1>3, RetryOverlaps
<1>4. ASSUME NEW t \in Slots, Progress(t)
      PROVE  Queue!Next
  BY <1>4, ProgressSettles
<1>5. CASE ProcessStops
  BY <1>5, StopSettles
<1>6. ASSUME NEW id \in Deliveries, RetryBecomesDue(id)
      PROVE  Queue!Next
  BY <1>6, DueSettles
<1>7. CASE UNCHANGED vars
  <2>1. \A t \in Slots : Copied(t)' = Copied(t)
    BY <1>7 DEF vars, Copied
  <2> QED
    BY <1>7, <2>1 DEF vars, tables, history, Pending, Queue!vars
<1> QED
  BY <1>1, <1>2, <1>3, <1>4, <1>5, <1>6, <1>7 DEF Next

\* At first the queue is empty.
LEMMA QueueInit == Init => Queue!Init
<1> SUFFICES ASSUME Init PROVE Queue!Init
  OBVIOUS
<1>1. \A t \in Slots : Copied(t) = {}
  BY DEF Init, Copied, Idle
<1>2. Pending = {}
  BY <1>1 DEF Init, Pending, NoRow
<1> QED
  BY <1>2 DEF Init, Queue!Init

\* ImplementsQueue of webhook-delivery.service.ts and webhooks.service.ts:
\* rows, copies in memory, overlapping runs, failed saves, process stops and
\* deleted endpoints together keep the promise of DeliveryQueue, for any
\* numbers of endpoints, events, runs and attempts.
THEOREM QueueImplemented == Spec => ImplementsQueue
<1>1. IInv => ClosedSettled /\ PendingAccepted
  BY QueueInvariants
<1>2. IInv /\ PendingAccepted /\ ClosedSettled' /\ [Next]_vars
      => [Queue!Next]_(Queue!vars)
  BY QueueStep
<1>3. Spec => []IInv
  BY Invariant
<1> QED
  BY <1>1, <1>2, <1>3, QueueInit, PTL DEF Spec, ImplementsQueue, Queue!Spec
=============================================================================
