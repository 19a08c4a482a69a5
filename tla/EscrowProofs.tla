---------------------------- MODULE EscrowProofs ----------------------------
(***************************************************************************)
(* Proofs about the escrow payments, for any number of payments, wallets,  *)
(* handlers in flight and any batch size; and about EscrowNotifications,   *)
(* which extends EscrowPayments by the webhooks, for any number of         *)
(* endpoints and timers too.  The first part, up to "The components", is   *)
(* about EscrowPayments alone and uses nothing else.                       *)
(*                                                                         *)
(* Every step of the system is one of each component or leaves it alone,   *)
(* so that what is proved of the components holds in the second part; what *)
(* is left is the link between them, a handler and the run of its call of  *)
(* dispatch.                                                               *)
(***************************************************************************)
EXTENDS EscrowNotifications, TLAPS

HooksProofs == INSTANCE WebhookDeliveryProofs WITH
    Events <- Calls, TypeOf <- [c \in Calls |-> c[2]],
    Slots <- Slots \cup Timers, BatchSize <- RetryBatch,
    row <- delivery, task <- run, contended <- shared

-----------------------------------------------------------------------------
(* What handlers know.                                                     *)

TaskInv(t) == TaskShape(t) /\ TaskKnows(t) /\ TaskFound(t)

\* What no step undoes; it is what a snapshot of any age may still rely on.
Grows ==
    /\ \A p \in Payments :
          /\ row[p].escrowPda # NoWallet => row'[p].escrowPda # NoWallet
          /\ row[p].shippedAt => row'[p].shippedAt
          /\ \A w \in Wallets :
                /\ escrow[p][w] # "none" => escrow'[p][w] # "none"
                /\ escrow[p][w] = "released" => escrow'[p][w] = "released"
    /\ overdue \subseteq overdue'

-----------------------------------------------------------------------------
(* Sequences of snapshots.                                                 *)

\* Reading the first row of a non-empty batch, and going on without it.
LEMMA HeadTail ==
    ASSUME NEW s \in Seq(Snapshot), s # <<>>
    PROVE  /\ Len(s) \in Nat \ {0}
           /\ Head(s) = s[1]
           /\ Head(s) \in Snapshot
           /\ Tail(s) \in Seq(Snapshot)
           /\ Len(Tail(s)) = Len(s) - 1
           /\ \A i \in 1..Len(Tail(s)) : Tail(s)[i] = s[i + 1]
  OBVIOUS

LEMMA NotEmpty ==
    ASSUME NEW s \in Seq(Snapshot), Len(s) # 0
    PROVE  s # <<>>
  OBVIOUS

\* A batch that a query returned is a sequence of snapshots once it is read.
LEMMA BatchSnapshots ==
    ASSUME NEW k \in Nat, NEW f \in [1..k -> Snapshot]
    PROVE  /\ f \in Seq(Snapshot)
           /\ Len(f) = k
  OBVIOUS

-----------------------------------------------------------------------------
(* Tasks.                                                                  *)

\* A handler the step does not move keeps what it knows.
LEMMA KeepTask ==
    ASSUME IInv, Grows, NEW t \in Slots, task'[t] = task[t]
    PROVE  TaskInv(t)'
<1>1. task[t] \in Task /\ TaskShape(t) /\ TaskKnows(t) /\ TaskFound(t)
  BY DEF IInv, TypeOK
<1>2. TaskShape(t)'
  BY <1>1 DEF TaskShape
<1>3. TaskKnows(t)'
  <2>1. \A i \in 1..Len(task[t].todo) : task[t].todo[i] \in Snapshot
    BY <1>1 DEF Task
  <2> QED BY <1>1, <2>1 DEF TaskKnows, Grows, Snapshot
<1>4. TaskFound(t)'
  <2>1. task[t].pc \in {"write", "notify"} => Current(t) \in Snapshot
    BY <1>1, HeadTail DEF TaskShape, Task, Current
  <2>2. Current(t)' = Current(t)
    BY DEF Current
  <2> QED BY <1>1, <2>1, <2>2 DEF TaskFound, Grows, Snapshot
<1> QED BY <1>2, <1>3, <1>4 DEF TaskInv

\* A step that gives one handler a new, well-founded record.
LEMMA SetTask ==
    ASSUME IInv, Grows, NEW t \in Slots, NEW k \in Task,
           task' = [task EXCEPT ![t] = k], TaskInv(t)'
    PROVE  /\ task' \in [Slots -> Task]
           /\ \A u \in Slots : TaskInv(u)'
<1>1. task \in [Slots -> Task]
  BY DEF IInv, TypeOK
<1>2. ASSUME NEW u \in Slots PROVE TaskInv(u)'
  <2>1. CASE u = t
    BY <2>1
  <2>2. CASE u # t
    <3>1. task'[u] = task[u]
      BY <1>1, <2>2
    <3> QED BY <3>1, KeepTask
  <2> QED BY <2>1, <2>2
<1> QED BY <1>1, <1>2

LEMMA IdleTask == Idle \in Task
  BY DEF Idle, Task

LEMMA StopTask ==
    ASSUME IInv, Grows, NEW t \in Slots, Stop(t)
    PROVE  /\ task' \in [Slots -> Task]
           /\ \A u \in Slots : TaskInv(u)'
<1>1. task'[t] = Idle
  BY DEF Stop, IInv, TypeOK
<1>2. TaskInv(t)'
  BY <1>1 DEF TaskInv, TaskShape, TaskKnows, TaskFound, Idle, Scans, Requests
<1> QED BY <1>2, IdleTask, SetTask DEF Stop

LEMMA NextRowTask ==
    ASSUME IInv, Grows, NEW t \in Slots, task[t].todo # <<>>, NextRow(t)
    PROVE  /\ task' \in [Slots -> Task]
           /\ \A u \in Slots : TaskInv(u)'
<1>1. CASE Len(task[t].todo) = 1
  <2>1. Stop(t)
    BY <1>1 DEF NextRow, Stop
  <2> QED BY <2>1, StopTask
<1>2. CASE Len(task[t].todo) # 1
  <2> DEFINE s == task[t].todo
             k == [kind |-> task[t].kind, pc |-> "check", todo |-> Tail(s)]
  <2>1. /\ task[t] \in Task /\ s \in Seq(Snapshot)
        /\ TaskKnows(t) /\ TaskShape(t)
    BY DEF IInv, TypeOK, Task
  <2>2. /\ Tail(s) \in Seq(Snapshot)
        /\ Len(s) \in Nat \ {0}
        /\ Len(Tail(s)) = Len(s) - 1
        /\ \A i \in 1..Len(Tail(s)) : Tail(s)[i] = s[i + 1]
    BY <2>1, HeadTail
  <2>3. k \in Task
    BY <2>1, <2>2 DEF Task
  <2>4. task' = [task EXCEPT ![t] = k] /\ task'[t] = k
    BY <1>2 DEF NextRow, IInv, TypeOK
  <2>5. TaskInv(t)'
    <3>1. Tail(s) # <<>>
      <4> DEFINE u == Tail(s)
      <4>1. u \in Seq(Snapshot) /\ Len(u) # 0
        BY <1>2, <2>2
      <4> HIDE DEF u
      <4>2. u # <<>>
        BY <4>1, NotEmpty
      <4> QED BY <4>2 DEF u
    <3>2. TaskShape(t)'
      <4>1. task[t].kind \in Scans
        BY <1>2, <2>1 DEF TaskShape, Task
      <4> QED BY <2>4, <3>1, <4>1 DEF TaskShape, Scans, Requests
    <3>3. ASSUME NEW i \in 1..Len(Tail(s))
          PROVE  /\ i + 1 \in 1..Len(s)
                 /\ Tail(s)[i] = s[i + 1]
                 /\ s[i + 1] \in Snapshot
      BY <2>1, <2>2
    <3>4. TaskKnows(t)'
      <4> DEFINE c(j) == s[j]
      <4>1. \A i \in 1..Len(Tail(s)) :
              /\ task[t].kind \in {"shipPayment", "scanEscrowReleased",
                                   "scanAutoRelease"}
                   => row[c(i + 1).p].escrowPda # NoWallet
              /\ task[t].kind = "scanAutoRelease" => row[c(i + 1).p].shippedAt
              /\ task[t].kind = "scanExpired" /\ c(i + 1).due
                   => c(i + 1).p \in overdue
              /\ task[t].kind = "buildEscrowTransaction"
                   => c(i + 1).buyer \in Wallets
        BY <2>1, <3>3 DEF TaskKnows
      <4> QED BY <2>4, <3>3, <4>1 DEF TaskKnows, Grows, Snapshot
    <3>5. TaskFound(t)'
      BY <2>4 DEF TaskFound
    <3> QED BY <3>2, <3>4, <3>5 DEF TaskInv
  <2> QED BY <2>3, <2>4, <2>5, SetTask
<1> QED BY <1>1, <1>2
-----------------------------------------------------------------------------
(* Rows and events.                                                        *)

\* The chain and the events only gain: a step that writes no row keeps the
\* agreement of the rows with the chain.
LEMMA KeepRows ==
    ASSUME IInv, Grows, row' = row
    PROVE  RowsConsistent'
<1>1. \A p \in Payments : row[p] \in Row
  BY DEF IInv, TypeOK
<1> QED BY <1>1, NoWalletAssumption
        DEF IInv, Grows, RowsConsistent, Row, PaidOut

\* A step that writes one row keeps it if what it writes is consistent.
LEMMA WriteRow ==
    ASSUME IInv, NEW p \in Payments, NEW r \in Row, escrow' = escrow,
           row' = [row EXCEPT ![p] = r],
           r.escrowPda # NoWallet => escrow[p][r.escrowPda] # "none",
           r.status \in Claimed => r.escrowPda # NoWallet,
           r.shippedAt => r.escrowPda # NoWallet,
           r.status \in {"shipped", "auto_released"} => r.shippedAt,
           r.status = "released" => PaidOut(p) # {}
    PROVE  RowsConsistent' /\ row' \in [Payments -> Row]
<1>1. row \in [Payments -> Row] /\ RowsConsistent
  BY DEF IInv, TypeOK
<1>2. ASSUME NEW q \in Payments
      PROVE  row'[q] = IF q = p THEN r ELSE row[q]
  BY <1>1
<1> QED BY <1>1, <1>2 DEF RowsConsistent, PaidOut

LEMMA KeepEvents ==
    ASSUME IInv, Grows, sent' = sent
    PROVE  EventsTruthful'
  BY DEF IInv, Grows, EventsTruthful, Locked, PaidOut
-----------------------------------------------------------------------------
(* One lemma per handler, over the steps that handler can take.             *)

\* The parts of IInv that a step leaves alone when it writes no row, no account
\* and no event.
LEMMA OnlyTask ==
    ASSUME IInv,
           UNCHANGED <<row, older, overdue, autoDue, escrow, signable, sent>>,
           contended' \subseteq contended \cup Payments,
           task' \in [Slots -> Task], \A t \in Slots : TaskInv(t)'
    PROVE  IInv'
<1>1. Grows
  BY DEF Grows
<1>2. RowsConsistent' /\ EventsTruthful'
  BY <1>1, KeepRows, KeepEvents
<1> QED BY <1>2 DEF IInv, TypeOK, TaskInv

LEMMA RunContends ==
    ASSUME NEW t, NEW kind, NEW pc, NEW snapshots, Run(t, kind, pc, snapshots)
    PROVE  contended' \subseteq contended \cup Payments
  BY DEF Run, Of

LEMMA GrowsOnTask ==
    ASSUME UNCHANGED <<row, overdue, escrow>>
    PROVE  Grows
  BY DEF Grows

\* Starting a request reads one row.
LEMMA BuildEscrowBeginInv ==
    ASSUME IInv, NEW t \in Slots, NEW p \in Payments, NEW w \in Wallets,
           BuildEscrowBegin(t, p, w)
    PROVE  IInv'
<1> DEFINE c == [p |-> p, buyer |-> w, due |-> FALSE]
           k == [kind |-> "buildEscrowTransaction", pc |-> "write",
                 todo |-> <<c>>]
<1>1. k \in Task
  BY DEF Task, Snapshot, Requests
<1>2. task' = [task EXCEPT ![t] = k] /\ task'[t] = k
  BY DEF BuildEscrowBegin, Run, IInv, TypeOK
<1>3. Grows
  BY GrowsOnTask DEF BuildEscrowBegin
<1>4. TaskInv(t)'
  BY <1>2 DEF TaskInv, TaskShape, TaskKnows, TaskFound, Requests, Scans
<1> QED BY <1>1, <1>2, <1>3, <1>4, SetTask, RunContends, OnlyTask DEF BuildEscrowBegin

LEMMA ShipBeginInv ==
    ASSUME IInv, NEW t \in Slots, NEW p \in Payments, ShipBegin(t, p)
    PROVE  IInv'
<1> DEFINE c == [p |-> p, buyer |-> row[p].buyerWallet, due |-> FALSE]
           k == [kind |-> "shipPayment", pc |-> "write", todo |-> <<c>>]
<1>1. row[p] \in Row /\ row[p].escrowPda # NoWallet
  BY DEF ShipBegin, IInv, TypeOK, RowsConsistent, Claimed
<1>2. k \in Task
  BY <1>1 DEF Task, Snapshot, Requests, Row
<1>3. task' = [task EXCEPT ![t] = k] /\ task'[t] = k
  BY DEF ShipBegin, Run, IInv, TypeOK
<1>4. Grows /\ row' = row
  BY GrowsOnTask DEF ShipBegin
<1>5. TaskInv(t)'
  BY <1>1, <1>3, <1>4
     DEF TaskInv, TaskShape, TaskKnows, TaskFound, Requests, Scans
<1> QED BY <1>2, <1>3, <1>4, <1>5, SetTask, RunContends, OnlyTask DEF ShipBegin

\* A scan starts with the rows its query selected, as they were then.
LEMMA ScanStartInv ==
    ASSUME IInv, NEW t \in Slots, NEW kind \in Scans, ScanStart(t, kind)
    PROVE  IInv'
<1> DEFINE Snap(s) == [i \in 1..Len(s) |-> [p |-> s[i],
                                           buyer |-> row[s[i]].buyerWallet,
                                           due |-> s[i] \in DueFor(kind)]]
<1>1. PICK s \in Batches(Selected(kind)) : Run(t, kind, "check", Snap(s))
  BY DEF ScanStart, OldestBatches
<1>2. PICK n \in 1..BatchSize : s \in [1..n -> Selected(kind)]
  BY DEF Batches
<1>3. n \in Nat \ {0} /\ Len(s) = n
  BY <1>2, BatchSizeAssumption
<1>4. \A i \in 1..n : s[i] \in Payments /\ s[i] \in Selected(kind)
  BY <1>2 DEF Selected
<1>5. Snap(s) \in [1..n -> Snapshot]
  BY <1>3, <1>4 DEF Snapshot, IInv, TypeOK, Row
<1>6. Snap(s) \in Seq(Snapshot) /\ Len(Snap(s)) = n
  BY <1>3, <1>5, BatchSnapshots
<1> DEFINE k == [kind |-> kind, pc |-> "check", todo |-> Snap(s)]
<1>7. k \in Task
  BY <1>6 DEF Task
<1>8. task' = [task EXCEPT ![t] = k] /\ task'[t] = k
  BY <1>1 DEF Run, IInv, TypeOK
<1>9. Grows /\ row' = row /\ overdue' = overdue
  BY GrowsOnTask DEF ScanStart
<1>10. TaskInv(t)'
  <2>1. TaskShape(t)'
    <3>1. Snap(s) # <<>>
      BY <1>3, <1>6
    <3> QED BY <1>8, <3>1 DEF TaskShape, Scans, Requests
  <2>2. TaskKnows(t)'
    <3>1. ASSUME NEW i \in 1..n
          PROVE  /\ kind \in {"scanEscrowReleased", "scanAutoRelease"}
                       => row[s[i]].escrowPda # NoWallet
                 /\ kind = "scanAutoRelease" => row[s[i]].shippedAt
                 /\ kind = "scanExpired" /\ s[i] \in DueFor(kind)
                       => s[i] \in overdue
      BY <1>4 DEF IInv, RowsConsistent, Selected, Claimed, DueFor, Scans
    <3>2. \A i \in 1..n : Snap(s)[i].p = s[i]
                          /\ Snap(s)[i].due = (s[i] \in DueFor(kind))
      BY <1>3
    <3>3. task'[t].kind = kind /\ task'[t].todo = Snap(s)
      BY <1>8
    <3> HIDE DEF Snap, k
    <3>4. ASSUME NEW i \in 1..n
          PROVE  /\ kind \notin {"shipPayment", "buildEscrowTransaction"}
                 /\ kind \in {"scanEscrowReleased", "scanAutoRelease"}
                       => row'[Snap(s)[i].p].escrowPda # NoWallet
                 /\ kind = "scanAutoRelease" => row'[Snap(s)[i].p].shippedAt
                 /\ kind = "scanExpired" /\ Snap(s)[i].due
                       => Snap(s)[i].p \in overdue'
      BY <1>9, <3>1, <3>2 DEF Scans
    <3> QED BY <1>6, <3>3, <3>4 DEF TaskKnows
  <2>3. TaskFound(t)'
    BY <1>8 DEF TaskFound
  <2> QED BY <2>1, <2>2, <2>3 DEF TaskInv
<1>11. contended' \subseteq contended \cup Payments
  BY <1>1, RunContends
<1> QED BY <1>7, <1>8, <1>9, <1>10, <1>11, SetTask, OnlyTask DEF ScanStart

\* A handler past its first await has a current row.
LEMMA CurrentRow ==
    ASSUME IInv, NEW t \in Slots, task[t].pc # "idle"
    PROVE  /\ task[t].todo # <<>>
           /\ task[t].todo \in Seq(Snapshot)
           /\ 1 \in 1..Len(task[t].todo)
           /\ Current(t) = task[t].todo[1]
           /\ Current(t) \in Snapshot
           /\ row[Current(t).p] \in Row
           /\ task[t] = [kind |-> task[t].kind, pc |-> task[t].pc,
                         todo |-> task[t].todo]
<1>1. task[t] \in Task /\ TaskShape(t)
  BY DEF IInv, TypeOK
<1>2. task[t].todo # <<>> /\ task[t].todo \in Seq(Snapshot)
  BY <1>1 DEF TaskShape, Task
<1>3. /\ 1 \in 1..Len(task[t].todo)
      /\ Current(t) = task[t].todo[1]
      /\ Current(t) \in Snapshot
  BY <1>2, HeadTail DEF Current
<1> QED BY <1>1, <1>2, <1>3 DEF IInv, TypeOK, Task, Snapshot

\* What a scan or request in flight knows of its current row.
LEMMA CurrentKnown ==
    ASSUME IInv, NEW t \in Slots, task[t].pc # "idle"
    PROVE  LET k == task[t].kind
               c == Current(t)
           IN  /\ k \in {"shipPayment", "scanEscrowReleased", "scanAutoRelease"}
                     => row[c.p].escrowPda # NoWallet
               /\ k = "scanAutoRelease" => row[c.p].shippedAt
               /\ k = "scanExpired" /\ c.due => c.p \in overdue
               /\ k = "buildEscrowTransaction" => c.buyer \in Wallets
  BY CurrentRow DEF IInv, TaskKnows

\* Moving a handler to its next await keeps its rows.
LEMMA GoToTask ==
    ASSUME IInv, Grows, NEW t \in Slots, task[t].pc # "idle",
           NEW pc \in {"write", "notify"}, GoTo(t, pc), TaskFound(t)',
           pc = "notify" => task[t].kind \in Scans \cup {"shipPayment"}
    PROVE  /\ task' \in [Slots -> Task]
           /\ \A u \in Slots : TaskInv(u)'
<1> DEFINE k == [kind |-> task[t].kind, pc |-> pc, todo |-> task[t].todo]
<1>1. task[t] \in Task /\ TaskShape(t) /\ TaskKnows(t)
  BY DEF IInv, TypeOK
<1>2. k \in Task
  BY <1>1 DEF Task
<1>3. task' = [task EXCEPT ![t] = k] /\ task'[t] = k
  <2>1. task \in [Slots -> Task]
    BY DEF IInv, TypeOK
  <2>2. [task[t] EXCEPT !.pc = pc] = k
    BY <1>1 DEF Task
  <2>3. task' = [task EXCEPT ![t] = [task[t] EXCEPT !.pc = pc]]
    BY DEF GoTo
  <2> QED BY <2>1, <2>2, <2>3
<1>4. TaskShape(t)'
  BY <1>1, <1>3 DEF TaskShape
<1>5. TaskKnows(t)'
  <2>1. \A i \in 1..Len(task[t].todo) : task[t].todo[i] \in Snapshot
    BY <1>1 DEF Task
  <2> QED BY <1>1, <1>3, <2>1 DEF TaskKnows, Grows, Snapshot
<1> QED BY <1>2, <1>3, <1>4, <1>5, SetTask DEF TaskInv

LEMMA ScanFindsInv ==
    ASSUME IInv, NEW t \in Slots, NEW kind \in Scans, ScanFinds(t, kind)
    PROVE  IInv'
<1>1. Grows /\ escrow' = escrow
  BY GrowsOnTask DEF ScanFinds
<1>2. task[t].pc # "idle" /\ task[t].kind = kind /\ GoTo(t, "write")
  BY DEF ScanFinds, At
<1>3. /\ task'[t].kind = kind /\ task'[t].pc = "write"
      /\ task'[t].todo = task[t].todo
  BY <1>2, CurrentRow DEF GoTo, IInv, TypeOK
<1>4. Current(t)' = Current(t) /\ Current(t) \in Snapshot
  BY <1>2, <1>3, CurrentRow DEF Current
<1>5. TaskFound(t)'
  BY <1>1, <1>3, <1>4 DEF ScanFinds, Found, TaskFound, Snapshot
<1> QED BY <1>1, <1>2, <1>5, GoToTask, OnlyTask DEF ScanFinds

LEMMA ScanSkipsInv ==
    ASSUME IInv, NEW t \in Slots, NEW kind \in Scans, ScanSkips(t, kind)
    PROVE  IInv'
<1>1. Grows
  BY GrowsOnTask DEF ScanSkips
<1>2. task[t].todo # <<>>
  BY CurrentRow DEF ScanSkips, At
<1> QED BY <1>1, <1>2, NextRowTask, OnlyTask DEF ScanSkips

LEMMA HandlerFailsInv ==
    ASSUME IInv, NEW t \in Slots, HandlerFails(t)
    PROVE  IInv'
<1>1. Grows
  BY GrowsOnTask DEF HandlerFails
<1>2. CASE task[t].kind \in {"scanEscrowCreated", "scanEscrowReleased"}
  <2>1. task[t].todo # <<>>
    BY <1>2, CurrentRow DEF IInv, TaskShape
  <2> QED BY <1>1, <1>2, <2>1, NextRowTask, OnlyTask DEF HandlerFails
<1>3. CASE task[t].kind \notin {"scanEscrowCreated", "scanEscrowReleased"}
  BY <1>1, <1>3, StopTask, OnlyTask DEF HandlerFails
<1> QED BY <1>2, <1>3

LEMMA ProcessStopsInv ==
    ASSUME IInv, ProcessStops
    PROVE  IInv'
<1>1. task' \in [Slots -> Task]
  BY IdleTask DEF ProcessStops
<1>2. \A t \in Slots : TaskInv(t)'
  BY DEF ProcessStops, TaskInv, TaskShape, TaskKnows, TaskFound, Idle, Scans,
         Requests
<1> QED BY <1>1, <1>2, OnlyTask DEF ProcessStops

\* An event is dispatched by a handler that established what it says.
LEMMA NotifyInv ==
    ASSUME IInv, NEW t \in Slots, Notify(t)
    PROVE  IInv'
<1> DEFINE c == Current(t)
           e == EventOf(task[t].kind)
<1>1. Grows
  BY GrowsOnTask DEF Notify
<1>2. task[t].pc = "notify" /\ c \in Snapshot /\ task[t].todo # <<>>
  BY CurrentRow DEF Notify
<1>3. task' \in [Slots -> Task] /\ \A u \in Slots : TaskInv(u)'
  BY <1>1, <1>2, NextRowTask DEF Notify
<1>4. /\ e \in Events
      /\ e \in {"escrow.locked", "escrow.shipped", "escrow.auto_released"}
            => Locked(c.p) # {}
      /\ e = "escrow.released" => PaidOut(c.p) # {}
      /\ e \in {"escrow.shipped", "escrow.auto_released"} => row[c.p].shippedAt
      /\ e = "payment.expired" => c.p \in overdue
  <2>1. /\ TaskFound(t)
        /\ task[t].kind \in Scans \cup {"shipPayment"}
        /\ RowsConsistent
    BY <1>2 DEF IInv, TaskShape
  <2>2. c.p \in Payments
    BY <1>2 DEF Snapshot
  <2>3. ASSUME row[c.p].escrowPda # NoWallet
        PROVE  Locked(c.p) # {}
    <3>1. row[c.p].escrowPda \in Wallets
      BY <1>2, <2>3, CurrentRow DEF Row
    <3>2. row[c.p].escrowPda \in Locked(c.p)
      BY <2>1, <2>2, <2>3, <3>1 DEF RowsConsistent, Locked
    <3> QED BY <3>2
  <2> QED BY <1>2, <2>1, <2>3, CurrentKnown, ZenonT(30)
          DEF EventOf, TaskFound, Scans, Events, Locked, PaidOut
<1>5. /\ sent' \in [Payments -> SUBSET Events]
      /\ \A p \in Payments :
            sent'[p] = IF p = c.p THEN sent[p] \cup {e} ELSE sent[p]
  BY <1>2, <1>4 DEF Notify, IInv, TypeOK, Snapshot
<1> HIDE DEF e
<1>6. EventsTruthful'
  <2>1. \A p \in Payments :
           Locked(p)' = Locked(p) /\ PaidOut(p)' = PaidOut(p)
    BY DEF Notify, Locked, PaidOut
  <2>2. row' = row /\ overdue' = overdue /\ EventsTruthful
    BY DEF Notify, IInv
  <2> SUFFICES ASSUME NEW p \in Payments
               PROVE  /\ sent'[p] \cap {"escrow.locked", "escrow.shipped",
                             "escrow.auto_released"} # {} => Locked(p) # {}
                      /\ "escrow.released" \in sent'[p] => PaidOut(p) # {}
                      /\ sent'[p] \cap {"escrow.shipped",
                             "escrow.auto_released"} # {} => row[p].shippedAt
                      /\ "payment.expired" \in sent'[p] => p \in overdue
    BY <2>1, <2>2 DEF EventsTruthful
  <2>3. CASE p = c.p
    <3>1. sent'[p] = sent[p] \cup {e}
      BY <1>5, <2>3
    <3> QED BY <1>4, <2>2, <2>3, <3>1 DEF EventsTruthful
  <2>4. CASE p # c.p
    BY <1>5, <2>2, <2>4 DEF EventsTruthful
  <2> QED BY <2>3, <2>4
<1>7. RowsConsistent'
  BY <1>1, KeepRows DEF Notify
<1> QED BY <1>3, <1>5, <1>6, <1>7 DEF Notify, IInv, TypeOK, TaskInv
-----------------------------------------------------------------------------
(* Steps that write a row.                                                 *)

LEMMA TouchType ==
    ASSUME IInv, NEW p \in Payments, Touch(p)
    PROVE  older' \subseteq Payments \X Payments
  BY DEF IInv, TypeOK, Touch

\* The update of a scan, when the row it writes says no more than the scan knows.
LEMMA ScanUpdatesInv ==
    ASSUME IInv, NEW t \in Slots, NEW kind \in Scans, NEW r \in Row,
           ScanUpdates(t, kind, Current(t).p, r),
           r.shippedAt = row[Current(t).p].shippedAt,
           row[Current(t).p].escrowPda # NoWallet => r.escrowPda # NoWallet,
           r.escrowPda # NoWallet =>
               escrow[Current(t).p][r.escrowPda] # "none",
           r.status \in Claimed => r.escrowPda # NoWallet,
           r.status \in {"shipped", "auto_released"} => r.shippedAt,
           r.status = "released" => PaidOut(Current(t).p) # {}
    PROVE  IInv'
<1> DEFINE c == Current(t)
<1>1. /\ task[t].pc = "write" /\ task[t].kind = kind /\ c \in Snapshot
      /\ c.p \in Payments /\ row[c.p] \in Row /\ row \in [Payments -> Row]
      /\ TaskFound(t)
  BY CurrentRow DEF ScanUpdates, At, Snapshot, IInv, TypeOK
<1>2. row' = [row EXCEPT ![c.p] = r] /\ escrow' = escrow /\ overdue' = overdue
  BY DEF ScanUpdates
<1>3. Grows
  BY <1>1, <1>2 DEF Grows
<1>4. r.shippedAt => r.escrowPda # NoWallet
  BY <1>1 DEF IInv, RowsConsistent
<1>5. RowsConsistent' /\ row' \in [Payments -> Row]
  BY <1>1, <1>2, <1>4, WriteRow
<1>6. GoTo(t, "notify")
  BY DEF ScanUpdates
<1>7. /\ task'[t].kind = kind /\ task'[t].pc = "notify" /\ Current(t)' = c
  BY <1>1, <1>6, CurrentRow DEF GoTo, Current, IInv, TypeOK
<1>8. TaskFound(t)'
  BY <1>1, <1>2, <1>7 DEF TaskFound, Scans
<1>9. task' \in [Slots -> Task] /\ \A u \in Slots : TaskInv(u)'
  BY <1>1, <1>3, <1>6, <1>8, GoToTask
<1>10. EventsTruthful'
  BY <1>3, KeepEvents DEF ScanUpdates
<1>11. older' \subseteq Payments \X Payments
  BY <1>1, TouchType DEF ScanUpdates
<1> QED BY <1>5, <1>9, <1>10, <1>11 DEF ScanUpdates, IInv, TypeOK, TaskInv

LEMMA MarkEscrowLockedInv ==
    ASSUME IInv, NEW t \in Slots, MarkEscrowLocked(t)
    PROVE  IInv'
<1> DEFINE c == Current(t)
           r == [row[c.p] EXCEPT !.status = "escrow_locked",
                                 !.escrowPda = c.buyer]
<1>1. ScanUpdates(t, "scanEscrowCreated", c.p, r)
  BY DEF MarkEscrowLocked
<1>2. /\ task[t].pc = "write" /\ task[t].kind = "scanEscrowCreated"
      /\ row[c.p] \in Row
  BY <1>1, CurrentRow DEF ScanUpdates, At
<1>3. c.buyer \in Wallets /\ escrow[c.p][c.buyer] # "none"
  BY <1>2 DEF IInv, TaskFound
<1>4. /\ r \in Row /\ r.status = "escrow_locked" /\ r.escrowPda = c.buyer
      /\ r.shippedAt = row[c.p].shippedAt
  BY <1>2, <1>3 DEF Row, Status
<1>5. c.buyer # NoWallet
  BY <1>3, NoWalletAssumption
<1> HIDE DEF r
<1> QED BY <1>1, <1>3, <1>4, <1>5, ScanUpdatesInv DEF Scans

\* The other three scans write a status only.
LEMMA ScanStatusInv ==
    ASSUME IInv, NEW t \in Slots, NEW kind \in Scans, NEW s \in Status,
           ScanUpdates(t, kind, Current(t).p,
                       [row[Current(t).p] EXCEPT !.status = s]),
           s \in Claimed => row[Current(t).p].escrowPda # NoWallet,
           s \in {"shipped", "auto_released"} => row[Current(t).p].shippedAt,
           s = "released" => PaidOut(Current(t).p) # {}
    PROVE  IInv'
<1> DEFINE c == Current(t)
           r == [row[c.p] EXCEPT !.status = s]
<1>1. row[c.p] \in Row /\ c.p \in Payments
  BY CurrentRow DEF ScanUpdates, At, Snapshot
<1>2. /\ r \in Row /\ r.status = s /\ r.escrowPda = row[c.p].escrowPda
      /\ r.shippedAt = row[c.p].shippedAt
  BY <1>1 DEF Row
<1>3. r.escrowPda # NoWallet => escrow[c.p][r.escrowPda] # "none"
  BY <1>1, <1>2 DEF IInv, RowsConsistent
<1> HIDE DEF r
<1> QED BY <1>2, <1>3, ScanUpdatesInv DEF r

LEMMA MarkReleasedInv ==
    ASSUME IInv, NEW t \in Slots, MarkReleased(t)
    PROVE  IInv'
<1>1. task[t].pc = "write" /\ task[t].kind = "scanEscrowReleased"
  BY DEF MarkReleased, ScanUpdates, At
<1>2. row[Current(t).p].escrowPda # NoWallet
  BY <1>1, CurrentKnown
<1>3. PaidOut(Current(t).p) # {}
  BY <1>1 DEF IInv, TaskFound, PaidOut
<1> QED BY <1>2, <1>3, ScanStatusInv DEF MarkReleased, Scans, Status

LEMMA MarkExpiredInv ==
    ASSUME IInv, NEW t \in Slots, MarkExpired(t)
    PROVE  IInv'
  BY ScanStatusInv DEF MarkExpired, Scans, Status, Claimed

LEMMA MarkAutoReleasedInv ==
    ASSUME IInv, NEW t \in Slots, MarkAutoReleased(t)
    PROVE  IInv'
<1>1. task[t].pc = "write" /\ task[t].kind = "scanAutoRelease"
  BY DEF MarkAutoReleased, ScanUpdates, At
<1>2. row[Current(t).p].escrowPda # NoWallet /\ row[Current(t).p].shippedAt
  BY <1>1, CurrentKnown
<1> QED BY <1>2, ScanStatusInv DEF MarkAutoReleased, Scans, Status

\* The seller's update: what it read, an escrow_locked row, still has its
\* escrow account, whatever its status is by now.
LEMMA ShipWriteInv ==
    ASSUME IInv, NEW t \in Slots, ShipWrite(t)
    PROVE  IInv'
<1> DEFINE c == Current(t)
           r == [row[c.p] EXCEPT !.status = "shipped", !.shippedAt = TRUE]
<1>1. /\ task[t].pc = "write" /\ task[t].kind = "shipPayment"
      /\ c.p \in Payments /\ row[c.p] \in Row /\ row \in [Payments -> Row]
  BY CurrentRow DEF ShipWrite, At, Snapshot, IInv, TypeOK
<1>2. row' = [row EXCEPT ![c.p] = r] /\ escrow' = escrow /\ overdue' = overdue
  BY <1>1 DEF ShipWrite
<1>3. /\ r \in Row /\ r.status = "shipped" /\ r.shippedAt = TRUE
      /\ r.escrowPda = row[c.p].escrowPda
  BY <1>1 DEF Row, Status
<1>4. row[c.p].escrowPda # NoWallet
  BY <1>1, CurrentKnown
<1> HIDE DEF r
<1>5. Grows
  BY <1>1, <1>2, <1>3, <1>4 DEF Grows
<1>6. RowsConsistent' /\ row' \in [Payments -> Row]
  BY <1>1, <1>2, <1>3, <1>4, WriteRow DEF IInv, RowsConsistent
<1>7. GoTo(t, "notify")
  BY DEF ShipWrite
<1>8. /\ task'[t].kind = "shipPayment" /\ task'[t].pc = "notify"
      /\ Current(t)' = c
  BY <1>1, <1>7, CurrentRow DEF GoTo, Current, IInv, TypeOK
<1>9. TaskFound(t)'
  BY <1>1, <1>2, <1>3, <1>8 DEF TaskFound
<1>10. task' \in [Slots -> Task] /\ \A u \in Slots : TaskInv(u)'
  BY <1>1, <1>5, <1>7, <1>9, GoToTask
<1>11. EventsTruthful'
  BY <1>5, KeepEvents DEF ShipWrite
<1>12. older' \subseteq Payments \X Payments
  BY <1>1, TouchType DEF ShipWrite
<1>13. autoDue' \subseteq Payments
  BY DEF ShipWrite, IInv, TypeOK
<1> QED BY <1>6, <1>10, <1>11, <1>12, <1>13 DEF ShipWrite, IInv, TypeOK, TaskInv

LEMMA BuildEscrowFinishInv ==
    ASSUME IInv, NEW t \in Slots, BuildEscrowFinish(t)
    PROVE  IInv'
<1> DEFINE c == Current(t)
           r == [row[c.p] EXCEPT !.buyerWallet = c.buyer]
<1>1. /\ task[t].pc = "write" /\ task[t].kind = "buildEscrowTransaction"
      /\ c.p \in Payments /\ row[c.p] \in Row /\ row \in [Payments -> Row]
  BY CurrentRow DEF BuildEscrowFinish, At, Snapshot, IInv, TypeOK
<1>2. row' = [row EXCEPT ![c.p] = r] /\ escrow' = escrow /\ overdue' = overdue
  BY <1>1 DEF BuildEscrowFinish
<1>3. c.buyer \in Wallets
  BY <1>1, CurrentKnown
<1>4. /\ r \in Row /\ r.status = row[c.p].status
      /\ r.shippedAt = row[c.p].shippedAt /\ r.escrowPda = row[c.p].escrowPda
  BY <1>1, <1>3 DEF Row
<1> HIDE DEF r
<1>5. Grows
  BY <1>1, <1>2, <1>4 DEF Grows
<1>6. RowsConsistent' /\ row' \in [Payments -> Row]
  BY <1>1, <1>2, <1>4, WriteRow DEF IInv, RowsConsistent
<1>7. task' \in [Slots -> Task] /\ \A u \in Slots : TaskInv(u)'
  BY <1>5, StopTask DEF BuildEscrowFinish
<1>8. EventsTruthful'
  BY <1>5, KeepEvents DEF BuildEscrowFinish
<1>9. older' \subseteq Payments \X Payments
  BY <1>1, TouchType DEF BuildEscrowFinish
<1>10. signable' \subseteq Transaction
  BY <1>1, <1>3 DEF BuildEscrowFinish, IInv, TypeOK, Transaction
<1> QED BY <1>6, <1>7, <1>8, <1>9, <1>10
        DEF BuildEscrowFinish, IInv, TypeOK, TaskInv
-----------------------------------------------------------------------------
(* Steps that move no handler: creation, confirmation, time, wallets.       *)

LEMMA SameTasks ==
    ASSUME IInv, Grows, task' = task
    PROVE  /\ task' \in [Slots -> Task]
           /\ \A t \in Slots : TaskInv(t)'
  BY KeepTask DEF IInv, TypeOK

LEMMA CreatePaymentQrInv ==
    ASSUME IInv, NEW p \in Payments, CreatePaymentQr(p)
    PROVE  IInv'
<1> DEFINE r == [row[p] EXCEPT !.status = "pending"]
<1>1. row \in [Payments -> Row] /\ row[p] \in Row
  BY DEF IInv, TypeOK
<1>2. row' = [row EXCEPT ![p] = r] /\ escrow' = escrow /\ overdue' = overdue
  BY <1>1 DEF CreatePaymentQr
<1>3. /\ r \in Row /\ r.status = "pending"
      /\ r.shippedAt = row[p].shippedAt /\ r.escrowPda = row[p].escrowPda
  BY <1>1 DEF Row, Status
<1> HIDE DEF r
<1>4. Grows
  BY <1>1, <1>2, <1>3 DEF Grows
<1>5. RowsConsistent' /\ row' \in [Payments -> Row]
  BY <1>1, <1>2, <1>3, WriteRow DEF IInv, RowsConsistent, Claimed
<1>6. EventsTruthful' /\ older' \subseteq Payments \X Payments
  BY <1>4, KeepEvents, TouchType DEF CreatePaymentQr
<1> QED BY <1>4, <1>5, <1>6, SameTasks DEF CreatePaymentQr, IInv, TypeOK, TaskInv

LEMMA GetConfirmInv ==
    ASSUME IInv, NEW p \in Payments, NEW w \in Wallets,
           GetConfirmTransaction(p, w)
    PROVE  IInv'
<1>1. Grows
  BY GrowsOnTask DEF GetConfirmTransaction
<1>2. RowsConsistent' /\ EventsTruthful'
  BY <1>1, KeepRows, KeepEvents DEF GetConfirmTransaction
<1>3. signable' \subseteq Transaction
  BY DEF GetConfirmTransaction, IInv, TypeOK, Transaction
<1> QED BY <1>1, <1>2, <1>3, SameTasks
        DEF GetConfirmTransaction, IInv, TypeOK, TaskInv

LEMMA ExpiryPassesInv ==
    ASSUME IInv, NEW p \in Payments, ExpiryPasses(p)
    PROVE  IInv'
<1>1. Grows
  BY DEF ExpiryPasses, Grows
<1>2. RowsConsistent' /\ EventsTruthful'
  BY <1>1, KeepRows, KeepEvents DEF ExpiryPasses
<1> QED BY <1>1, <1>2, SameTasks DEF ExpiryPasses, IInv, TypeOK, TaskInv

LEMMA AutoReleasePassesInv ==
    ASSUME IInv, NEW p \in Payments, AutoReleasePasses(p)
    PROVE  IInv'
<1>1. Grows
  BY GrowsOnTask DEF AutoReleasePasses
<1>2. RowsConsistent' /\ EventsTruthful'
  BY <1>1, KeepRows, KeepEvents DEF AutoReleasePasses
<1> QED BY <1>1, <1>2, SameTasks DEF AutoReleasePasses, IInv, TypeOK, TaskInv

LEMMA SignInv ==
    ASSUME IInv, NEW tx \in signable, Sign(tx)
    PROVE  IInv'
<1>1. tx.p \in Payments /\ tx.w \in Wallets
  BY DEF IInv, TypeOK, Transaction
<1> DEFINE now == IF tx.ix = "crear_escrow" THEN "locked" ELSE "released"
<1>2. /\ escrow' \in [Payments -> [Wallets -> EscrowState]]
      /\ \A p \in Payments, w \in Wallets :
            escrow'[p][w] = IF p = tx.p /\ w = tx.w THEN now ELSE escrow[p][w]
  BY <1>1 DEF Sign, IInv, TypeOK, EscrowState
<1>3. Grows
  BY <1>1, <1>2 DEF Sign, Grows
<1>4. RowsConsistent' /\ EventsTruthful'
  BY <1>3, KeepRows, KeepEvents DEF Sign
<1>5. signable' \subseteq Transaction
  BY DEF Sign, IInv, TypeOK
<1> QED BY <1>2, <1>3, <1>4, <1>5, SameTasks DEF Sign, IInv, TypeOK, TaskInv

-----------------------------------------------------------------------------
(* The inductive invariant.                                                *)

LEMMA InitIInv == Init => IInv
<1> SUFFICES ASSUME Init PROVE IInv
  OBVIOUS
<1>1. TypeOK
  BY IdleTask DEF Init, TypeOK, AbsentRow, Row, Status, EscrowState
<1>2. RowsConsistent
  BY DEF Init, RowsConsistent, AbsentRow, Claimed
<1>3. \A t \in Slots : TaskShape(t) /\ TaskKnows(t) /\ TaskFound(t)
  BY DEF Init, TaskShape, TaskKnows, TaskFound, Idle, Scans, Requests
<1>4. EventsTruthful
  BY DEF Init, EventsTruthful
<1> QED BY <1>1, <1>2, <1>3, <1>4 DEF IInv

LEMMA HandlerInv ==
    ASSUME IInv, NEW t \in Slots, Handler(t)
    PROVE  IInv'
<1>1. CASE \E p \in Payments, w \in Wallets : BuildEscrowBegin(t, p, w)
  BY <1>1, BuildEscrowBeginInv
<1>2. CASE BuildEscrowFinish(t)
  BY <1>2, BuildEscrowFinishInv
<1>3. CASE \E p \in Payments : ShipBegin(t, p)
  BY <1>3, ShipBeginInv
<1>4. CASE ShipWrite(t)
  BY <1>4, ShipWriteInv
<1>5. CASE \E kind \in Scans :
              ScanStart(t, kind) \/ ScanFinds(t, kind) \/ ScanSkips(t, kind)
  BY <1>5, ScanStartInv, ScanFindsInv, ScanSkipsInv
<1>6. CASE MarkEscrowLocked(t)
  BY <1>6, MarkEscrowLockedInv
<1>7. CASE MarkReleased(t)
  BY <1>7, MarkReleasedInv
<1>8. CASE MarkExpired(t)
  BY <1>8, MarkExpiredInv
<1>9. CASE MarkAutoReleased(t)
  BY <1>9, MarkAutoReleasedInv
<1>10. CASE Notify(t)
  BY <1>10, NotifyInv
<1>11. CASE HandlerFails(t)
  BY <1>11, HandlerFailsInv
<1> QED BY <1>1, <1>2, <1>3, <1>4, <1>5, <1>6, <1>7, <1>8, <1>9, <1>10, <1>11
        DEF Handler, Begins, GoesOn

LEMMA StutterInv ==
    ASSUME IInv, UNCHANGED vars
    PROVE  IInv'
<1>1. Grows
  BY GrowsOnTask DEF vars
<1>2. RowsConsistent' /\ EventsTruthful'
  BY <1>1, KeepRows, KeepEvents DEF vars
<1> QED BY <1>1, <1>2, SameTasks DEF vars, IInv, TypeOK, TaskInv

LEMMA NextInv == IInv /\ [Next]_vars => IInv'
<1> SUFFICES ASSUME IInv, [Next]_vars PROVE IInv'
  OBVIOUS
<1>1. CASE \E p \in Payments :
              \/ CreatePaymentQr(p)
              \/ \E w \in Wallets : GetConfirmTransaction(p, w)
              \/ ExpiryPasses(p)
              \/ AutoReleasePasses(p)
  BY <1>1, CreatePaymentQrInv, GetConfirmInv, ExpiryPassesInv,
     AutoReleasePassesInv
<1>2. CASE \E t \in Slots : Handler(t)
  BY <1>2, HandlerInv
<1>3. CASE ProcessStops
  BY <1>3, ProcessStopsInv
<1>4. CASE \E tx \in signable : Sign(tx)
  BY <1>4, SignInv
<1>5. CASE UNCHANGED vars
  BY <1>5, StutterInv
<1> QED BY <1>1, <1>2, <1>3, <1>4, <1>5 DEF Next, Environment

\* Rows, handlers in flight and events always agree with the chain, for any
\* number of payments, wallets and overlapping handlers.
THEOREM Invariant == Spec => []IInv
<1>1. Init => IInv
  BY InitIInv
<1>2. IInv /\ [Next]_vars => IInv'
  BY NextInv
<1> QED BY <1>1, <1>2, PTL DEF Spec

\* The columns, the handlers' records and the chain keep their types.
THEOREM TypeCorrect == Spec => []TypeOK
<1>1. IInv => TypeOK
  BY DEF IInv
<1> QED BY <1>1, Invariant, PTL

\* A row that says the buyer paid names an account that holds or held the
\* money; a released row has a released account (updates keyed by id only,
\* in payments-watcher.service.ts and shipPayment).
THEOREM PaymentsAreBacked == Spec => []ClaimsBacked
<1>1. IInv => ClaimsBacked
  BY NoWalletAssumption
     DEF IInv, TypeOK, Row, RowsConsistent, ClaimsBacked, Claimed, Locked
<1> QED BY <1>1, Invariant, PTL

\* No webhook event runs ahead of what it reports.
THEOREM EventsAreTruthful == Spec => []EventsTruthful
<1>1. IInv => EventsTruthful
  BY DEF IInv
<1> QED BY <1>1, Invariant, PTL
-----------------------------------------------------------------------------
(* EscrowPayments implements PaymentLedger.                                 *)

\* A step that leaves statuses, shipments, accounts and deadlines alone is not
\* seen in the ledger.
LEMMA Unseen ==
    ASSUME escrow' = escrow, overdue' = overdue,
           \A p \in Payments : /\ row'[p].status = row[p].status
                               /\ row'[p].shippedAt = row[p].shippedAt
    PROVE  UNCHANGED Ledger!vars
<1>1. \A p \in Payments :
         Locked(p)' = Locked(p) /\ PaidOut(p)' = PaidOut(p)
  BY DEF Locked, PaidOut
<1> QED BY <1>1 DEF Ledger!vars

\* A step that gives the row of p another status reports it.
LEMMA Reports ==
    ASSUME NEW p \in Payments, NEW s \in Status, row \in [Payments -> Row],
           escrow' = escrow, overdue' = overdue,
           \A q \in Payments :
              /\ row'[q].status = IF q = p THEN s ELSE row[q].status
              /\ row'[q].shippedAt = row[q].shippedAt,
           \/ s = "pending" /\ row[p].status = "absent"
           \/ s = "escrow_locked" /\ Locked(p) # {}
           \/ s = "released" /\ PaidOut(p) # {}
           \/ s = "auto_released" /\ Locked(p) # {} /\ row[p].shippedAt
           \/ s = "expired" /\ p \in overdue
    PROVE  Ledger!Next
<1>1. \A q \in Payments :
         Locked(q)' = Locked(q) /\ PaidOut(q)' = PaidOut(q)
  BY DEF Locked, PaidOut
<1>2. Ledger!Justified(p, s)
  BY DEF Ledger!Justified
<1>3. Ledger!Report(p, s)
  BY <1>1, <1>2 DEF Ledger!Report
<1> QED BY <1>3 DEF Ledger!Next, Ledger!Status, Status

LEMMA ScanReports ==
    ASSUME IInv, NEW t \in Slots, NEW kind \in Scans, NEW r \in Row,
           ScanUpdates(t, kind, Current(t).p, r),
           r.shippedAt = row[Current(t).p].shippedAt,
           \/ r.status = "escrow_locked" /\ Locked(Current(t).p) # {}
           \/ r.status = "released" /\ PaidOut(Current(t).p) # {}
           \/ /\ r.status = "auto_released" /\ Locked(Current(t).p) # {}
              /\ row[Current(t).p].shippedAt
           \/ r.status = "expired" /\ Current(t).p \in overdue
    PROVE  Ledger!Next
<1> DEFINE p == Current(t).p
<1>1. p \in Payments /\ row \in [Payments -> Row]
  BY CurrentRow DEF ScanUpdates, At, Snapshot, IInv, TypeOK
<1>2. \A q \in Payments : row'[q] = IF q = p THEN r ELSE row[q]
  BY <1>1 DEF ScanUpdates
<1>3. escrow' = escrow /\ overdue' = overdue
  BY DEF ScanUpdates
<1>4. r.status \in Status
  BY DEF Row
<1> HIDE DEF p
<1> QED BY <1>1, <1>2, <1>3, <1>4, Reports DEF p

LEMMA MarksReport ==
    ASSUME IInv, NEW t \in Slots,
           \/ MarkEscrowLocked(t) \/ MarkReleased(t)
           \/ MarkExpired(t) \/ MarkAutoReleased(t)
    PROVE  Ledger!Next
<1> DEFINE c == Current(t)
<1>1. /\ task[t].pc = "write" /\ c \in Snapshot /\ row[c.p] \in Row
      /\ TaskFound(t) /\ c.p \in Payments
  BY CurrentRow DEF MarkEscrowLocked, MarkReleased, MarkExpired,
     MarkAutoReleased, ScanUpdates, At, Snapshot, IInv
<1>2. CASE MarkEscrowLocked(t)
  <2> DEFINE r == [row[c.p] EXCEPT !.status = "escrow_locked",
                                   !.escrowPda = c.buyer]
  <2>1. ScanUpdates(t, "scanEscrowCreated", c.p, r)
    BY <1>2 DEF MarkEscrowLocked
  <2>2. c.buyer \in Wallets /\ Locked(c.p) # {}
    BY <1>1, <2>1 DEF ScanUpdates, At, TaskFound, Locked
  <2>3. /\ r \in Row /\ r.status = "escrow_locked"
        /\ r.shippedAt = row[c.p].shippedAt
    BY <1>1, <2>2 DEF Row, Status
  <2> HIDE DEF r
  <2> QED BY <2>1, <2>2, <2>3, ScanReports DEF Scans
<1>3. CASE MarkReleased(t)
  <2> DEFINE r == [row[c.p] EXCEPT !.status = "released"]
  <2>1. ScanUpdates(t, "scanEscrowReleased", c.p, r)
    BY <1>3 DEF MarkReleased
  <2>2. PaidOut(c.p) # {}
    BY <1>1, <2>1 DEF ScanUpdates, At, TaskFound, PaidOut
  <2>3. r \in Row /\ r.status = "released" /\ r.shippedAt = row[c.p].shippedAt
    BY <1>1 DEF Row, Status
  <2> HIDE DEF r
  <2> QED BY <2>1, <2>2, <2>3, ScanReports DEF Scans
<1>4. CASE MarkExpired(t)
  <2> DEFINE r == [row[c.p] EXCEPT !.status = "expired"]
  <2>1. ScanUpdates(t, "scanExpired", c.p, r)
    BY <1>4 DEF MarkExpired
  <2>2. c.p \in overdue
    BY <1>1, <2>1, CurrentKnown DEF ScanUpdates, At, TaskFound
  <2>3. r \in Row /\ r.status = "expired" /\ r.shippedAt = row[c.p].shippedAt
    BY <1>1 DEF Row, Status
  <2> HIDE DEF r
  <2> QED BY <2>1, <2>2, <2>3, ScanReports DEF Scans
<1>5. CASE MarkAutoReleased(t)
  <2> DEFINE r == [row[c.p] EXCEPT !.status = "auto_released"]
  <2>1. ScanUpdates(t, "scanAutoRelease", c.p, r)
    BY <1>5 DEF MarkAutoReleased
  <2>2. row[c.p].escrowPda # NoWallet /\ row[c.p].shippedAt
    BY <1>1, <2>1, CurrentKnown DEF ScanUpdates, At
  <2>3. Locked(c.p) # {}
    BY <1>1, <2>2 DEF IInv, RowsConsistent, Locked, Row
  <2>4. /\ r \in Row /\ r.status = "auto_released"
        /\ r.shippedAt = row[c.p].shippedAt
    BY <1>1 DEF Row, Status
  <2> HIDE DEF r
  <2> QED BY <2>1, <2>2, <2>3, <2>4, ScanReports DEF Scans
<1> QED BY <1>2, <1>3, <1>4, <1>5

LEMMA ShipWriteShips ==
    ASSUME IInv, NEW t \in Slots, ShipWrite(t)
    PROVE  Ledger!Next
<1>0. PICK p \in Payments : p = Current(t).p
  BY CurrentRow DEF ShipWrite, At, Snapshot
<1> DEFINE r == [row[p] EXCEPT !.status = "shipped", !.shippedAt = TRUE]
<1>1. /\ task[t].kind = "shipPayment" /\ task[t].pc # "idle"
      /\ row[p] \in Row /\ row \in [Payments -> Row]
  BY DEF ShipWrite, At, IInv, TypeOK
<1>2. \A q \in Payments : row'[q] = IF q = p THEN r ELSE row[q]
  BY <1>0, <1>1 DEF ShipWrite
<1>3. r.status = "shipped" /\ r.shippedAt = TRUE
  BY <1>1 DEF Row
<1>4. row[p].escrowPda # NoWallet
  BY <1>0, <1>1, CurrentKnown
<1>5. Locked(p) # {}
  BY <1>1, <1>4 DEF IInv, RowsConsistent, Locked, Row
<1>6. escrow' = escrow /\ overdue' = overdue
  BY DEF ShipWrite
<1>7. \A q \in Payments :
         Locked(q)' = Locked(q) /\ PaidOut(q)' = PaidOut(q)
  BY <1>6 DEF Locked, PaidOut
<1> HIDE DEF r
<1>8. Ledger!Ship(p)
  BY <1>1, <1>2, <1>3, <1>5, <1>6, <1>7 DEF Ledger!Ship
<1> QED BY <1>8 DEF Ledger!Next

LEMMA SignMoves ==
    ASSUME IInv, NEW tx \in signable, Sign(tx)
    PROVE  [Ledger!Next]_(Ledger!vars)
<1> DEFINE p == tx.p
           w == tx.w
<1>1. p \in Payments /\ w \in Wallets /\ row' = row /\ overdue' = overdue
  BY DEF IInv, TypeOK, Transaction, Sign
<1>2. \A q \in Payments : q # p => Locked(q)' = Locked(q)
                                   /\ PaidOut(q)' = PaidOut(q)
  BY <1>1 DEF Sign, IInv, TypeOK, Locked, PaidOut
<1>3. CASE tx.ix = "crear_escrow"
  <2>1. /\ PaidOut(p)' = PaidOut(p) /\ Locked(p)' # {}
        /\ PaidOut(p) # {} => Locked(p) # {}
    BY <1>1, <1>3 DEF Sign, IInv, TypeOK, EscrowState, Locked, PaidOut
  <2>2. CASE Locked(p) # {}
    <3>1. UNCHANGED Ledger!vars
      BY <1>1, <1>2, <2>1, <2>2 DEF Ledger!vars
    <3> QED BY <3>1
  <2>3. CASE Locked(p) = {}
    <3>1. Ledger!ChainMoves(p)
      BY <1>1, <1>2, <2>1, <2>3 DEF Ledger!ChainMoves
    <3> QED BY <1>1, <3>1 DEF Ledger!Next
  <2> QED BY <2>2, <2>3
<1>4. CASE tx.ix # "crear_escrow"
  <2>1. PaidOut(p)' # {} /\ Locked(p) # {}
    BY <1>1, <1>4 DEF Sign, IInv, TypeOK, Locked, PaidOut
  <2>2. CASE PaidOut(p) # {}
    <3>1. UNCHANGED Ledger!vars
      BY <1>1, <1>2, <2>1, <2>2 DEF Ledger!vars
    <3> QED BY <3>1
  <2>3. CASE PaidOut(p) = {}
    <3>1. Ledger!ChainMoves(p)
      BY <1>1, <1>2, <2>1, <2>3 DEF Ledger!ChainMoves
    <3> QED BY <1>1, <3>1 DEF Ledger!Next
  <2> QED BY <2>2, <2>3
<1> QED BY <1>3, <1>4

LEMMA HandlerMaps ==
    ASSUME IInv, NEW t \in Slots, Handler(t)
    PROVE  [Ledger!Next]_(Ledger!vars)
<1>1. CASE UNCHANGED <<row, overdue, escrow>>
  BY <1>1, Unseen
<1>2. CASE BuildEscrowFinish(t)
  <2>1. /\ Current(t).p \in Payments /\ row \in [Payments -> Row]
    BY <1>2, CurrentRow DEF BuildEscrowFinish, At, Snapshot, IInv, TypeOK
  <2>2. \A p \in Payments : /\ row'[p].status = row[p].status
                             /\ row'[p].shippedAt = row[p].shippedAt
    BY <1>2, <2>1 DEF BuildEscrowFinish, Row
  <2> QED BY <1>2, <2>2, Unseen DEF BuildEscrowFinish
<1>3. CASE ShipWrite(t)
  BY <1>3, ShipWriteShips
<1>4. CASE \/ MarkEscrowLocked(t) \/ MarkReleased(t)
           \/ MarkExpired(t) \/ MarkAutoReleased(t)
  BY <1>4, MarksReport
<1> QED BY <1>1, <1>2, <1>3, <1>4
        DEF Handler, Begins, GoesOn, BuildEscrowBegin, ShipBegin, ScanStart, ScanFinds,
            ScanSkips, Notify, HandlerFails

LEMMA NextMaps == IInv /\ [Next]_vars => [Ledger!Next]_(Ledger!vars)
<1> SUFFICES ASSUME IInv, [Next]_vars PROVE [Ledger!Next]_(Ledger!vars)
  OBVIOUS
<1>1. ASSUME NEW p \in Payments, CreatePaymentQr(p)
      PROVE  Ledger!Next
  <2>1. row \in [Payments -> Row]
    BY DEF IInv, TypeOK
  <2>2. \A q \in Payments :
           /\ row'[q].status = IF q = p THEN "pending" ELSE row[q].status
           /\ row'[q].shippedAt = row[q].shippedAt
    BY <1>1, <2>1 DEF CreatePaymentQr, Row
  <2>3. row[p].status = "absent" /\ escrow' = escrow /\ overdue' = overdue
    BY <1>1 DEF CreatePaymentQr, Exists
  <2> QED BY <2>1, <2>2, <2>3, Reports DEF Status
<1>2. ASSUME NEW p \in Payments, ExpiryPasses(p)
      PROVE  Ledger!Next
  <2>1. \A q \in Payments :
           Locked(q)' = Locked(q) /\ PaidOut(q)' = PaidOut(q)
    BY <1>2 DEF ExpiryPasses, Locked, PaidOut
  <2>2. Ledger!DeadlinePasses(p)
    BY <1>2, <2>1 DEF ExpiryPasses, Ledger!DeadlinePasses
  <2> QED BY <2>2 DEF Ledger!Next
<1>3. CASE \E t \in Slots : Handler(t)
  BY <1>3, HandlerMaps
<1>4. CASE \E tx \in signable : Sign(tx)
  BY <1>4, SignMoves
<1>5. CASE UNCHANGED <<row, overdue, escrow>>
  BY <1>5, Unseen
<1>6. CASE \/ \E p \in Payments, w \in Wallets : GetConfirmTransaction(p, w)
           \/ \E p \in Payments : AutoReleasePasses(p)
           \/ ProcessStops
           \/ UNCHANGED vars
  BY <1>5, <1>6 DEF GetConfirmTransaction, AutoReleasePasses, ProcessStops, vars
<1> QED BY <1>1, <1>2, <1>3, <1>4, <1>6 DEF Next, Environment

LEMMA InitMaps == Init => Ledger!Init
<1> SUFFICES ASSUME Init PROVE Ledger!Init
  OBVIOUS
<1>1. \A p \in Payments : Locked(p) = {} /\ PaidOut(p) = {}
  BY DEF Init, Locked, PaidOut
<1> QED BY <1>1 DEF Init, AbsentRow, Ledger!Init

\* The handlers implement the ledger: whatever they interleave with, each of
\* their updates is justified by the chain, the shipment or the clock.
THEOREM LedgerImplemented == Spec => ImplementsLedger
<1>1. Init => Ledger!Init
  BY InitMaps
<1>2. IInv /\ [Next]_vars => [Ledger!Next]_(Ledger!vars)
  BY NextMaps
<1> QED BY <1>1, <1>2, Invariant, PTL DEF Spec, ImplementsLedger, Ledger!Spec

-----------------------------------------------------------------------------
(* The payments that no two handlers hold at one time.                      *)

\* The stages that a handler reads and leaves follow one another, and its
\* event is that of the stage it leaves.
LEMMA Stages ==
    ASSUME NEW kind \in Scans \cup {"shipPayment"}, NEW e \in Events,
           NEW s \in ReadIn(kind), s \in Since(e)
    PROVE  e # EventOf(kind) /\ LeftIn(kind) \in Since(e)
  BY DEF Scans, Events, ReadIn, Since, LeftIn, EventOf

LEMMA SnapshotsOf ==
    ASSUME IInv, NEW t \in Slots, NEW i \in 1..Len(task[t].todo)
    PROVE  /\ task[t].todo[i] \in Snapshot
           /\ task[t].todo[i].p \in Payments
           /\ task[t].todo[i].p \in Of(task[t].todo)
<1>1. task[t].todo \in Seq(Snapshot)
  BY DEF IInv, TypeOK, Task
<1>2. task[t].todo[i] \in Snapshot
  BY <1>1
<1>3. task[t].todo[i].p \in Payments
  BY <1>2 DEF Snapshot
<1> QED BY <1>2, <1>3 DEF Of

\* A step of slot t that reads nothing new disturbs only what t has read.
LEMMA SlotStepAlone ==
    ASSUME IInv, AloneInv, NEW t \in Slots, UNCHANGED contended,
           \A u \in Slots \ {t} : task'[u] = task[u],
           \A i, j \in 1..Len(task'[t].todo) :
               task'[t].todo[i].p = task'[t].todo[j].p => i = j,
           Of(task'[t].todo) \subseteq Of(task[t].todo),
           \A p \in Payments \ Of(task[t].todo) :
               row'[p] = row[p] /\ sent'[p] = sent[p],
           \A i \in 1..Len(task'[t].todo) :
               task'[t].todo[i].p \notin contended => SnapshotFits(t, i)',
           \A p \in Of(task[t].todo) \ contended : InOrder(p)'
    PROVE  AloneInv'
<1>1. \A u \in Slots : Of(task'[u].todo) \subseteq Of(task[u].todo)
  OBVIOUS
<1>2. ASSUME NEW u \in Slots
      PROVE  ReadOnce(u)'
  <2>1. /\ \A i, j \in 1..Len(task[u].todo) :
              task[u].todo[i].p = task[u].todo[j].p => i = j
        /\ \A p \in Of(task[u].todo) \ contended :
              \A v \in Slots \ {u} : p \notin Of(task[v].todo)
    BY DEF AloneInv, ReadOnce
  <2>2. \A i, j \in 1..Len(task'[u].todo) :
            task'[u].todo[i].p = task'[u].todo[j].p => i = j
    <3>1. CASE u = t
      BY <3>1
    <3>2. CASE u # t
      BY <2>1, <3>2
    <3> QED BY <3>1, <3>2
  <2>3. \A p \in Of(task'[u].todo) \ contended' :
            \A v \in Slots \ {u} : p \notin Of(task'[v].todo)
    BY <1>1, <2>1
  <2> QED BY <2>2, <2>3 DEF ReadOnce, Of
<1>3. ASSUME NEW u \in Slots, NEW i \in 1..Len(task'[u].todo),
             task'[u].todo[i].p \notin contended'
      PROVE  SnapshotFits(u, i)'
  <2>1. CASE u = t
    BY <1>3, <2>1
  <2>2. CASE u # t
    <3>1. task'[u] = task[u] /\ i \in 1..Len(task[u].todo)
      BY <1>3, <2>2
    <3>2. SnapshotFits(u, i) /\ task[u].todo[i].p \notin contended
      BY <1>3, <3>1 DEF AloneInv
    <3>3. /\ task[u].todo[i].p \in Payments
          /\ task[u].todo[i].p \in Of(task[u].todo)
      BY <3>1, SnapshotsOf
    <3>4. task[u].todo[i].p \notin Of(task[t].todo)
      BY <2>2, <3>2, <3>3 DEF AloneInv, ReadOnce
    <3>5. /\ row'[task[u].todo[i].p] = row[task[u].todo[i].p]
          /\ sent'[task[u].todo[i].p] = sent[task[u].todo[i].p]
      BY <3>3, <3>4
    <3> QED BY <3>1, <3>2, <3>5 DEF SnapshotFits
  <2> QED BY <2>1, <2>2
<1>4. ASSUME NEW p \in Payments \ contended'
      PROVE  InOrder(p)'
  <2>1. CASE p \in Of(task[t].todo)
    BY <1>4, <2>1
  <2>2. CASE p \notin Of(task[t].todo)
    BY <1>4, <2>2 DEF AloneInv, InOrder
  <2> QED BY <2>1, <2>2
<1> QED BY <1>2, <1>3, <1>4 DEF AloneInv

\* A handler that ends keeps nothing.
LEMMA StopAlone ==
    ASSUME IInv, AloneInv, NEW t \in Slots, Stop(t), UNCHANGED contended,
           \A p \in Payments \ Of(task[t].todo) :
               row'[p] = row[p] /\ sent'[p] = sent[p],
           \A p \in Of(task[t].todo) \ contended : InOrder(p)'
    PROVE  AloneInv'
<1>1. task'[t] = Idle /\ \A u \in Slots \ {t} : task'[u] = task[u]
  BY DEF Stop, IInv, TypeOK
<1>2. Len(task'[t].todo) = 0
  BY <1>1 DEF Idle
<1>3. Of(task'[t].todo) = {} /\ 1..Len(task'[t].todo) = {}
  BY <1>2 DEF Of
<1> QED BY <1>1, <1>3, SlotStepAlone

\* The next rows of a batch are as the scan read them.
LEMMA NextRowAlone ==
    ASSUME IInv, AloneInv, NEW t \in Slots, task[t].todo # <<>>, NextRow(t),
           UNCHANGED <<row, contended>>, NEW p \in Payments, p = Current(t).p,
           \A q \in Payments \ {p} : sent'[q] = sent[q],
           p \notin contended => InOrder(p)'
    PROVE  AloneInv'
<1> DEFINE s == task[t].todo
<1>1. s \in Seq(Snapshot) /\ \A u \in Slots \ {t} : task'[u] = task[u]
  BY DEF IInv, TypeOK, Task, NextRow
<1>2. /\ Len(s) \in Nat \ {0} /\ Current(t) = s[1]
      /\ Tail(s) \in Seq(Snapshot) /\ Len(Tail(s)) = Len(s) - 1
      /\ \A i \in 1..Len(Tail(s)) : Tail(s)[i] = s[i + 1]
  BY <1>1, HeadTail DEF Current
<1>3. p \in Of(s) /\ Of(s) \subseteq Payments
  <2>1. 1 \in 1..Len(s) /\ s[1].p = p
    BY <1>2
  <2> QED BY <2>1 DEF Of
<1>4. \A q \in Payments \ Of(s) : row'[q] = row[q] /\ sent'[q] = sent[q]
  BY <1>3
<1>5. ASSUME NEW q \in Of(s) \ contended
      PROVE  InOrder(q)'
  <2>1. CASE q = p
    BY <1>5, <2>1
  <2>2. CASE q # p
    <3>1. InOrder(q) /\ sent'[q] = sent[q]
      BY <1>3, <1>5, <2>2 DEF AloneInv
    <3> QED BY <3>1 DEF InOrder
  <2> QED BY <2>1, <2>2
<1>6. CASE Len(s) = 1
  <2>1. Stop(t)
    BY <1>6 DEF NextRow, Stop
  <2> QED BY <1>4, <1>5, <2>1, StopAlone
<1>7. CASE Len(s) # 1
  <2>1. /\ task'[t].kind = task[t].kind /\ task'[t].pc = "check"
        /\ task'[t].todo = Tail(s)
    BY <1>7 DEF NextRow, IInv, TypeOK
  <2>2. ASSUME NEW i \in 1..Len(Tail(s))
        PROVE  /\ i + 1 \in 1..Len(s) /\ i + 1 # 1
               /\ Tail(s)[i] = s[i + 1]
    BY <1>2, <2>2
  <2>3. \A i, j \in 1..Len(task'[t].todo) :
            task'[t].todo[i].p = task'[t].todo[j].p => i = j
    <3>1. ASSUME NEW i \in 1..Len(Tail(s)), NEW j \in 1..Len(Tail(s)),
                 Tail(s)[i].p = Tail(s)[j].p
          PROVE  i = j
      <4>1. s[i + 1].p = s[j + 1].p
        BY <2>2, <3>1
      <4>2. i + 1 = j + 1
        BY <2>2, <4>1 DEF AloneInv, ReadOnce
      <4> QED BY <4>2
    <3> QED BY <2>1, <3>1
  <2>4. Of(task'[t].todo) \subseteq Of(s)
    BY <2>1, <2>2 DEF Of
  <2>5. ASSUME NEW i \in 1..Len(task'[t].todo),
               task'[t].todo[i].p \notin contended
        PROVE  SnapshotFits(t, i)'
    <3>1. /\ i + 1 \in 1..Len(s) /\ i + 1 # 1
          /\ task'[t].todo[i] = s[i + 1]
      BY <2>1, <2>2, <2>5
    <3>2. SnapshotFits(t, i + 1)
      BY <2>5, <3>1 DEF AloneInv
    <3> QED BY <2>1, <3>1, <3>2 DEF SnapshotFits
  <2> HIDE DEF s
  <2> QED BY <1>1, <1>4, <1>5, <2>3, <2>4, <2>5, SlotStepAlone DEF s
<1> QED BY <1>6, <1>7

\* An update moves its payment one stage on, and its event is new.
LEMMA WriteAlone ==
    ASSUME IInv, AloneInv, NEW t \in Slots, task[t].pc = "write",
           task[t].kind \in Scans \cup {"shipPayment"},
           GoTo(t, "notify"), UNCHANGED <<sent, contended>>,
           NEW r \in Row, row' = [row EXCEPT ![Current(t).p] = r],
           r.status = LeftIn(task[t].kind),
           Current(t).p \notin contended =>
               (r.status \in {"escrow_locked", "shipped"}
                   => r.buyerWallet = r.escrowPda)
    PROVE  AloneInv'
<1> PICK s \in Seq(Snapshot) : s = task[t].todo
  BY DEF IInv, TypeOK, Task
<1> PICK p \in Payments : p = Current(t).p
  BY CurrentRow DEF Snapshot
<1>1. /\ task'[t].kind = task[t].kind /\ task'[t].pc = "notify"
      /\ task'[t].todo = s
      /\ \A u \in Slots \ {t} : task'[u] = task[u]
  BY CurrentRow DEF GoTo, IInv, TypeOK
<1>2. 1 \in 1..Len(s) /\ s[1].p = p /\ p \in Of(s)
  BY CurrentRow DEF Of
<1>3. row'[p] = r /\ \A q \in Payments \ {p} : row'[q] = row[q]
  BY DEF IInv, TypeOK
<1>4. /\ \A i, j \in 1..Len(s) : s[i].p = s[j].p => i = j
      /\ \A i \in 1..Len(s) : s[i].p \notin contended => SnapshotFits(t, i)
  BY DEF AloneInv, ReadOnce
<1>5. p \notin contended => /\ EventOf(task[t].kind) \notin sent[p]
                            /\ InOrder(p)'
  <2> SUFFICES ASSUME p \notin contended
               PROVE  EventOf(task[t].kind) \notin sent[p] /\ InOrder(p)'
    OBVIOUS
  <2>1. row[p].status \in ReadIn(task[t].kind)
    BY <1>2, <1>4 DEF SnapshotFits
  <2>2. \A e \in sent[p] : e \in Events /\ row[p].status \in Since(e)
    BY DEF AloneInv, InOrder, IInv, TypeOK
  <2>3. \A e \in sent[p] : e # EventOf(task[t].kind) /\ r.status \in Since(e)
    BY <2>1, <2>2, Stages
  <2> QED BY <1>3, <2>3 DEF InOrder
<1>6. ASSUME NEW i \in 1..Len(s), s[i].p \notin contended
      PROVE  SnapshotFits(t, i)'
  <2>1. SnapshotFits(t, i)
    BY <1>4, <1>6
  <2>2. CASE i = 1
    BY <1>1, <1>2, <1>3, <1>5, <1>6, <2>2 DEF SnapshotFits
  <2>3. CASE i # 1
    <3>1. s[i].p # p /\ s[i].p \in Payments
      BY <1>2, <1>4, <2>3, SnapshotsOf
    <3> QED BY <1>1, <1>3, <2>1, <2>3, <3>1 DEF SnapshotFits
  <2> QED BY <2>2, <2>3
<1>7. \A q \in Of(s) \ contended : InOrder(q)'
  BY <1>3, <1>5 DEF AloneInv, InOrder, Of
<1>8. \A q \in Payments \ Of(s) : row'[q] = row[q] /\ sent'[q] = sent[q]
  BY <1>2, <1>3
<1> QED BY <1>1, <1>4, <1>6, <1>7, <1>8, SlotStepAlone

\* A handler that starts has read rows as they are, each once.
LEMMA RunAlone ==
    ASSUME IInv, AloneInv, NEW t \in Slots, NEW kind,
           NEW pc \in {"check", "write"}, NEW s \in Seq(Snapshot),
           Run(t, kind, pc, s), UNCHANGED <<row, sent>>,
           \A i, j \in 1..Len(s) : s[i].p = s[j].p => i = j,
           \A i \in 1..Len(s) :
               /\ row[s[i].p].status \in ReadIn(kind)
               /\ kind = "scanEscrowCreated" =>
                      row[s[i].p].buyerWallet = s[i].buyer
    PROVE  AloneInv'
<1>1. /\ task'[t].kind = kind /\ task'[t].pc = pc /\ task'[t].todo = s
      /\ \A u \in Slots \ {t} : task'[u] = task[u]
  BY DEF Run, IInv, TypeOK
<1>2. /\ contended \subseteq contended'
      /\ \A p \in Of(s) \ contended' : \A u \in Slots : p \notin Of(task[u].todo)
  BY DEF Run, Of
<1>3. ASSUME NEW u \in Slots
      PROVE  ReadOnce(u)'
  <2>1. \A i, j \in 1..Len(task'[u].todo) :
            task'[u].todo[i].p = task'[u].todo[j].p => i = j
    <3>1. CASE u = t
      BY <1>1, <3>1
    <3>2. CASE u # t
      BY <1>1, <3>2 DEF AloneInv, ReadOnce
    <3> QED BY <3>1, <3>2
  <2>2. ASSUME NEW p \in Of(task'[u].todo) \ contended', NEW v \in Slots \ {u}
        PROVE  p \notin Of(task'[v].todo)
    <3>1. CASE u = t
      BY <1>1, <1>2, <2>2, <3>1
    <3>2. CASE v = t
      BY <1>1, <1>2, <2>2, <3>2
    <3>3. CASE u # t /\ v # t
      BY <1>1, <1>2, <2>2, <3>3 DEF AloneInv, ReadOnce
    <3> QED BY <3>1, <3>2, <3>3
  <2> QED BY <2>1, <2>2 DEF ReadOnce, Of
<1>4. ASSUME NEW u \in Slots, NEW i \in 1..Len(task'[u].todo),
             task'[u].todo[i].p \notin contended'
      PROVE  SnapshotFits(u, i)'
  <2>1. CASE u = t
    BY <1>1, <1>4, <2>1 DEF SnapshotFits
  <2>2. CASE u # t
    <3>1. task'[u] = task[u] /\ task[u].todo[i].p \notin contended
      BY <1>1, <1>2, <1>4, <2>2
    <3>2. SnapshotFits(u, i)
      BY <1>4, <3>1 DEF AloneInv
    <3> QED BY <3>1, <3>2 DEF SnapshotFits
  <2> QED BY <2>1, <2>2
<1>5. \A p \in Payments \ contended' : InOrder(p)'
  BY <1>2 DEF AloneInv, InOrder
<1> QED BY <1>3, <1>4, <1>5 DEF AloneInv

LEMMA RequestAlone ==
    ASSUME IInv, AloneInv, NEW t \in Slots, NEW kind \in Requests,
           NEW c \in Snapshot, Run(t, kind, "write", <<c>>),
           UNCHANGED <<row, sent>>, row[c.p].status \in ReadIn(kind)
    PROVE  AloneInv'
<1>0. <<c>> \in Seq(Snapshot)
  OBVIOUS
<1>1. PICK s \in Seq(Snapshot) : s = <<c>>
  BY <1>0
<1>2. 1..Len(s) = {1} /\ s[1] = c
  BY <1>1
<1>3. kind # "scanEscrowCreated"
  BY DEF Requests
<1>4. \A i, j \in 1..Len(s) : s[i].p = s[j].p => i = j
  BY <1>2
<1>5. \A i \in 1..Len(s) : /\ row[s[i].p].status \in ReadIn(kind)
                           /\ kind = "scanEscrowCreated" =>
                                  row[s[i].p].buyerWallet = s[i].buyer
  BY <1>2, <1>3
<1> QED BY <1>1, <1>4, <1>5, RunAlone

LEMMA BeginsAlone ==
    ASSUME IInv, AloneInv, NEW t \in Slots, Begins(t)
    PROVE  AloneInv'
<1>1. ASSUME NEW p \in Payments, NEW w \in Wallets, BuildEscrowBegin(t, p, w)
      PROVE  AloneInv'
  <2> DEFINE c == [p |-> p, buyer |-> w, due |-> FALSE]
  <2>1. c \in Snapshot /\ c.p = p
    BY DEF Snapshot
  <2>2. /\ Run(t, "buildEscrowTransaction", "write", <<c>>)
        /\ UNCHANGED <<row, sent>>
        /\ row[p].status \in ReadIn("buildEscrowTransaction")
        /\ "buildEscrowTransaction" \in Requests
    BY <1>1 DEF BuildEscrowBegin, ReadIn, Requests
  <2> HIDE DEF c
  <2> QED BY <2>1, <2>2, RequestAlone
<1>2. ASSUME NEW p \in Payments, ShipBegin(t, p)
      PROVE  AloneInv'
  <2>1. PICK c \in Snapshot :
            c = [p |-> p, buyer |-> row[p].buyerWallet, due |-> FALSE]
    BY DEF Snapshot, IInv, TypeOK, Row
  <2>2. /\ Run(t, "shipPayment", "write", <<c>>)
        /\ UNCHANGED <<row, sent>> /\ c.p = p
        /\ row[p].status \in ReadIn("shipPayment")
        /\ "shipPayment" \in Requests
    BY <1>2, <2>1 DEF ShipBegin, ReadIn, Requests
  <2> QED BY <2>2, RequestAlone
<1>3. ASSUME NEW kind \in Scans, ScanStart(t, kind)
      PROVE  AloneInv'
  <2> DEFINE Snap(s) == [i \in 1..Len(s) |->
                            [p |-> s[i], buyer |-> row[s[i]].buyerWallet,
                             due |-> s[i] \in DueFor(kind)]]
  <2>1. PICK s \in Batches(Selected(kind)) : Run(t, kind, "check", Snap(s))
    BY <1>3 DEF ScanStart, OldestBatches
  <2>2. PICK n \in 1..BatchSize : s \in [1..n -> Selected(kind)]
    BY DEF Batches
  <2>3. n \in Nat \ {0} /\ Len(s) = n
    BY <2>2, BatchSizeAssumption
  <2>4. \A i \in 1..n : s[i] \in Payments /\ s[i] \in Selected(kind)
    BY <2>2 DEF Selected
  <2>5. \A i, j \in 1..n : s[i] = s[j] => i = j
    BY <2>2, <2>3 DEF Batches
  <2>6. Snap(s) \in [1..n -> Snapshot]
    BY <2>3, <2>4 DEF Snapshot, IInv, TypeOK, Row
  <2>7. Snap(s) \in Seq(Snapshot) /\ Len(Snap(s)) = n
    BY <2>3, <2>6, BatchSnapshots
  <2>8. \A i \in 1..n : /\ Snap(s)[i].p = s[i]
                        /\ Snap(s)[i].buyer = row[s[i]].buyerWallet
    BY <2>3
  <2>9. \A i \in 1..n : row[s[i]].status \in ReadIn(kind)
    BY <2>4 DEF Selected, ReadIn, Scans
  <2>10. PICK batch \in Seq(Snapshot) : batch = Snap(s)
    BY <2>7
  <2>11. /\ Len(batch) = n
         /\ \A i \in 1..n : /\ batch[i].p = s[i]
                            /\ batch[i].buyer = row[s[i]].buyerWallet
    BY <2>7, <2>8, <2>10
  <2>12. Run(t, kind, "check", batch) /\ UNCHANGED <<row, sent>>
    BY <1>3, <2>1, <2>10 DEF ScanStart
  <2> HIDE DEF Snap
  <2>13. \A i, j \in 1..Len(batch) : batch[i].p = batch[j].p => i = j
    BY <2>5, <2>11
  <2>14. \A i \in 1..Len(batch) :
             /\ row[batch[i].p].status \in ReadIn(kind)
             /\ kind = "scanEscrowCreated" =>
                    row[batch[i].p].buyerWallet = batch[i].buyer
    BY <2>9, <2>11
  <2> QED BY <2>12, <2>13, <2>14, RunAlone
<1> QED BY <1>1, <1>2, <1>3 DEF Begins

LEMMA MarksAlone ==
    ASSUME IInv, AloneInv, NEW t \in Slots, NEW kind \in Scans, NEW r \in Row,
           ScanUpdates(t, kind, Current(t).p, r),
           r.status = LeftIn(kind),
           Current(t).p \notin contended =>
               (r.status \in {"escrow_locked", "shipped"}
                   => r.buyerWallet = r.escrowPda)
    PROVE  AloneInv'
  BY WriteAlone DEF ScanUpdates, At

LEMMA UpdatesAlone ==
    ASSUME IInv, AloneInv, NEW t \in Slots,
           \/ MarkEscrowLocked(t) \/ MarkReleased(t)
           \/ MarkExpired(t) \/ MarkAutoReleased(t)
    PROVE  AloneInv'
<1>1. row[Current(t).p] \in Row /\ 1 \in 1..Len(task[t].todo)
      /\ Current(t) = task[t].todo[1]
  BY CurrentRow DEF MarkEscrowLocked, MarkReleased, MarkExpired,
     MarkAutoReleased, ScanUpdates, At
<1> PICK old \in Row : old = row[Current(t).p]
  BY <1>1
<1>2. CASE MarkEscrowLocked(t)
  <2> DEFINE r == [old EXCEPT !.status = "escrow_locked",
                              !.escrowPda = Current(t).buyer]
  <2>1. /\ ScanUpdates(t, "scanEscrowCreated", Current(t).p, r)
        /\ task[t].pc = "write" /\ task[t].kind = "scanEscrowCreated"
    BY <1>2 DEF MarkEscrowLocked, ScanUpdates, At
  <2>2. Current(t).buyer \in Wallets
    BY <2>1 DEF IInv, TaskFound
  <2>3. /\ r \in Row /\ r.status = "escrow_locked"
        /\ r.escrowPda = Current(t).buyer /\ r.buyerWallet = old.buyerWallet
    BY <2>2 DEF Row, Status
  <2>4. Current(t).p \notin contended => old.buyerWallet = Current(t).buyer
    BY <1>1, <2>1 DEF AloneInv, SnapshotFits
  <2>5. r.status = LeftIn("scanEscrowCreated") /\ "scanEscrowCreated" \in Scans
    BY <2>3 DEF LeftIn, Scans
  <2> HIDE DEF r
  <2> QED BY <2>1, <2>3, <2>4, <2>5, MarksAlone
<1>3. ASSUME NEW kind \in Scans \ {"scanEscrowCreated"},
             ScanUpdates(t, kind, Current(t).p,
                         [old EXCEPT !.status = LeftIn(kind)])
      PROVE  AloneInv'
  <2> DEFINE r == [old EXCEPT !.status = LeftIn(kind)]
  <2>1. /\ r \in Row /\ r.status = LeftIn(kind)
        /\ LeftIn(kind) \notin {"escrow_locked", "shipped"}
    BY DEF Row, Status, LeftIn, Scans
  <2> HIDE DEF r
  <2> QED BY <1>3, <2>1, MarksAlone DEF r
<1>4. CASE MarkReleased(t) \/ MarkExpired(t) \/ MarkAutoReleased(t)
  <2>1. \E kind \in Scans \ {"scanEscrowCreated"} :
            ScanUpdates(t, kind, Current(t).p,
                        [old EXCEPT !.status = LeftIn(kind)])
    BY <1>4 DEF MarkReleased, MarkExpired, MarkAutoReleased, Scans, LeftIn
  <2> QED BY <1>3, <2>1
<1> QED BY <1>2, <1>4

\* A locked payment that is shipped is still confirmed by its payer.
LEMMA ShipWriteAlone ==
    ASSUME IInv, AloneInv, NEW t \in Slots, ShipWrite(t)
    PROVE  AloneInv'
<1>1. /\ task[t].pc = "write" /\ task[t].kind = "shipPayment"
      /\ row[Current(t).p] \in Row /\ Current(t).p \in Payments
      /\ 1 \in 1..Len(task[t].todo) /\ Current(t) = task[t].todo[1]
  BY CurrentRow DEF ShipWrite, At, Snapshot
<1> PICK p \in Payments : p = Current(t).p
  BY <1>1
<1> DEFINE r == [row[p] EXCEPT !.status = "shipped", !.shippedAt = TRUE]
<1>2. /\ row' = [row EXCEPT ![p] = r] /\ GoTo(t, "notify")
      /\ UNCHANGED <<sent, contended>>
  BY DEF ShipWrite, IInv, TypeOK
<1>3. /\ r \in Row /\ r.status = "shipped"
      /\ r.buyerWallet = row[p].buyerWallet /\ r.escrowPda = row[p].escrowPda
  BY <1>1 DEF Row, Status
<1>4. p \notin contended => row[p].buyerWallet = row[p].escrowPda
  <2>1. p \notin contended => row[p].status = "escrow_locked"
    BY <1>1 DEF AloneInv, SnapshotFits, ReadIn
  <2> QED BY <2>1 DEF AloneInv, InOrder
<1>5. r.status = LeftIn("shipPayment")
  BY <1>3 DEF LeftIn
<1>6. PICK new \in Row : new = r
  BY <1>3
<1> HIDE DEF r
<1> QED BY <1>1, <1>2, <1>3, <1>4, <1>5, <1>6, WriteAlone

\* The buyer's wallet changes while the payment is pending.
LEMMA BuildEscrowFinishAlone ==
    ASSUME IInv, AloneInv, NEW t \in Slots, BuildEscrowFinish(t)
    PROVE  AloneInv'
<1>1. /\ task[t].pc = "write" /\ task[t].kind = "buildEscrowTransaction"
      /\ row[Current(t).p] \in Row /\ Current(t).p \in Payments
      /\ 1 \in 1..Len(task[t].todo) /\ Current(t) = task[t].todo[1]
  BY CurrentRow DEF BuildEscrowFinish, At, Snapshot
<1> PICK p \in Payments : p = Current(t).p
  BY <1>1
<1>2. /\ row'[p].status = row[p].status
      /\ \A q \in Payments \ {p} : row'[q] = row[q]
      /\ Stop(t) /\ UNCHANGED <<sent, contended>>
  BY <1>1 DEF BuildEscrowFinish, IInv, TypeOK, Row
<1>3. p \notin contended => row[p].status = "pending"
  BY <1>1 DEF AloneInv, SnapshotFits, ReadIn
<1>4. p \in Of(task[t].todo)
  BY <1>1 DEF Of
<1>5. \A q \in Of(task[t].todo) \ contended : InOrder(q)'
  BY <1>2, <1>3 DEF AloneInv, InOrder, Of
<1> QED BY <1>2, <1>4, <1>5, StopAlone

LEMMA ScanFindsAlone ==
    ASSUME IInv, AloneInv, NEW t \in Slots, NEW kind \in Scans,
           ScanFinds(t, kind)
    PROVE  AloneInv'
<1>1. task[t].pc = "check" /\ GoTo(t, "write")
      /\ UNCHANGED <<row, sent, contended>>
  BY DEF ScanFinds, At
<1>2. /\ task'[t].kind = task[t].kind /\ task'[t].pc = "write"
      /\ task'[t].todo = task[t].todo
      /\ \A u \in Slots \ {t} : task'[u] = task[u]
  BY <1>1, CurrentRow DEF GoTo, IInv, TypeOK
<1>3. \A i \in 1..Len(task'[t].todo) :
          task'[t].todo[i].p \notin contended => SnapshotFits(t, i)'
  BY <1>1, <1>2 DEF AloneInv, SnapshotFits
<1>4. \A p \in Of(task[t].todo) \ contended : InOrder(p)'
  BY <1>1 DEF AloneInv, InOrder, Of
<1>5. \A i, j \in 1..Len(task'[t].todo) :
          task'[t].todo[i].p = task'[t].todo[j].p => i = j
  BY <1>2 DEF AloneInv, ReadOnce
<1> QED BY <1>1, <1>2, <1>3, <1>4, <1>5, SlotStepAlone

LEMMA NotifyAlone ==
    ASSUME IInv, AloneInv, NEW t \in Slots, Notify(t)
    PROVE  AloneInv'
<1>1. /\ task[t].pc = "notify" /\ task[t].todo # <<>>
      /\ 1 \in 1..Len(task[t].todo) /\ Current(t) = task[t].todo[1]
      /\ Current(t).p \in Payments
  BY CurrentRow DEF Notify, Snapshot
<1> PICK p \in Payments : p = Current(t).p
  BY <1>1
<1>2. /\ NextRow(t) /\ UNCHANGED <<row, contended>>
      /\ sent'[p] = sent[p] \cup {EventOf(task[t].kind)}
      /\ \A q \in Payments \ {p} : sent'[q] = sent[q]
  BY DEF Notify, IInv, TypeOK
<1>3. p \notin contended => InOrder(p)'
  <2> SUFFICES ASSUME p \notin contended PROVE InOrder(p)'
    OBVIOUS
  <2>1. row[p].status = LeftIn(task[t].kind) /\ InOrder(p)
    BY <1>1 DEF AloneInv, SnapshotFits
  <2>2. task[t].kind \in Scans \cup {"shipPayment"}
    BY <1>1 DEF IInv, TaskShape
  <2>3. LeftIn(task[t].kind) \in Since(EventOf(task[t].kind))
    BY <2>2 DEF LeftIn, Since, EventOf, Scans
  <2> QED BY <1>2, <2>1, <2>3 DEF InOrder
<1> QED BY <1>1, <1>2, <1>3, NextRowAlone

LEMMA SkipsAndFailuresAlone ==
    ASSUME IInv, AloneInv, NEW t \in Slots,
           HandlerFails(t) \/ \E kind \in Scans : ScanSkips(t, kind)
    PROVE  AloneInv'
<1>1. UNCHANGED <<row, sent, contended>> /\ (NextRow(t) \/ Stop(t))
  BY DEF HandlerFails, ScanSkips
<1>2. \A p \in Payments \ contended : InOrder(p)'
  BY <1>1 DEF AloneInv, InOrder
<1>3. task[t].pc # "idle"
  BY DEF HandlerFails, ScanSkips, At, IInv, TaskShape, TypeOK, Task, Idle
<1>4. task[t].todo # <<>> /\ Current(t).p \in Payments
  BY <1>3, CurrentRow DEF Snapshot
<1> PICK p \in Payments : p = Current(t).p
  BY <1>4
<1>5. CASE NextRow(t)
  BY <1>1, <1>2, <1>4, <1>5, NextRowAlone
<1>6. CASE Stop(t)
  BY <1>1, <1>2, <1>6, StopAlone DEF Of
<1> QED BY <1>1, <1>5, <1>6

LEMMA HandlerAlone ==
    ASSUME IInv, AloneInv, NEW t \in Slots, Handler(t)
    PROVE  AloneInv'
<1>1. CASE Begins(t)
  BY <1>1, BeginsAlone
<1>2. CASE GoesOn(t)
  BY <1>2, BuildEscrowFinishAlone, ShipWriteAlone, ScanFindsAlone,
     SkipsAndFailuresAlone, UpdatesAlone DEF GoesOn
<1>3. CASE Notify(t)
  BY <1>3, NotifyAlone
<1>4. CASE HandlerFails(t)
  BY <1>4, SkipsAndFailuresAlone
<1> QED BY <1>1, <1>2, <1>3, <1>4 DEF Handler

\* A row that is created has been read by nobody.
LEMMA CreateAlone ==
    ASSUME IInv, AloneInv, NEW p \in Payments, CreatePaymentQr(p)
    PROVE  AloneInv'
<1>1. /\ row[p].status = "absent" /\ row'[p].status = "pending"
      /\ \A q \in Payments \ {p} : row'[q] = row[q]
      /\ UNCHANGED <<task, sent, contended>>
  BY DEF CreatePaymentQr, Exists, IInv, TypeOK, Row
<1>2. ASSUME NEW t \in Slots, NEW i \in 1..Len(task[t].todo),
             task[t].todo[i].p \notin contended
      PROVE  SnapshotFits(t, i)'
  <2>1. SnapshotFits(t, i)
    BY <1>2 DEF AloneInv
  <2>2. task[t].todo[i].p # p
    BY <1>1, <2>1 DEF SnapshotFits, LeftIn, ReadIn
  <2>3. task[t].todo[i].p \in Payments
    BY SnapshotsOf
  <2> QED BY <1>1, <2>1, <2>2, <2>3 DEF SnapshotFits
<1>3. ASSUME NEW q \in Payments \ contended
      PROVE  InOrder(q)'
  <2>1. InOrder(q)
    BY <1>3 DEF AloneInv
  <2>2. CASE q = p
    <3>1. sent[p] = {}
      BY <1>1, <2>1, <2>2 DEF InOrder, Since
    <3> QED BY <1>1, <2>2, <3>1 DEF InOrder
  <2>3. CASE q # p
    BY <1>1, <2>1, <2>3 DEF InOrder
  <2> QED BY <2>2, <2>3
<1>4. \A t \in Slots : ReadOnce(t)'
  BY <1>1 DEF AloneInv, ReadOnce, Of
<1> QED BY <1>1, <1>2, <1>3, <1>4 DEF AloneInv

LEMMA UnseenAlone ==
    ASSUME AloneInv, UNCHANGED <<row, task, sent, contended>>
    PROVE  AloneInv'
  BY DEF AloneInv, ReadOnce, Of, SnapshotFits, InOrder

LEMMA ProcessStopsAlone ==
    ASSUME AloneInv, ProcessStops
    PROVE  AloneInv'
<1>1. /\ \A t \in Slots : task'[t] = Idle
      /\ UNCHANGED <<row, sent, contended>>
  BY DEF ProcessStops
<1>2. \A t \in Slots : Len(task'[t].todo) = 0
  BY <1>1 DEF Idle
<1>3. \A t \in Slots : 1..Len(task'[t].todo) = {}
  BY <1>2
<1>4. \A t \in Slots : ReadOnce(t)'
  BY <1>3 DEF ReadOnce, Of
<1>5. \A p \in Payments \ contended : InOrder(p)'
  BY <1>1 DEF AloneInv, InOrder
<1> QED BY <1>1, <1>3, <1>4, <1>5 DEF AloneInv

LEMMA InitAlone == Init => AloneInv
<1> SUFFICES ASSUME Init PROVE AloneInv
  OBVIOUS
<1>1. \A t \in Slots : Len(task[t].todo) = 0
  BY DEF Init, Idle
<1>2. \A t \in Slots : 1..Len(task[t].todo) = {}
  BY <1>1
<1>3. \A p \in Payments : InOrder(p)
  BY DEF Init, InOrder, AbsentRow
<1> QED BY <1>2, <1>3 DEF AloneInv, ReadOnce, Of

LEMMA NextAlone == IInv /\ AloneInv /\ [Next]_vars => AloneInv'
<1> SUFFICES ASSUME IInv, AloneInv, [Next]_vars PROVE AloneInv'
  OBVIOUS
<1>1. CASE \E p \in Payments : CreatePaymentQr(p)
  BY <1>1, CreateAlone
<1>2. CASE \/ \E p \in Payments :
                \/ \E w \in Wallets : GetConfirmTransaction(p, w)
                \/ ExpiryPasses(p)
                \/ AutoReleasePasses(p)
           \/ \E tx \in signable : Sign(tx)
  BY <1>2, UnseenAlone
     DEF GetConfirmTransaction, ExpiryPasses, AutoReleasePasses, Sign
<1>3. CASE \E t \in Slots : Handler(t)
  BY <1>3, HandlerAlone
<1>4. CASE ProcessStops
  BY <1>4, ProcessStopsAlone
<1>5. CASE UNCHANGED vars
  BY <1>5, UnseenAlone DEF vars
<1> QED BY <1>1, <1>2, <1>3, <1>4, <1>5 DEF Next, Environment

\* What the handlers know of the rows that they alone have read.
THEOREM AloneInvariant == Spec => [](IInv /\ AloneInv)
<1>1. Init => IInv /\ AloneInv
  BY InitIInv, InitAlone
<1>2. IInv /\ AloneInv /\ [Next]_vars => (IInv /\ AloneInv)'
  BY NextInv, NextAlone
<1> QED BY <1>1, <1>2, PTL DEF Spec

\* Unless two handlers held the payment at one time, the wallet that may
\* confirm reception is the one whose escrow account was seen.
THEOREM ConfirmersPaid == Spec => []ConfirmerPaid
<1>1. AloneInv => ConfirmerPaid
  BY DEF AloneInv, InOrder, ConfirmerPaid
<1> QED BY <1>1, AloneInvariant, PTL

\* A step takes a payment that no two handlers held at one time to its next
\* stage, or leaves it in the one it is in.
LEMMA StageSteps ==
    ASSUME IInv, AloneInv, Next, NEW p \in Payments \ contended
    PROVE  \/ row'[p].status = row[p].status
           \/ <<row[p].status, row'[p].status>> \in Lifecycle
<1>1. row \in [Payments -> Row]
  BY DEF IInv, TypeOK
<1>2. ASSUME NEW t \in Slots, task[t].pc = "write",
             row'[p].status # row[p].status,
             task[t].kind \in Scans \cup {"shipPayment"},
             row'[p].status = LeftIn(task[t].kind),
             p = Current(t).p
      PROVE  <<row[p].status, row'[p].status>> \in Lifecycle
  <2>1. 1 \in 1..Len(task[t].todo) /\ Current(t) = task[t].todo[1]
    BY <1>2, CurrentRow
  <2>2. row[p].status \in ReadIn(task[t].kind)
    BY <1>2, <2>1 DEF AloneInv, SnapshotFits
  <2> QED BY <1>2, <2>2 DEF ReadIn, LeftIn, Scans, Lifecycle
<1>3. ASSUME NEW t \in Slots, GoesOn(t)
      PROVE  \/ row'[p].status = row[p].status
             \/ /\ task[t].pc = "write"
                /\ task[t].kind \in Scans \cup {"shipPayment"}
                /\ row'[p].status = LeftIn(task[t].kind)
                /\ p = Current(t).p
  <2>1. CASE \/ BuildEscrowFinish(t)
             \/ \E kind \in Scans : ScanFinds(t, kind) \/ ScanSkips(t, kind)
    BY <1>1, <2>1 DEF BuildEscrowFinish, ScanFinds, ScanSkips, Row
  <2>2. CASE ShipWrite(t)
    BY <1>1, <2>2 DEF ShipWrite, At, LeftIn, Row
  <2>3. CASE MarkEscrowLocked(t)
    BY <1>1, <2>3 DEF MarkEscrowLocked, ScanUpdates, At, LeftIn, Row, Scans
  <2>4. CASE MarkReleased(t) \/ MarkExpired(t) \/ MarkAutoReleased(t)
    BY <1>1, <2>4 DEF MarkReleased, MarkExpired, MarkAutoReleased,
                      ScanUpdates, At, LeftIn, Row, Scans
  <2> QED BY <1>3, <2>1, <2>2, <2>3, <2>4 DEF GoesOn
<1>4. ASSUME NEW q \in Payments, CreatePaymentQr(q)
      PROVE  \/ row'[p].status = row[p].status
             \/ <<row[p].status, row'[p].status>> \in Lifecycle
  BY <1>1, <1>4 DEF CreatePaymentQr, Exists, Row, Lifecycle
<1>5. \/ UNCHANGED row
      \/ \E q \in Payments : CreatePaymentQr(q)
      \/ \E t \in Slots : GoesOn(t)
  BY DEF Next, Environment, GetConfirmTransaction, ExpiryPasses,
     AutoReleasePasses, Sign, ProcessStops, Handler, Begins, Notify,
     HandlerFails, BuildEscrowBegin, ShipBegin, ScanStart
<1> QED BY <1>2, <1>3, <1>4, <1>5

\* The status of a payment that no two handlers held at one time goes through
\* its stages in order.
THEOREM StagesInOrder == Spec => LifecycleOrder
<1>1. IInv /\ AloneInv /\ [Next]_vars =>
          [\A p \in Payments \ contended :
              \/ row'[p].status = row[p].status
              \/ <<row[p].status, row'[p].status>> \in Lifecycle]_vars
  BY StageSteps
<1> QED BY <1>1, AloneInvariant, PTL DEF Spec, LifecycleOrder

\* No event of such a payment is dispatched twice.
THEOREM EventsOnce == Spec => EventOnce
<1>1. ASSUME IInv, AloneInv, NEW t \in Slots, Notify(t)
      PROVE  \/ Current(t).p \in contended
             \/ EventOf(task[t].kind) \notin sent[Current(t).p]
  <2>1. /\ task[t].pc = "notify"
        /\ 1 \in 1..Len(task[t].todo) /\ Current(t) = task[t].todo[1]
    BY <1>1, CurrentRow DEF Notify
  <2> QED BY <1>1, <2>1 DEF AloneInv, SnapshotFits
<1>2. IInv /\ AloneInv /\ [Next]_vars =>
          [\A t \in Slots :
              Notify(t) => \/ Current(t).p \in contended
                           \/ EventOf(task[t].kind) \notin sent[Current(t).p]]_vars
  BY <1>1
<1> QED BY <1>2, AloneInvariant, PTL DEF Spec, EventOnce

-----------------------------------------------------------------------------
(* The components.                                                          *)

\* A step of the system is one of the payments, or leaves them alone.
LEMMA StepsOfPayments == [SystemNext]_systemVars => [Next]_vars
<1> SUFFICES ASSUME [SystemNext]_systemVars
             PROVE  [Next]_vars
  OBVIOUS
<1>1. CASE UNCHANGED systemVars
  BY <1>1 DEF systemVars
<1>2. CASE SystemNext
  <2>1. CASE PaymentsOnly(Environment)
    BY <2>1 DEF PaymentsOnly, Next
  <2>2. ASSUME NEW h \in Slots, PaymentsOnly(Begins(h) \/ GoesOn(h))
        PROVE  Next
    BY <2>2 DEF PaymentsOnly, Next, Handler
  <2>3. ASSUME NEW h \in Slots, Told(h) \/ Fails(h)
        PROVE  Next
    BY <2>3 DEF Told, Fails, Next, Handler
  <2>4. ASSUME NEW h \in Slots, DispatchCalled(h)
        PROVE  UNCHANGED vars
    BY <2>4 DEF DispatchCalled
  <2>5. CASE \/ \E t \in Slots \cup Timers : RunStep(t)
             \/ \E t \in Timers : HooksOnly(Hooks!RetryStart(t))
             \/ \E id \in Hooks!Deliveries : HooksOnly(Hooks!RetryBecomesDue(id))
             \/ HooksOnly(Hooks!Merchant)
    BY <2>5 DEF RunStep, HooksOnly
  <2>6. CASE MachineStops
    BY <2>6 DEF MachineStops, Next
  <2> QED
    BY <1>2, <2>1, <2>2, <2>3, <2>4, <2>5, <2>6 DEF SystemNext
<1> QED
  BY <1>1, <1>2

\* A step of the system is one of the webhooks, or leaves them alone.
LEMMA StepsOfHooks == [SystemNext]_systemVars => [Hooks!Next]_(Hooks!vars)
<1> SUFFICES ASSUME [SystemNext]_systemVars
             PROVE  [Hooks!Next]_(Hooks!vars)
  OBVIOUS
<1>1. ASSUME UNCHANGED hookVars
      PROVE  UNCHANGED Hooks!vars
  BY <1>1 DEF hookVars, Hooks!vars, Hooks!tables, Hooks!history
<1>2. CASE UNCHANGED systemVars
  BY <1>1, <1>2 DEF systemVars
<1>3. CASE SystemNext
  <2>1. CASE PaymentsOnly(Environment)
    BY <1>1, <2>1 DEF PaymentsOnly
  <2>2. ASSUME NEW h \in Slots, PaymentsOnly(Begins(h) \/ GoesOn(h)) \/ Told(h)
        PROVE  UNCHANGED Hooks!vars
    BY <1>1, <2>2 DEF PaymentsOnly, Told
  <2>3. ASSUME NEW h \in Slots, DispatchCalled(h)
        PROVE  Hooks!Next
    BY <2>3 DEF DispatchCalled, Open, Hooks!Next
  <2>4. ASSUME NEW h \in Slots, Fails(h)
        PROVE  Hooks!Next \/ UNCHANGED Hooks!vars
    BY <1>1, <2>4 DEF Fails, Hooks!Next, Hooks!Progress
  <2>5. ASSUME NEW t \in Slots \cup Timers, RunStep(t)
        PROVE  Hooks!Next
    <3>1. Hooks!Progress(t)
      BY <2>5 DEF RunStep, HooksOnly, Hooks!Progress
    <3> QED
      BY <3>1 DEF Hooks!Next
  <2>6. CASE \/ \E t \in Timers : HooksOnly(Hooks!RetryStart(t))
             \/ \E id \in Hooks!Deliveries : HooksOnly(Hooks!RetryBecomesDue(id))
             \/ HooksOnly(Hooks!Merchant)
    BY <2>6 DEF HooksOnly, Hooks!Next
  <2>7. CASE MachineStops
    BY <1>1, <2>7 DEF MachineStops, Hooks!Next
  <2> QED
    BY <1>3, <2>1, <2>2, <2>3, <2>4, <2>5, <2>6, <2>7 DEF SystemNext
<1> QED
  BY <1>2, <1>3

\* The payments of the system behave as EscrowPayments says, whatever the
\* webhooks do to the handlers that call them.
THEOREM PaymentsWithin == System => Spec
<1>1. SystemInit => Init
  BY DEF SystemInit
<1> QED
  BY <1>1, StepsOfPayments, PTL DEF System, Spec

\* The webhooks of the system behave as WebhookDelivery says, called by
\* handlers that fail and stop on their own.
THEOREM HooksWithin == System => Hooks!Spec
<1>1. SystemInit => Hooks!Init
  BY DEF SystemInit
<1> QED
  BY <1>1, StepsOfHooks, PTL DEF System, Hooks!Spec

\* HooksProofs proves about the definitions that Hooks names.
LEMMA SameInit == Hooks!Init => HooksProofs!Init
  BY DEF Hooks!Init, Hooks!Deliveries, Hooks!NoRow, Hooks!Idle,
         HooksProofs!Init, HooksProofs!Deliveries, HooksProofs!NoRow,
         HooksProofs!Idle

LEMMA SameMerchant == Hooks!Merchant => HooksProofs!Merchant
  BY DEF Hooks!Merchant, Hooks!CreateEndpoint, Hooks!UpdateBegin,
         Hooks!UpdateFinish, Hooks!DeleteEndpoint, Hooks!AddSubscription,
         Hooks!RemoveSubscription, Hooks!Exists, Hooks!history,
         Hooks!Deliveries, Hooks!EndpointOf, Hooks!NoRow,
         HooksProofs!Merchant, HooksProofs!CreateEndpoint,
         HooksProofs!UpdateBegin, HooksProofs!UpdateFinish,
         HooksProofs!DeleteEndpoint, HooksProofs!AddSubscription,
         HooksProofs!RemoveSubscription, HooksProofs!Exists,
         HooksProofs!history, HooksProofs!Deliveries, HooksProofs!EndpointOf,
         HooksProofs!NoRow

LEMMA SameProgress ==
    ASSUME NEW t, Hooks!Progress(t)
    PROVE  HooksProofs!Progress(t)
  BY DEF Hooks!Progress, Hooks!Claims, Hooks!DispatchInsert, Hooks!RetrySkip,
         Hooks!RetryClaim, Hooks!Post, Hooks!SaveOutcome, Hooks!RunFails,
         Hooks!At, Hooks!TakeUp, Hooks!Continue, Hooks!Outcome,
         Hooks!ScheduleRetry, Hooks!AtRisk, Hooks!PostsBound, Hooks!Exists,
         Hooks!EndpointOf, Hooks!Idle, Hooks!tables, Hooks!history,
         HooksProofs!Progress, HooksProofs!Claims,
         HooksProofs!DispatchInsert, HooksProofs!RetrySkip,
         HooksProofs!RetryClaim, HooksProofs!Post, HooksProofs!SaveOutcome,
         HooksProofs!RunFails, HooksProofs!At, HooksProofs!TakeUp,
         HooksProofs!Continue, HooksProofs!Outcome,
         HooksProofs!ScheduleRetry, HooksProofs!AtRisk,
         HooksProofs!PostsBound, HooksProofs!Exists, HooksProofs!EndpointOf,
         HooksProofs!Idle, HooksProofs!tables, HooksProofs!history

LEMMA SameRun ==
    ASSUME NEW t, NEW kind, NEW copies, Hooks!Run(t, kind, copies)
    PROVE  HooksProofs!Run(t, kind, copies)
  BY DEF Hooks!Run, Hooks!Copied, Hooks!Idle,
         HooksProofs!Run, HooksProofs!Copied, HooksProofs!Idle

LEMMA SameStarts ==
    ASSUME NEW t,
           (\E e \in Calls : Hooks!DispatchStart(t, e)) \/ Hooks!RetryStart(t)
    PROVE  \/ \E e \in Calls : HooksProofs!DispatchStart(t, e)
           \/ HooksProofs!RetryStart(t)
<1>1. ASSUME NEW e \in Calls, Hooks!DispatchStart(t, e)
      PROVE  HooksProofs!DispatchStart(t, e)
  <2>1. Hooks!Targets(e) = HooksProofs!Targets(e)
    BY DEF Hooks!Targets, HooksProofs!Targets, Hooks!EndpointOf,
           HooksProofs!EndpointOf
  <2> QED
    BY <1>1, <2>1, SameRun
       DEF Hooks!DispatchStart, Hooks!tables, HooksProofs!DispatchStart,
           HooksProofs!tables
<1>2. CASE Hooks!RetryStart(t)
  <2>1. Hooks!Due = HooksProofs!Due
    BY DEF Hooks!Due, HooksProofs!Due, Hooks!Deliveries,
           HooksProofs!Deliveries
  <2>2. \A batch : Hooks!Cardinality(batch) = HooksProofs!Cardinality(batch)
    BY DEF Hooks!Cardinality, HooksProofs!Cardinality
  <2> QED
    BY <1>2, <2>1, <2>2, SameRun
       DEF Hooks!RetryStart, Hooks!tables, HooksProofs!RetryStart,
           HooksProofs!tables
<1> QED
  BY <1>1, <1>2

LEMMA SameStops ==
    ASSUME \/ Hooks!ProcessStops
           \/ \E id \in Hooks!Deliveries : Hooks!RetryBecomesDue(id)
    PROVE  \/ HooksProofs!ProcessStops
           \/ \E id \in HooksProofs!Deliveries : HooksProofs!RetryBecomesDue(id)
  BY DEF Hooks!ProcessStops, Hooks!RetryBecomesDue, Hooks!AtRisk,
         Hooks!Idle, Hooks!Deliveries, Hooks!history,
         HooksProofs!ProcessStops, HooksProofs!RetryBecomesDue,
         HooksProofs!AtRisk, HooksProofs!Idle, HooksProofs!Deliveries,
         HooksProofs!history

LEMMA SameNext == Hooks!Next => HooksProofs!Next
<1> SUFFICES ASSUME Hooks!Next
             PROVE  HooksProofs!Next
  OBVIOUS
<1>1. CASE Hooks!Merchant
  BY <1>1, SameMerchant DEF HooksProofs!Next
<1>2. ASSUME NEW t \in Slots \cup Timers,
             \/ \E e \in Calls : Hooks!DispatchStart(t, e)
             \/ Hooks!RetryStart(t)
      PROVE  HooksProofs!Next
  BY <1>2, SameStarts DEF HooksProofs!Next
<1>3. ASSUME NEW t \in Slots \cup Timers, Hooks!Progress(t)
      PROVE  HooksProofs!Next
  BY <1>3, SameProgress DEF HooksProofs!Next
<1>4. CASE \/ Hooks!ProcessStops
           \/ \E id \in Hooks!Deliveries : Hooks!RetryBecomesDue(id)
  BY <1>4, SameStops DEF HooksProofs!Next
<1> QED
  BY <1>1, <1>2, <1>3, <1>4 DEF Hooks!Next

LEMMA SameSpec == Hooks!Spec => HooksProofs!Spec
<1>1. [Hooks!Next]_(Hooks!vars) => [HooksProofs!Next]_(HooksProofs!vars)
  BY SameNext
     DEF Hooks!vars, Hooks!tables, Hooks!history, HooksProofs!vars,
         HooksProofs!tables, HooksProofs!history
<1> QED
  BY <1>1, SameInit, PTL DEF Hooks!Spec, HooksProofs!Spec

LEMMA SameInvariant == HooksProofs!IInv => Hooks!IInv
  BY DEF Hooks!IInv, Hooks!BackedInv, Hooks!CountedInv, Hooks!TypeOK,
         Hooks!TaskShape, Hooks!TaskPosted, Hooks!RowsPosted,
         Hooks!DeliveredIsAcked, Hooks!Accounted, Hooks!TaskDistinct,
         Hooks!TracesDispatched, Hooks!RowCounted, Hooks!CopiesCounted,
         Hooks!HeldOnce, Hooks!Held, Hooks!InHand, Hooks!Copied, Hooks!Idle,
         Hooks!Deliveries, Hooks!EndpointState, Hooks!Row, Hooks!NoRow,
         Hooks!Copy, Hooks!Task, Hooks!PostsBound,
         HooksProofs!IInv, HooksProofs!BackedInv, HooksProofs!CountedInv,
         HooksProofs!TypeOK, HooksProofs!TaskShape, HooksProofs!TaskPosted,
         HooksProofs!RowsPosted, HooksProofs!DeliveredIsAcked,
         HooksProofs!Accounted, HooksProofs!TaskDistinct,
         HooksProofs!TracesDispatched, HooksProofs!RowCounted,
         HooksProofs!CopiesCounted, HooksProofs!HeldOnce, HooksProofs!Held,
         HooksProofs!InHand, HooksProofs!Copied, HooksProofs!Idle,
         HooksProofs!Deliveries, HooksProofs!EndpointState, HooksProofs!Row,
         HooksProofs!NoRow, HooksProofs!Copy, HooksProofs!Task,
         HooksProofs!PostsBound

\* What WebhookDeliveryProofs assumes of its constants.
LEMMA HooksAssumptions ==
    /\ [c \in Calls |-> c[2]] \in [Calls -> Types]
    /\ MaxAttempts \in Nat \ {0}
    /\ RetryBatch \in Nat \ {0}
    /\ Nothing \notin HooksProofs!Copy
<1>1. \A c \in Calls : c[2] \in Types
  BY DEF Calls
<1>2. HooksProofs!Copy = Hooks!Copy
  BY DEF HooksProofs!Copy, HooksProofs!Deliveries, Hooks!Copy,
         Hooks!Deliveries
<1> QED
  BY <1>1, <1>2, AttemptsAssumption, RetryBatchAssumption, NothingAssumption

\* The inductive invariants of both components hold of the system.
LEMMA ComponentInvariants == System => [](IInv /\ AloneInv /\ Hooks!IInv)
<1>1. HooksProofs!Spec => []HooksProofs!IInv
  BY HooksAssumptions, HooksProofs!Invariant
<1>2. Hooks!Spec => HooksProofs!Spec
  BY SameSpec
<1>3. System => []Hooks!IInv
  BY <1>1, <1>2, SameInvariant, HooksWithin, PTL
<1> QED
  BY <1>3, PaymentsWithin, AloneInvariant, PTL

-----------------------------------------------------------------------------
(* The payments: what a step does to a change that a merchant is told of.   *)

\* Events that a row shows.
LEMMA ShownIs ==
    ASSUME NEW p
    PROVE  /\ "escrow.locked" \in Shown(p) <=> row[p].escrowPda # NoWallet
           /\ "escrow.shipped" \in Shown(p) <=> row[p].shippedAt
           /\ "escrow.released" \in Shown(p) <=> row[p].status = "released"
           /\ "escrow.auto_released" \in Shown(p)
                  <=> row[p].status = "auto_released"
           /\ "payment.expired" \in Shown(p) <=> row[p].status = "expired"
           /\ Shown(p) \subseteq Events
<1> DEFINE stage == CASE row[p].status = "released" -> {"escrow.released"}
                      [] row[p].status = "auto_released" ->
                            {"escrow.auto_released"}
                      [] row[p].status = "expired" -> {"payment.expired"}
                      [] OTHER -> {}
<1>1. /\ "escrow.released" \in stage <=> row[p].status = "released"
      /\ "escrow.auto_released" \in stage <=> row[p].status = "auto_released"
      /\ "payment.expired" \in stage <=> row[p].status = "expired"
      /\ stage \subseteq {"escrow.released", "escrow.auto_released",
                          "payment.expired"}
  OBVIOUS
<1>2. Shown(p) = (IF row[p].escrowPda # NoWallet THEN {"escrow.locked"} ELSE {})
                 \cup (IF row[p].shippedAt THEN {"escrow.shipped"} ELSE {})
                 \cup stage
  BY DEF Shown
<1> HIDE DEF stage
<1> QED
  BY <1>1, <1>2 DEF Events

\* Only a buyer's signature moves escrow accounts; deadlines stay passed, and
\* a payment that two handlers held stays contended.
LEMMA WorldMoves ==
    ASSUME [Next]_vars
    PROVE  /\ UNCHANGED escrow \/ \E tx \in signable : Sign(tx)
           /\ overdue \subseteq overdue'
           /\ contended \subseteq contended'
<1>1. CASE UNCHANGED vars
  BY <1>1 DEF vars
<1>2. CASE Environment
  BY <1>2 DEF Environment, CreatePaymentQr, GetConfirmTransaction,
              ExpiryPasses, AutoReleasePasses, Sign
<1>3. ASSUME NEW t \in Slots, Begins(t) \/ Notify(t) \/ HandlerFails(t)
      PROVE  /\ UNCHANGED <<escrow, overdue>>
             /\ contended \subseteq contended'
  BY <1>3 DEF Begins, BuildEscrowBegin, ShipBegin, ScanStart, Run, Notify,
              HandlerFails
<1>4. ASSUME NEW t \in Slots, GoesOn(t)
      PROVE  UNCHANGED <<escrow, overdue, contended>>
  BY <1>4 DEF GoesOn, BuildEscrowFinish, ShipWrite, ScanFinds, ScanSkips,
              MarkEscrowLocked, MarkReleased, MarkExpired, MarkAutoReleased,
              ScanUpdates
<1>5. CASE ProcessStops
  BY <1>5 DEF ProcessStops
<1> QED
  BY <1>1, <1>2, <1>3, <1>4, <1>5 DEF Next, Handler

\* The chain and the clock do not take back what backs an event.
LEMMA BackedStays ==
    ASSUME IInv, [Next]_vars, NEW p \in Payments, NEW event \in Events,
           Backed(p, event)
    PROVE  Backed(p, event)'
<1>1. ASSUME NEW w \in Wallets
      PROVE  /\ escrow[p][w] # "none" => escrow'[p][w] # "none"
             /\ escrow[p][w] = "released" => escrow'[p][w] = "released"
  <2>1. CASE UNCHANGED escrow
    BY <2>1
  <2>2. ASSUME NEW tx \in signable, Sign(tx)
        PROVE  /\ escrow[p][w] # "none" => escrow'[p][w] # "none"
               /\ escrow[p][w] = "released" => escrow'[p][w] = "released"
    <3>1. /\ escrow \in [Payments -> [Wallets -> EscrowState]]
          /\ tx.p \in Payments /\ tx.w \in Wallets
          /\ tx.ix \in {"crear_escrow", "liberar_escrow"}
      BY DEF IInv, TypeOK, Transaction
    <3> QED
      BY <2>2, <3>1 DEF Sign
  <2> QED
    BY <2>1, <2>2, WorldMoves
<1>2. /\ PaidOut(p) # {} => PaidOut(p)' # {}
      /\ Locked(p) # {} => Locked(p)' # {}
  BY <1>1 DEF PaidOut, Locked
<1>3. overdue \subseteq overdue'
  BY WorldMoves
<1> QED
  BY <1>2, <1>3 DEF Backed

\* Rows are written when they are created and by handlers past their reads.
LEMMA RowMoves ==
    ASSUME [Next]_vars
    PROVE  \/ UNCHANGED row
           \/ \E p \in Payments : CreatePaymentQr(p)
           \/ \E t \in Slots : GoesOn(t)
  BY DEF Next, vars, Environment, GetConfirmTransaction, ExpiryPasses,
     AutoReleasePasses, Sign, ProcessStops, Handler, Begins, Notify,
     HandlerFails, BuildEscrowBegin, ShipBegin, ScanStart

\* What a handler that goes on writes: nothing that shows, or one change that
\* it then tells of.
LEMMA GoesOnShows ==
    ASSUME IInv, NEW t \in Slots, GoesOn(t), NEW p \in Payments
    PROVE  /\ row[p].escrowPda # NoWallet => row'[p].escrowPda # NoWallet
           /\ row[p].shippedAt => row'[p].shippedAt
           /\ \A event \in Shown(p)' :
                 \/ event \in Shown(p)
                 \/ Notifying(t)' /\ Change(t)' = <<p, event>>
<1>1. /\ row \in [Payments -> Row]
      /\ task \in [Slots -> Task]
      /\ NoWallet \notin Wallets
  BY NoWalletAssumption DEF IInv, TypeOK
<1>2. CASE \E kind \in Scans : ScanFinds(t, kind) \/ ScanSkips(t, kind)
  BY <1>2 DEF ScanFinds, ScanSkips, Shown
<1>3. CASE BuildEscrowFinish(t)
  <2>1. /\ row'[p].escrowPda = row[p].escrowPda
        /\ row'[p].shippedAt = row[p].shippedAt
        /\ row'[p].status = row[p].status
    BY <1>1, <1>3 DEF BuildEscrowFinish, Row
  <2> QED
    BY <2>1 DEF Shown
<1>4. ASSUME GoTo(t, "notify"), NEW q, q = Current(t).p,
             p # q => row'[p] = row[p],
             row[p].escrowPda # NoWallet => row'[p].escrowPda # NoWallet,
             row[p].shippedAt => row'[p].shippedAt,
             p = q =>
               \A event \in Shown(p)' :
                 event \in Shown(p) \/ event = EventOf(task[t].kind)
      PROVE  \A event \in Shown(p)' :
                 \/ event \in Shown(p)
                 \/ Notifying(t)' /\ Change(t)' = <<p, event>>
  <2>1. task'[t].pc = "notify" /\ task'[t].todo = task[t].todo
        /\ task'[t].kind = task[t].kind
    BY <1>1, <1>4 DEF GoTo, Task
  <2>2. Notifying(t)' /\ Change(t)' = <<q, EventOf(task[t].kind)>>
    BY <1>4, <2>1 DEF Notifying, Change, Current
  <2>3. CASE p = q
    BY <1>4, <2>2, <2>3
  <2>4. CASE p # q
    BY <1>4, <2>4 DEF Shown
  <2> QED
    BY <2>3, <2>4
<1>5. CASE ShipWrite(t)
  <2>1. PICK q : q = Current(t).p
    OBVIOUS
  <2>2. /\ task[t].kind = "shipPayment" /\ task[t].pc = "write"
        /\ GoTo(t, "notify")
        /\ row' = [row EXCEPT ![q].status = "shipped", ![q].shippedAt = TRUE]
    BY <1>5, <2>1 DEF ShipWrite, At
  <2>3. q \in Payments
    BY <2>1, <2>2, CurrentRow DEF Snapshot
  <2>4. /\ p # q => row'[p] = row[p]
        /\ row'[p].escrowPda = row[p].escrowPda
        /\ row[p].shippedAt => row'[p].shippedAt
        /\ p = q => row'[p].status = "shipped"
    BY <1>1, <2>2, <2>3 DEF Row
  <2>5. ASSUME p = q, NEW event \in Shown(p)'
        PROVE  event \in Shown(p) \/ event = EventOf(task[t].kind)
    <3>1. EventOf(task[t].kind) = "escrow.shipped"
      BY <2>2 DEF EventOf
    <3>2. event = "escrow.locked" => event \in Shown(p)
      BY <2>4, <2>5 DEF Shown
    <3>3. event \in {"escrow.locked", "escrow.shipped"}
      BY <2>4, <2>5 DEF Shown
    <3> QED
      BY <3>1, <3>2, <3>3
  <2> QED
    BY <1>4, <2>1, <2>2, <2>4, <2>5
<1>6. ASSUME NEW kind \in Scans, NEW updated, NEW q, q = Current(t).p,
             ScanUpdates(t, kind, q, updated), updated \in Row,
             updated.shippedAt = row[q].shippedAt,
             updated.status = LeftIn(kind),
             \/ updated.escrowPda = row[q].escrowPda
             \/ kind = "scanEscrowCreated" /\ updated.escrowPda # NoWallet
      PROVE  /\ row[p].escrowPda # NoWallet => row'[p].escrowPda # NoWallet
             /\ row[p].shippedAt => row'[p].shippedAt
             /\ \A event \in Shown(p)' :
                   \/ event \in Shown(p)
                   \/ Notifying(t)' /\ Change(t)' = <<p, event>>
  <2>1. /\ task[t].kind = kind /\ task[t].pc = "write"
        /\ GoTo(t, "notify")
        /\ row' = [row EXCEPT ![q] = updated]
    BY <1>6 DEF ScanUpdates, At
  <2>2. q \in Payments
    BY <1>6, <2>1, CurrentRow DEF Snapshot
  <2>3. /\ p # q => row'[p] = row[p]
        /\ p = q => row'[p] = updated
    BY <1>1, <2>1, <2>2
  <2>4. ASSUME p = q, NEW event \in Shown(p)'
        PROVE  event \in Shown(p) \/ event = EventOf(kind)
    <3>1. /\ event = "escrow.locked" =>
                event \in Shown(p) \/ kind = "scanEscrowCreated"
          /\ event = "escrow.shipped" => event \in Shown(p)
      BY <1>6, <2>3, <2>4 DEF Shown
    <3>2. /\ event = "escrow.released" => LeftIn(kind) = "released"
          /\ event = "escrow.auto_released" => LeftIn(kind) = "auto_released"
          /\ event = "payment.expired" => LeftIn(kind) = "expired"
      BY <1>6, <2>3, <2>4 DEF Shown
    <3>3. event \in {"escrow.locked", "escrow.shipped", "escrow.released",
                     "escrow.auto_released", "payment.expired"}
      BY <2>4 DEF Shown
    <3> QED
      BY <3>1, <3>2, <3>3 DEF LeftIn, EventOf, Scans
  <2>5. /\ row[p].escrowPda # NoWallet => row'[p].escrowPda # NoWallet
        /\ row[p].shippedAt => row'[p].shippedAt
    BY <1>6, <2>3
  <2> QED
    BY <1>4, <1>6, <2>1, <2>3, <2>4, <2>5
<1>7. CASE MarkEscrowLocked(t)
  <2>1. PICK q : q = Current(t).p
    OBVIOUS
  <2>2. At(t, "scanEscrowCreated", "write")
    BY <1>7 DEF MarkEscrowLocked, ScanUpdates
  <2>3. q \in Payments /\ Current(t).buyer \in Wallets
    BY <2>1, <2>2, CurrentRow DEF At, Snapshot, IInv, TaskFound
  <2>4. PICK updated :
            updated = [row[q] EXCEPT !.status = "escrow_locked",
                                     !.escrowPda = Current(t).buyer]
    OBVIOUS
  <2>5. /\ updated \in Row /\ updated.shippedAt = row[q].shippedAt
        /\ updated.status = LeftIn("scanEscrowCreated")
        /\ updated.escrowPda # NoWallet
    BY <1>1, <2>3, <2>4 DEF Row, Status, LeftIn
  <2>6. ScanUpdates(t, "scanEscrowCreated", q, updated)
    BY <1>7, <2>1, <2>4 DEF MarkEscrowLocked
  <2> QED
    BY <1>6, <2>1, <2>5, <2>6 DEF Scans
<1>8. ASSUME NEW kind \in Scans \ {"scanEscrowCreated"},
             NEW q, q = Current(t).p,
             ScanUpdates(t, kind, q, [row[q] EXCEPT !.status = LeftIn(kind)])
      PROVE  /\ row[p].escrowPda # NoWallet => row'[p].escrowPda # NoWallet
             /\ row[p].shippedAt => row'[p].shippedAt
             /\ \A event \in Shown(p)' :
                   \/ event \in Shown(p)
                   \/ Notifying(t)' /\ Change(t)' = <<p, event>>
  <2>1. PICK updated : updated = [row[q] EXCEPT !.status = LeftIn(kind)]
    OBVIOUS
  <2>2. q \in Payments
    BY <1>8, CurrentRow DEF ScanUpdates, At, Snapshot
  <2>3. /\ updated \in Row /\ updated.shippedAt = row[q].shippedAt
        /\ updated.status = LeftIn(kind)
        /\ updated.escrowPda = row[q].escrowPda
    BY <1>1, <2>1, <2>2 DEF Row, Status, LeftIn
  <2> QED
    BY <1>6, <1>8, <2>1, <2>3
<1>9. CASE MarkReleased(t) \/ MarkExpired(t) \/ MarkAutoReleased(t)
  <2>1. PICK q : q = Current(t).p
    OBVIOUS
  <2>2. \E kind \in Scans \ {"scanEscrowCreated"} :
            ScanUpdates(t, kind, q, [row[q] EXCEPT !.status = LeftIn(kind)])
    BY <1>9, <2>1 DEF MarkReleased, MarkExpired, MarkAutoReleased, LeftIn, Scans
  <2> QED
    BY <1>8, <2>1, <2>2
<1> QED
  BY <1>2, <1>3, <1>5, <1>7, <1>9 DEF GoesOn

\* A row that no two handlers held keeps showing what it has shown.
LEMMA ShownStays ==
    ASSUME IInv, AloneInv, [Next]_vars, NEW p \in Payments, p \notin contended',
           NEW event \in Shown(p)
    PROVE  event \in Shown(p)'
<1>1. CASE UNCHANGED vars
  BY <1>1 DEF vars, Shown
<1>2. CASE Next
  <2>1. p \in Payments \ contended
    BY WorldMoves
  <2>2. \/ row'[p].status = row[p].status
        \/ <<row[p].status, row'[p].status>> \in Lifecycle
    BY <1>2, <2>1, StageSteps
  <2>3. /\ row[p].escrowPda # NoWallet => row'[p].escrowPda # NoWallet
        /\ row[p].shippedAt => row'[p].shippedAt
    <3>1. ASSUME NEW q \in Payments, CreatePaymentQr(q)
          PROVE  /\ row'[p].escrowPda = row[p].escrowPda
                 /\ row'[p].shippedAt = row[p].shippedAt
      BY <3>1 DEF CreatePaymentQr, IInv, TypeOK, Row
    <3>2. CASE UNCHANGED row
      BY <3>2
    <3> QED
      BY <3>1, <3>2, RowMoves, GoesOnShows
  <2>4. row[p].status \in {"released", "auto_released", "expired"}
            => row'[p].status = row[p].status
    BY <2>2 DEF Lifecycle
  <2> QED
    BY <2>3, <2>4 DEF Shown
<1> QED
  BY <1>1, <1>2

\* Only a handler that is about to tell of a change makes a row show it.
LEMMA ShownByHandlers ==
    ASSUME IInv, [Next]_vars, NEW p \in Payments,
           NEW event \in Shown(p)', event \notin Shown(p)
    PROVE  \E t \in Slots :
               GoesOn(t) /\ Notifying(t)' /\ Change(t)' = <<p, event>>
<1>1. ASSUME NEW q \in Payments, CreatePaymentQr(q)
      PROVE  FALSE
  <2>1. /\ row'[p].escrowPda = row[p].escrowPda
        /\ row'[p].shippedAt = row[p].shippedAt
        /\ row'[p].status = row[p].status \/ row'[p].status = "pending"
    BY <1>1 DEF CreatePaymentQr, IInv, TypeOK, Row
  <2> QED
    BY <2>1 DEF Shown
<1>2. CASE UNCHANGED row
  BY <1>2 DEF Shown
<1> QED
  BY <1>1, <1>2, RowMoves, GoesOnShows

\* What a handler tells of is true, and its row shows it.
LEMMA NotifyingTrue ==
    ASSUME IInv, AloneInv, NEW h \in Slots, Notifying(h)
    PROVE  LET change == Change(h) IN
           /\ change \in Payments \X Events
           /\ Backed(change[1], change[2])
           /\ change[1] \in contended \/ change[2] \in Shown(change[1])
<1>1. PICK p, k : p = Current(h).p /\ k = task[h].kind
  OBVIOUS
<1>2. /\ task[h].pc = "notify"
      /\ k \in Scans \cup {"shipPayment"}
      /\ p \in Payments
  BY <1>1, CurrentRow DEF Notifying, IInv, TaskShape, Snapshot
<1>3. /\ k = "scanEscrowCreated" =>
            Current(h).buyer \in Wallets /\ escrow[p][Current(h).buyer] # "none"
      /\ k = "scanEscrowReleased" =>
            /\ Current(h).buyer \in Wallets
            /\ escrow[p][Current(h).buyer] = "released"
      /\ k = "scanExpired" => p \in overdue
      /\ k \in {"shipPayment", "scanAutoRelease"} => row[p].escrowPda # NoWallet
      /\ k = "shipPayment" => row[p].shippedAt
  BY <1>1, <1>2, CurrentKnown DEF IInv, TaskFound
<1>4. row[p].escrowPda # NoWallet => Locked(p) # {}
  BY <1>2 DEF IInv, TypeOK, RowsConsistent, Row, Locked
<1>5. Backed(p, EventOf(k))
  <2>1. CASE k = "scanEscrowCreated"
    BY <1>3, <2>1 DEF EventOf, Backed, Locked
  <2>2. CASE k = "scanEscrowReleased"
    BY <1>3, <2>2 DEF EventOf, Backed, PaidOut
  <2>3. CASE k = "scanExpired"
    BY <1>3, <2>3 DEF EventOf, Backed
  <2>4. CASE k = "scanAutoRelease"
    BY <1>3, <1>4, <2>4 DEF EventOf, Backed
  <2>5. CASE k = "shipPayment"
    BY <1>3, <1>4, <2>5 DEF EventOf, Backed
  <2> QED
    BY <1>2, <2>1, <2>2, <2>3, <2>4, <2>5 DEF Scans
<1>6. ASSUME p \notin contended
      PROVE  EventOf(k) \in Shown(p)
  <2>1. row[p].status = LeftIn(k)
    BY <1>1, <1>2, <1>6, CurrentRow DEF AloneInv, SnapshotFits
  <2>2. CASE k = "scanEscrowCreated"
    <3>1. row[p].escrowPda # NoWallet
      BY <1>2, <2>1, <2>2 DEF LeftIn, IInv, RowsConsistent, Claimed
    <3> QED
      BY <2>2, <3>1, ShownIs DEF EventOf
  <2>3. CASE k = "shipPayment"
    BY <1>3, <2>3, ShownIs DEF EventOf
  <2>4. CASE k \in {"scanEscrowReleased", "scanExpired", "scanAutoRelease"}
    BY <2>1, <2>4, ShownIs DEF EventOf, LeftIn
  <2> QED
    BY <1>2, <2>2, <2>3, <2>4 DEF Scans
<1>7. EventOf(k) \in Events
  BY DEF EventOf, Events
<1> QED
  BY <1>1, <1>2, <1>5, <1>6, <1>7 DEF Change

-----------------------------------------------------------------------------
(* A handler and the run of its call of dispatch.                           *)

\* A handler that begins or goes on has nothing to tell yet, and nobody else
\* moves.
LEMMA HandlerMoves ==
    ASSUME NEW t \in Slots, IInv, Begins(t) \/ GoesOn(t)
    PROVE  /\ ~Notifying(t)
           /\ UNCHANGED sent
           /\ \A u \in Slots \ {t} : task'[u] = task[u]
<1>1. task \in [Slots -> Task]
  BY DEF IInv, TypeOK
<1>2. CASE Begins(t)
  <2>1. /\ \E kind, pc, snapshots : Run(t, kind, pc, snapshots)
        /\ UNCHANGED sent
    BY <1>2 DEF Begins, BuildEscrowBegin, ShipBegin, ScanStart
  <2>2. task[t] = Idle /\ \E r : task' = [task EXCEPT ![t] = r]
    BY <2>1 DEF Run
  <2> QED
    BY <1>1, <2>1, <2>2 DEF Notifying, Idle
<1>3. CASE GoesOn(t)
  <2>1. CASE BuildEscrowFinish(t) \/ ShipWrite(t)
    BY <1>1, <2>1 DEF BuildEscrowFinish, ShipWrite, At, Stop, GoTo, Notifying
  <2>2. CASE \E kind \in Scans : ScanFinds(t, kind) \/ ScanSkips(t, kind)
    <3>1. PICK kind \in Scans : ScanFinds(t, kind) \/ ScanSkips(t, kind)
      BY <2>2
    <3>2. /\ task[t].pc = "check" /\ UNCHANGED sent
          /\ \E r : task' = [task EXCEPT ![t] = r]
      BY <3>1 DEF ScanFinds, ScanSkips, At, GoTo, NextRow
    <3> QED
      BY <1>1, <3>2 DEF Notifying
  <2>3. CASE \/ MarkEscrowLocked(t) \/ MarkReleased(t)
             \/ MarkExpired(t) \/ MarkAutoReleased(t)
    BY <1>1, <2>3 DEF MarkEscrowLocked, MarkReleased, MarkExpired,
                      MarkAutoReleased, ScanUpdates, At, GoTo, Notifying
  <2> QED
    BY <1>3, <2>1, <2>2, <2>3 DEF GoesOn
<1> QED
  BY <1>2, <1>3

\* What is told of a row stays told as long as no handler leaves a change
\* untold without a trace.
LEMMA ToldStays ==
    ASSUME IInv, [Next]_vars, ShownTold, lost \subseteq lost',
           \A p \in Payments : sent[p] \subseteq sent'[p],
           \A h \in Slots : Notifying(h) =>
               \/ Notifying(h)' /\ Change(h)' = Change(h)
               \/ Change(h) \in lost'
               \/ Change(h)[2] \in sent'[Change(h)[1]]
    PROVE  ShownTold'
<1> SUFFICES ASSUME NEW p \in Payments, NEW event \in Shown(p)'
             PROVE  \/ event \in sent'[p]
                    \/ <<p, event>> \in lost'
                    \/ \E h \in Slots :
                          Notifying(h)' /\ Change(h)' = <<p, event>>
  BY DEF ShownTold
<1>1. CASE event \notin Shown(p)
  BY <1>1, ShownByHandlers
<1>2. CASE event \in Shown(p)
  <2>1. CASE event \in sent[p] \/ <<p, event>> \in lost
    BY <2>1
  <2>2. ASSUME NEW h \in Slots, Notifying(h), Change(h) = <<p, event>>
        PROVE  \/ event \in sent'[p]
               \/ <<p, event>> \in lost'
               \/ Notifying(h)' /\ Change(h)' = <<p, event>>
    <3>1. Change(h)[1] = p /\ Change(h)[2] = event
      BY <2>2
    <3> QED
      BY <2>2, <3>1
  <2> QED
    BY <1>2, <2>1, <2>2 DEF ShownTold
<1> QED
  BY <1>1, <1>2

\* A dispatch that is not there yet stays on its way.
LEMMA ReachedStays ==
    ASSUME Reached, UNCHANGED addressed, lost \subseteq lost',
           \A id \in addressed : posts[id] > 0 => posts'[id] > 0,
           \A h \in Slots : \A id \in addressed \cap Unposted(h) :
               \/ id \in Unposted(h)'
               \/ posts'[id] > 0
               \/ ChangeOf(id[1]) \in lost'
    PROVE  Reached'
  BY DEF Reached, ChangeOf

\* A handler that does not move, nor its run.
LEMMA AwaitedStays ==
    ASSUME NEW h \in Slots, Awaited(h), task'[h] = task[h],
           call'[h] = call[h], run'[h] = run[h]
    PROVE  Awaited(h)' /\ Unposted(h)' = Unposted(h)
  BY DEF Awaited, Notifying, Change, ChangeOf, Current, Unposted,
         Hooks!Copied, Hooks!Idle

\* A handler without a call and without a run.
LEMMA NothingAwaited ==
    ASSUME NEW h \in Slots, call'[h] = Nothing, run'[h] = Hooks!Idle
    PROVE  Awaited(h)'
  BY DEF Awaited, Hooks!Copied, Hooks!Idle

\* What a run has not POSTed yet is among its copies.
LEMMA UnpostedCopied ==
    ASSUME NEW h \in Slots, Hooks!IInv, Awaited(h), NEW id \in Unposted(h)
    PROVE  /\ run[h] # Hooks!Idle
           /\ Notifying(h)
           /\ ChangeOf(id[1]) = Change(h)
<1>1. Hooks!TaskShape(h)
  BY DEF Hooks!IInv, Hooks!BackedInv
<1>2. run[h] # Hooks!Idle
  BY DEF Unposted, Hooks!Idle
<1>3. id \in Hooks!Copied(h)
  BY <1>1 DEF Unposted, Hooks!Copied, Hooks!TaskShape, Hooks!InHand
<1> QED
  BY <1>2, <1>3 DEF Awaited

\* The part of TellingInv that is about handlers and their runs.
Linked ==
    /\ call \in [Slots -> Calls \cup {Nothing}]
    /\ \A h \in Slots : Awaited(h)
    /\ Reached
    /\ ShownTold

\* Steps of the payments alone.
LEMMA PaymentsOnlyLinked ==
    ASSUME IInv, Linked, [Next]_vars, UNCHANGED <<hookVars, call, lost>>,
           \/ UNCHANGED <<task, sent>>
           \/ \E t \in Slots : Begins(t) \/ GoesOn(t)
    PROVE  Linked'
<1>1. /\ UNCHANGED <<run, posts, addressed, call, lost, sent>>
      /\ \A h \in Slots : Notifying(h) => task'[h] = task[h]
  BY HandlerMoves DEF hookVars
<1>2. ASSUME NEW h \in Slots
      PROVE  Awaited(h)'
  <2>1. CASE Notifying(h)
    BY <1>1, <2>1, AwaitedStays DEF Linked
  <2>2. CASE ~Notifying(h)
    <3>1. call[h] = Nothing /\ run[h] = Hooks!Idle
      BY <2>2 DEF Linked, Awaited
    <3> QED
      BY <1>1, <3>1, NothingAwaited DEF Hooks!Idle
  <2> QED
    BY <2>1, <2>2
<1>3. Reached'
  BY <1>1 DEF Linked, Reached, ChangeOf, Unposted
<1>4. ShownTold'
  <2>1. \A h \in Slots : Notifying(h) => Notifying(h)' /\ Change(h)' = Change(h)
    BY <1>1 DEF Notifying, Change, Current
  <2> QED
    BY <1>1, <2>1, ToldStays DEF Linked
<1> QED
  BY <1>1, <1>2, <1>3, <1>4 DEF Linked

\* The call of dispatch: the run is for the change its handler tells of.
LEMMA DispatchCalledLinked ==
    ASSUME IInv, Linked, Hooks!IInv, [Next]_vars,
           NEW h \in Slots, DispatchCalled(h)
    PROVE  Linked'
<1>1. PICK c \in Open(Change(h)) :
          /\ Hooks!DispatchStart(h, c)
          /\ call' = [call EXCEPT ![h] = c]
  BY DEF DispatchCalled
<1>2. /\ Notifying(h) /\ UNCHANGED <<vars, lost>>
      /\ c \in Calls /\ ChangeOf(c) = Change(h)
  BY DEF DispatchCalled, Open, ChangeOf
<1>3. UNCHANGED <<task, sent, row, posts>>
  BY <1>1, <1>2 DEF vars, Hooks!DispatchStart
<1>4. /\ call \in [Slots -> Calls \cup {Nothing}]
      /\ run \in [Slots \cup Timers -> Hooks!Task]
      /\ c # Nothing
  BY <1>2, NothingAssumption
     DEF Linked, Hooks!IInv, Hooks!BackedInv, Hooks!TypeOK
<1>5. /\ call' \in [Slots -> Calls \cup {Nothing}]
      /\ call'[h] = c
      /\ \A u \in Slots \ {h} : call'[u] = call[u]
  BY <1>1, <1>2, <1>4
<1> DEFINE copies == {[id |-> id, attempt |-> 1] : id \in Hooks!Targets(c)}
<1>6. /\ run[h] = Hooks!Idle
      /\ run' = [run EXCEPT ![h] = [kind |-> "dispatch", pc |-> "next",
                                    cur |-> Nothing, todo |-> copies]]
      /\ addressed' = addressed \cup Hooks!Targets(c)
  BY <1>1 DEF Hooks!DispatchStart, Hooks!Run, Hooks!Idle
<1>7. /\ run'[h].kind = "dispatch" /\ run'[h].pc = "next"
      /\ run'[h].cur = Nothing /\ run'[h].todo = copies
      /\ \A u \in Slots \ {h} : run'[u] = run[u]
  BY <1>4, <1>6
<1>8. {d.id : d \in copies} = Hooks!Targets(c)
  <2>1. \A d \in copies : d.id \in Hooks!Targets(c)
    OBVIOUS
  <2>2. ASSUME NEW id \in Hooks!Targets(c)
        PROVE  \E d \in copies : d.id = id
    <3>1. [id |-> id, attempt |-> 1] \in copies
      OBVIOUS
    <3>2. [id |-> id, attempt |-> 1].id = id
      OBVIOUS
    <3> HIDE DEF copies
    <3> QED
      BY <3>1, <3>2
  <2>3. \A id \in Hooks!Targets(c) : id \in {d.id : d \in copies}
    <3> HIDE DEF copies
    <3> QED
      BY <2>2
  <2> QED
    BY <2>1, <2>3
<1> HIDE DEF copies
<1>9. /\ Hooks!Copied(h)' = Hooks!Targets(c)
      /\ Unposted(h)' = Hooks!Targets(c)
  BY <1>7, <1>8 DEF Hooks!Copied, Unposted
<1>10. Awaited(h)'
  <2>1. \A id \in Hooks!Targets(c) : id[1] = c
    BY DEF Hooks!Targets
  <2>2. Notifying(h)' /\ ChangeOf(c) = Change(h)'
    BY <1>2, <1>3 DEF Notifying, Change, Current
  <2> QED
    BY <1>4, <1>5, <1>7, <1>9, <2>1, <2>2 DEF Awaited, ChangeOf
<1>11. ASSUME NEW u \in Slots \ {h}
       PROVE  Awaited(u)' /\ Unposted(u)' = Unposted(u)
  BY <1>3, <1>5, <1>7, AwaitedStays DEF Linked
<1>12. Reached'
  <2> SUFFICES ASSUME NEW id \in addressed'
               PROVE  \/ posts[id] > 0
                      \/ ChangeOf(id[1]) \in lost
                      \/ \E u \in Slots : id \in Unposted(u)'
    BY <1>2, <1>3 DEF Reached, ChangeOf
  <2>1. CASE id \in Hooks!Targets(c)
    BY <1>9, <2>1
  <2>2. CASE id \in addressed
    <3>1. Unposted(h) = {}
      BY <1>6 DEF Unposted, Hooks!Idle
    <3> QED
      BY <1>11, <2>2, <3>1 DEF Linked, Reached
  <2> QED
    BY <1>6, <2>1, <2>2
<1>13. ShownTold'
  <2>1. \A u \in Slots : Notifying(u) => Notifying(u)' /\ Change(u)' = Change(u)
    BY <1>3 DEF Notifying, Change, Current
  <2> QED
    BY <1>2, <1>3, <2>1, ToldStays DEF Linked
<1> QED
  BY <1>5, <1>10, <1>11, <1>12, <1>13 DEF Linked

\* dispatch has returned and the change is told.
LEMMA ToldLinked ==
    ASSUME IInv, Linked, [Next]_vars, NEW h \in Slots, Told(h)
    PROVE  Linked'
<1>1. /\ Notifying(h) /\ Notify(h)
      /\ call' = [call EXCEPT ![h] = Nothing]
      /\ UNCHANGED <<run, posts, addressed, lost>>
      /\ run[h] = Hooks!Idle
  BY DEF Told, Linked, Awaited, hookVars
<1>2. /\ task \in [Slots -> Task]
      /\ sent \in [Payments -> SUBSET Events]
      /\ call \in [Slots -> Calls \cup {Nothing}]
  BY DEF IInv, TypeOK, Linked
<1>3. /\ call' \in [Slots -> Calls \cup {Nothing}]
      /\ call'[h] = Nothing
      /\ \A u \in Slots \ {h} : call'[u] = call[u]
  BY <1>1, <1>2
<1>4. \A u \in Slots \ {h} : task'[u] = task[u]
  BY <1>1, <1>2 DEF Notify, NextRow
<1>5. ASSUME NEW u \in Slots
      PROVE  Awaited(u)' /\ Unposted(u)' = Unposted(u)
  <2>1. CASE u = h
    BY <1>1, <1>3, <2>1, NothingAwaited DEF Hooks!Idle, Unposted
  <2>2. CASE u # h
    BY <1>1, <1>3, <1>4, <2>2, AwaitedStays DEF Linked
  <2> QED
    BY <2>1, <2>2
<1>6. Reached'
  BY <1>1, <1>5, ReachedStays DEF Linked
<1>7. ShownTold'
  <2>1. PICK p, event : p = Change(h)[1] /\ event = Change(h)[2]
    OBVIOUS
  <2>2. p \in Payments
    BY <1>1, <2>1, CurrentRow DEF Notifying, Change, Snapshot
  <2>3. sent' = [sent EXCEPT ![p] = @ \cup {event}]
    BY <1>1, <2>1 DEF Notify, Change
  <2>4. /\ \A q \in Payments : sent[q] \subseteq sent'[q]
        /\ Change(h)[2] \in sent'[Change(h)[1]]
    BY <1>2, <2>1, <2>2, <2>3
  <2>5. \A u \in Slots \ {h} :
            Notifying(u) => Notifying(u)' /\ Change(u)' = Change(u)
    BY <1>4 DEF Notifying, Change, Current
  <2>6. ShownTold /\ lost' = lost
    BY <1>1 DEF Linked
  <2>7. \A u \in Slots : Notifying(u) =>
            \/ Notifying(u)' /\ Change(u)' = Change(u)
            \/ Change(u)[2] \in sent'[Change(u)[1]]
    BY <2>4, <2>5
  <2> QED
    BY <2>4, <2>6, <2>7, ToldStays
<1> QED
  BY <1>3, <1>5, <1>6, <1>7 DEF Linked

\* A failure that ends a dispatch, or the handler, is noted in lost.
LEMMA FailsLinked ==
    ASSUME IInv, Linked, Hooks!IInv, [Next]_vars, NEW h \in Slots, Fails(h)
    PROVE  Linked'
<1>1. /\ HandlerFails(h)
      /\ call' = [call EXCEPT ![h] = Nothing]
      /\ lost' = IF Notifying(h) THEN lost \cup {Change(h)} ELSE lost
      /\ UNCHANGED <<posts, addressed, sent>>
  BY DEF Fails, hookVars, Hooks!RunFails, HandlerFails
<1>2. /\ task \in [Slots -> Task]
      /\ run \in [Slots \cup Timers -> Hooks!Task]
      /\ call \in [Slots -> Calls \cup {Nothing}]
  BY DEF IInv, TypeOK, Linked, Hooks!IInv, Hooks!BackedInv, Hooks!TypeOK
<1>3. /\ run'[h] = Hooks!Idle
      /\ \A u \in Slots \ {h} : run'[u] = run[u]
  <2>1. CASE run[h] = Hooks!Idle
    BY <2>1 DEF Fails, hookVars
  <2>2. CASE run[h] # Hooks!Idle
    <3>1. run' = [run EXCEPT ![h] = Hooks!Idle]
      BY <2>2 DEF Fails, Hooks!RunFails
    <3> QED
      BY <1>2, <3>1
  <2> QED
    BY <2>1, <2>2
<1>4. /\ call' \in [Slots -> Calls \cup {Nothing}]
      /\ call'[h] = Nothing
      /\ \A u \in Slots \ {h} : call'[u] = call[u]
  BY <1>1, <1>2
<1>5. \A u \in Slots \ {h} : task'[u] = task[u]
  BY <1>1, <1>2 DEF HandlerFails, NextRow, Stop
<1>6. Awaited(h)'
  BY <1>3, <1>4, NothingAwaited
<1>7. ASSUME NEW u \in Slots \ {h}
      PROVE  Awaited(u)' /\ Unposted(u)' = Unposted(u)
  BY <1>3, <1>4, <1>5, AwaitedStays DEF Linked
<1>8. Reached'
  <2>1. ASSUME NEW id \in Unposted(h)
        PROVE  ChangeOf(id[1]) \in lost'
    BY <1>1, <2>1, UnpostedCopied DEF Linked
  <2> QED
    BY <1>1, <1>7, <2>1, ReachedStays DEF Linked
<1>9. ShownTold'
  <2>1. \A u \in Slots \ {h} :
            Notifying(u) => Notifying(u)' /\ Change(u)' = Change(u)
    BY <1>5 DEF Notifying, Change, Current
  <2>2. Notifying(h) => Change(h) \in lost'
    BY <1>1
  <2>3. ShownTold /\ lost \subseteq lost'
    BY <1>1 DEF Linked
  <2> QED
    BY <1>1, <2>1, <2>2, <2>3, ToldStays
<1> QED
  BY <1>4, <1>6, <1>7, <1>8, <1>9 DEF Linked

\* The machine stops.
LEMMA MachineStopsLinked ==
    ASSUME IInv, Linked, Hooks!IInv, [Next]_vars, MachineStops
    PROVE  Linked'
<1>1. /\ call' = [h \in Slots |-> Nothing]
      /\ lost' = lost \cup {Change(h) : h \in {g \in Slots : Notifying(g)}}
      /\ UNCHANGED <<posts, addressed, sent>>
  BY DEF MachineStops, hookVars, vars, Hooks!ProcessStops, ProcessStops
<1>2. \A h \in Slots : run'[h] = Hooks!Idle
  BY DEF MachineStops, hookVars, Hooks!ProcessStops
<1>3. /\ call' \in [Slots -> Calls \cup {Nothing}]
      /\ \A h \in Slots : call'[h] = Nothing
  BY <1>1
<1>4. \A h \in Slots : Awaited(h)'
  BY <1>2, <1>3, NothingAwaited
<1>5. \A h \in Slots : Notifying(h) => Change(h) \in lost'
  BY <1>1
<1>6. Reached'
  <2>1. \A h \in Slots : \A id \in Unposted(h) : ChangeOf(id[1]) \in lost'
    BY <1>5, UnpostedCopied DEF Linked
  <2> QED
    BY <1>1, <2>1, ReachedStays DEF Linked
<1>7. ShownTold'
  BY <1>1, <1>5, ToldStays DEF Linked
<1> QED
  BY <1>3, <1>4, <1>6, <1>7 DEF Linked

\* A run that goes on is still the one its handler awaits.
LEMMA AwaitedGoesOn ==
    ASSUME NEW t \in Slots, Awaited(t), task'[t] = task[t], call'[t] = call[t],
           run[t] # Hooks!Idle,
           run'[t] = Hooks!Idle \/ run'[t].kind = run[t].kind,
           Hooks!Copied(t)' \subseteq Hooks!Copied(t)
    PROVE  Awaited(t)'
  BY DEF Awaited, Notifying, Change, ChangeOf, Current

\* POSTs are not forgotten, and one is counted at once.
LEMMA PostCounts ==
    ASSUME Hooks!IInv, NEW t, NEW answer \in {"ok", "failed"},
           Hooks!Post(t, answer)
    PROVE  /\ \A id \in Hooks!Deliveries : posts[id] > 0 => posts'[id] > 0
           /\ run[t].cur.id \in Hooks!Deliveries => posts'[run[t].cur.id] > 0
<1>1. /\ posts \in [Hooks!Deliveries -> 0..(MaxAttempts + 1)]
      /\ MaxAttempts \in Nat \ {0}
  BY AttemptsAssumption
     DEF Hooks!IInv, Hooks!BackedInv, Hooks!TypeOK, Hooks!PostsBound
<1>2. posts' = [posts EXCEPT ![run[t].cur.id] =
                    IF posts[run[t].cur.id] = MaxAttempts + 1
                    THEN posts[run[t].cur.id] ELSE posts[run[t].cur.id] + 1]
  BY DEF Hooks!Post, Hooks!PostsBound
<1>3. ASSUME NEW id \in Hooks!Deliveries
      PROVE  /\ id = run[t].cur.id => posts'[id] > 0
             /\ id # run[t].cur.id => posts'[id] = posts[id]
  BY <1>1, <1>2
<1> QED
  BY <1>1, <1>3

\* A step of the run of a handler.
LEMMA HandlersRunStep ==
    ASSUME Hooks!IInv, NEW t \in Slots, Awaited(t), RunStep(t)
    PROVE  /\ Awaited(t)'
           /\ \A id \in Unposted(t) : id \in Unposted(t)' \/ posts'[id] > 0
           /\ \A id \in Hooks!Deliveries : posts[id] > 0 => posts'[id] > 0
           /\ \A u \in (Slots \cup Timers) \ {t} : run'[u] = run[u]
<1>1. /\ run \in [Slots \cup Timers -> Hooks!Task]
      /\ Hooks!TaskShape(t)
  BY DEF Hooks!IInv, Hooks!BackedInv, Hooks!TypeOK
<1>2. UNCHANGED <<task, call, lost>> /\ t \notin Timers
  BY RunsAssumption DEF RunStep, HooksOnly, vars
<1>3. ASSUME NEW d \in run[t].todo, Hooks!DispatchInsert(t, d)
      PROVE  /\ Awaited(t)'
             /\ \A id \in Unposted(t) : id \in Unposted(t)' \/ posts'[id] > 0
             /\ UNCHANGED posts
             /\ \A u \in (Slots \cup Timers) \ {t} : run'[u] = run[u]
  <2>1. /\ run[t].kind = "dispatch" /\ run[t].pc = "next" /\ UNCHANGED posts
        /\ run' = [run EXCEPT ![t] =
                      [kind |-> run[t].kind, pc |-> "post", cur |-> d,
                       todo |-> run[t].todo \ {d}]]
    BY <1>3 DEF Hooks!DispatchInsert, Hooks!At, Hooks!TakeUp, Hooks!history
  <2>2. /\ run'[t].kind = run[t].kind /\ run'[t].pc = "post"
        /\ run'[t].cur = d /\ run'[t].todo = run[t].todo \ {d}
        /\ \A u \in (Slots \cup Timers) \ {t} : run'[u] = run[u]
    BY <1>1, <2>1
  <2>3. Hooks!Copied(t)' \subseteq Hooks!Copied(t)
    BY <2>2 DEF Hooks!Copied
  <2>4. \A id \in Unposted(t) : id \in Unposted(t)'
    BY <2>1, <2>2 DEF Unposted
  <2>5. run[t] # Hooks!Idle
    BY <2>1 DEF Hooks!Idle
  <2>6. Awaited(t)'
    BY <1>2, <2>2, <2>3, <2>5, AwaitedGoesOn
  <2> QED
    BY <2>1, <2>2, <2>4, <2>6
<1>4. ASSUME NEW d, Hooks!RetrySkip(t, d) \/ Hooks!RetryClaim(t, d)
      PROVE  FALSE
  <2>1. run[t].kind = "retries"
    BY <1>4 DEF Hooks!RetrySkip, Hooks!RetryClaim, Hooks!At
  <2> QED
    BY <2>1 DEF Awaited, Hooks!Idle
<1>5. ASSUME NEW answer \in {"ok", "failed"}, Hooks!Post(t, answer)
      PROVE  /\ Awaited(t)'
             /\ \A id \in Unposted(t) : id \in Unposted(t)' \/ posts'[id] > 0
             /\ \A u \in (Slots \cup Timers) \ {t} : run'[u] = run[u]
  <2>1. run[t].pc = "post" /\ run' = [run EXCEPT ![t].pc = answer]
    BY <1>5 DEF Hooks!Post
  <2>2. /\ run'[t].kind = run[t].kind /\ run'[t].pc = answer
        /\ run'[t].cur = run[t].cur /\ run'[t].todo = run[t].todo
        /\ \A u \in (Slots \cup Timers) \ {t} : run'[u] = run[u]
    BY <1>1, <2>1 DEF Hooks!Task
  <2>3. Hooks!Copied(t)' = Hooks!Copied(t)
    BY <2>2 DEF Hooks!Copied
  <2>4. run[t].cur.id \in Hooks!Deliveries
    BY <1>1, <2>1 DEF Hooks!TaskShape, Hooks!InHand, Hooks!Task, Hooks!Copy
  <2>5. \A id \in Unposted(t) : id \in Unposted(t)' \/ id = run[t].cur.id
    BY <2>2 DEF Unposted
  <2>6. run[t] # Hooks!Idle
    BY <2>1 DEF Hooks!Idle
  <2>7. Awaited(t)'
    BY <1>2, <2>2, <2>3, <2>6, AwaitedGoesOn
  <2> QED
    BY <1>5, <2>2, <2>4, <2>5, <2>7, PostCounts
<1>6. ASSUME Hooks!SaveOutcome(t)
      PROVE  /\ Awaited(t)'
             /\ \A id \in Unposted(t) : id \in Unposted(t)' \/ posts'[id] > 0
             /\ UNCHANGED posts
             /\ \A u \in (Slots \cup Timers) \ {t} : run'[u] = run[u]
  <2>1. /\ run[t].pc \in {"ok", "failed"} /\ UNCHANGED posts
        /\ run' = [run EXCEPT ![t] =
                      IF run[t].todo = {} THEN Hooks!Idle
                      ELSE [kind |-> run[t].kind, pc |-> "next",
                            cur |-> Nothing, todo |-> run[t].todo]]
    BY <1>6 DEF Hooks!SaveOutcome, Hooks!Continue, Hooks!history
  <2>2. /\ run'[t] = Hooks!Idle \/ run'[t].kind = run[t].kind
        /\ run'[t].pc \in {"next", "idle"}
        /\ run'[t].cur = Nothing /\ run'[t].todo = run[t].todo
        /\ \A u \in (Slots \cup Timers) \ {t} : run'[u] = run[u]
    BY <1>1, <2>1 DEF Hooks!Idle
  <2>3. Hooks!Copied(t)' \subseteq Hooks!Copied(t)
    BY <2>2 DEF Hooks!Copied
  <2>4. \A id \in Unposted(t) : id \in Unposted(t)'
    BY <2>1, <2>2 DEF Unposted
  <2>5. run[t] # Hooks!Idle
    BY <2>1 DEF Hooks!Idle
  <2>6. Awaited(t)'
    BY <1>2, <2>2, <2>3, <2>5, AwaitedGoesOn
  <2> QED
    BY <2>1, <2>2, <2>4, <2>6
<1>7. \/ \E d \in run[t].todo : Hooks!DispatchInsert(t, d)
      \/ \E d : Hooks!RetrySkip(t, d) \/ Hooks!RetryClaim(t, d)
      \/ \E answer \in {"ok", "failed"} : Hooks!Post(t, answer)
      \/ Hooks!SaveOutcome(t)
  BY <1>2 DEF RunStep, HooksOnly, Hooks!Claims
<1> QED
  BY <1>3, <1>4, <1>5, <1>6, <1>7, PostCounts

\* A step of the run of a timer.
LEMMA TimersRunStep ==
    ASSUME Hooks!IInv, NEW t \in Timers, RunStep(t)
    PROVE  /\ \A id \in Hooks!Deliveries : posts[id] > 0 => posts'[id] > 0
           /\ \A u \in Slots : run'[u] = run[u]
<1>1. run \in [Slots \cup Timers -> Hooks!Task] /\ t \notin Slots
  BY RunsAssumption DEF Hooks!IInv, Hooks!BackedInv, Hooks!TypeOK
<1>2. \/ \E d : \/ Hooks!DispatchInsert(t, d)
                \/ Hooks!RetrySkip(t, d)
                \/ Hooks!RetryClaim(t, d)
      \/ \E answer \in {"ok", "failed"} : Hooks!Post(t, answer)
      \/ Hooks!SaveOutcome(t)
      \/ Hooks!RunFails(t)
  BY DEF RunStep, HooksOnly, Hooks!Claims
<1>3. ASSUME NEW d, \/ Hooks!DispatchInsert(t, d)
                    \/ Hooks!RetrySkip(t, d)
                    \/ Hooks!RetryClaim(t, d)
      PROVE  UNCHANGED posts /\ \A u \in Slots : run'[u] = run[u]
  BY <1>1, <1>3 DEF Hooks!DispatchInsert, Hooks!RetrySkip, Hooks!RetryClaim,
                    Hooks!TakeUp, Hooks!Continue, Hooks!history
<1>4. ASSUME NEW answer \in {"ok", "failed"}, Hooks!Post(t, answer)
      PROVE  \A u \in Slots : run'[u] = run[u]
  BY <1>1, <1>4 DEF Hooks!Post
<1>5. CASE Hooks!SaveOutcome(t) \/ Hooks!RunFails(t)
  BY <1>1, <1>5 DEF Hooks!SaveOutcome, Hooks!RunFails, Hooks!Continue,
                    Hooks!history
<1> QED
  BY <1>2, <1>3, <1>4, <1>5, PostCounts

\* Steps of the webhooks that leave the handlers' runs alone.
LEMMA OtherHooksStep ==
    ASSUME Hooks!IInv,
           \/ \E t \in Timers : Hooks!RetryStart(t)
           \/ \E id \in Hooks!Deliveries : Hooks!RetryBecomesDue(id)
           \/ Hooks!Merchant
    PROVE  UNCHANGED <<posts, addressed>> /\ \A u \in Slots : run'[u] = run[u]
<1>1. run \in [Slots \cup Timers -> Hooks!Task]
  BY DEF Hooks!IInv, Hooks!BackedInv, Hooks!TypeOK
<1>2. ASSUME NEW t \in Timers, Hooks!RetryStart(t)
      PROVE  UNCHANGED <<posts, addressed>> /\ \A u \in Slots : run'[u] = run[u]
  BY <1>1, <1>2, RunsAssumption DEF Hooks!RetryStart, Hooks!Run
<1>3. CASE \E id \in Hooks!Deliveries : Hooks!RetryBecomesDue(id)
  BY <1>3 DEF Hooks!RetryBecomesDue, Hooks!history
<1>4. CASE Hooks!Merchant
  BY <1>4 DEF Hooks!Merchant, Hooks!CreateEndpoint, Hooks!UpdateBegin,
              Hooks!UpdateFinish, Hooks!DeleteEndpoint,
              Hooks!AddSubscription, Hooks!RemoveSubscription, Hooks!history
<1> QED
  BY <1>2, <1>3, <1>4

\* Steps of the webhooks alone.
LEMMA HooksOnlyLinked ==
    ASSUME IInv, Linked, Hooks!IInv, [Next]_vars,
           \/ \E t \in Slots \cup Timers : RunStep(t)
           \/ \E t \in Timers : HooksOnly(Hooks!RetryStart(t))
           \/ \E id \in Hooks!Deliveries : HooksOnly(Hooks!RetryBecomesDue(id))
           \/ HooksOnly(Hooks!Merchant)
    PROVE  Linked'
<1>1. UNCHANGED <<task, sent, call, lost>>
  BY DEF RunStep, HooksOnly, vars
<1>2. UNCHANGED addressed
  BY OtherHooksStep
     DEF RunStep, HooksOnly, Hooks!DispatchInsert, Hooks!RetrySkip,
         Hooks!Claims, Hooks!RetryClaim, Hooks!Post, Hooks!SaveOutcome,
         Hooks!RunFails, Hooks!history
<1>3. addressed \subseteq Hooks!Deliveries
  BY DEF Hooks!IInv, Hooks!BackedInv, Hooks!TypeOK
<1>4. /\ \A id \in Hooks!Deliveries : posts[id] > 0 => posts'[id] > 0
      /\ \A h \in Slots :
            \/ run'[h] = run[h]
            \/ /\ Awaited(h)'
               /\ \A id \in Unposted(h) : id \in Unposted(h)' \/ posts'[id] > 0
  <2>1. CASE \E t \in Slots : RunStep(t)
    BY <2>1, HandlersRunStep DEF Linked
  <2>2. CASE \E t \in Timers : RunStep(t)
    BY <2>2, TimersRunStep
  <2>3. CASE \/ \E t \in Timers : HooksOnly(Hooks!RetryStart(t))
             \/ \E id \in Hooks!Deliveries : HooksOnly(Hooks!RetryBecomesDue(id))
             \/ HooksOnly(Hooks!Merchant)
    BY <2>3, OtherHooksStep DEF HooksOnly
  <2> QED
    BY <2>1, <2>2, <2>3
<1>5. ASSUME NEW h \in Slots
      PROVE  /\ Awaited(h)'
             /\ \A id \in Unposted(h) : id \in Unposted(h)' \/ posts'[id] > 0
  <2>1. CASE run'[h] = run[h]
    BY <1>1, <2>1, AwaitedStays DEF Linked
  <2> QED
    BY <1>4, <2>1
<1>6. Reached'
  BY <1>1, <1>2, <1>3, <1>4, <1>5, ReachedStays DEF Linked
<1>7. ShownTold'
  <2>1. \A h \in Slots : Notifying(h) => Notifying(h)' /\ Change(h)' = Change(h)
    BY <1>1 DEF Notifying, Change, Current
  <2> QED
    BY <1>1, <2>1, ToldStays DEF Linked
<1> QED
  BY <1>1, <1>5, <1>6, <1>7 DEF Linked

-----------------------------------------------------------------------------
(* The invariant, and what a merchant can rely on.                          *)

\* Only the handlers' calls of dispatch are new to it.
LEMMA DispatchedMoves ==
    ASSUME [SystemNext]_systemVars
    PROVE  UNCHANGED dispatched \/ \E h \in Slots : DispatchCalled(h)
<1>1. CASE UNCHANGED systemVars
  BY <1>1 DEF systemVars, hookVars
<1>2. CASE SystemNext
  <2>1. CASE \/ PaymentsOnly(Environment)
             \/ \E h \in Slots : \/ PaymentsOnly(Begins(h) \/ GoesOn(h))
                                 \/ Told(h)
    BY <2>1 DEF PaymentsOnly, Told, hookVars
  <2>2. CASE \E h \in Slots : Fails(h)
    BY <2>2 DEF Fails, Hooks!RunFails, hookVars
  <2>3. CASE MachineStops
    BY <2>3 DEF MachineStops, Hooks!ProcessStops, hookVars
  <2>4. ASSUME NEW t \in Slots \cup Timers, RunStep(t)
        PROVE  UNCHANGED dispatched
    BY <2>4 DEF RunStep, HooksOnly, Hooks!DispatchInsert, Hooks!RetrySkip,
                Hooks!Claims, Hooks!RetryClaim, Hooks!Post,
                Hooks!SaveOutcome, Hooks!RunFails
  <2>5. CASE \/ \E t \in Timers : HooksOnly(Hooks!RetryStart(t))
             \/ \E id \in Hooks!Deliveries : HooksOnly(Hooks!RetryBecomesDue(id))
    BY <2>5 DEF HooksOnly, Hooks!RetryStart, Hooks!RetryBecomesDue
  <2>6. CASE HooksOnly(Hooks!Merchant)
    BY <2>6 DEF HooksOnly, Hooks!Merchant, Hooks!CreateEndpoint,
                Hooks!UpdateBegin, Hooks!UpdateFinish, Hooks!DeleteEndpoint,
                Hooks!AddSubscription, Hooks!RemoveSubscription
  <2> QED
    BY <1>2, <2>1, <2>2, <2>3, <2>4, <2>5, <2>6 DEF SystemNext
<1> QED
  BY <1>1, <1>2

\* A call of dispatch is for a true change, and true changes stay true.
LEMMA CallsStayTruthful ==
    ASSUME IInv, AloneInv, Hooks!IInv, CallsTruthful,
           [SystemNext]_systemVars
    PROVE  CallsTruthful'
<1> SUFFICES ASSUME NEW c \in dispatched'
             PROVE  /\ Backed(c[1], c[2])'
                    /\ c[1] \in contended' \/ c[2] \in Shown(c[1])'
  BY DEF CallsTruthful
<1>1. [Next]_vars
  BY StepsOfPayments
<1>2. dispatched \subseteq Calls
  BY DEF Hooks!IInv, Hooks!BackedInv, Hooks!TypeOK
<1>3. /\ c[1] \in Payments /\ c[2] \in Events
      /\ Backed(c[1], c[2])
      /\ c[1] \in contended \/ c[2] \in Shown(c[1])
  <2>1. CASE c \in dispatched
    BY <1>2, <2>1, TypesAssumption DEF CallsTruthful, Calls
  <2>2. CASE c \notin dispatched
    <3>1. PICK h \in Slots : DispatchCalled(h)
      BY <2>2, DispatchedMoves
    <3>2. c \in Open(Change(h))
      BY <2>2, <3>1 DEF DispatchCalled, Hooks!DispatchStart
    <3>3. c[1] = Change(h)[1] /\ c[2] = Change(h)[2]
      BY <3>2 DEF Open
    <3>4. Notifying(h)
      BY <3>1 DEF DispatchCalled
    <3> QED
      BY <3>3, <3>4, NotifyingTrue
  <2> QED
    BY <2>1, <2>2
<1>4. Backed(c[1], c[2])'
  BY <1>1, <1>3, BackedStays
<1>5. c[1] \in contended' \/ c[2] \in Shown(c[1])'
  BY <1>1, <1>3, WorldMoves, ShownStays
<1> QED
  BY <1>4, <1>5

\* The initial states satisfy the invariant.
LEMMA InitTelling == SystemInit => TellingInv
<1> SUFFICES ASSUME SystemInit
             PROVE  TellingInv
  OBVIOUS
<1>1. /\ dispatched = {} /\ addressed = {}
      /\ call = [h \in Slots |-> Nothing]
      /\ run = [t \in Slots \cup Timers |-> Hooks!Idle]
      /\ row = [p \in Payments |-> AbsentRow]
  BY DEF SystemInit, Init, Hooks!Init
<1>2. \A h \in Slots : Awaited(h)
  BY <1>1 DEF Awaited, Hooks!Copied, Hooks!Idle
<1>3. CallsTruthful /\ Reached
  BY <1>1 DEF CallsTruthful, Reached
<1>4. \A p \in Payments : Shown(p) = {}
  BY <1>1 DEF Shown, AbsentRow
<1>5. ShownTold
  BY <1>4 DEF ShownTold
<1> QED
  BY <1>1, <1>2, <1>3, <1>5 DEF TellingInv

\* Every step preserves it.
LEMMA StepTelling ==
    IInv /\ AloneInv /\ Hooks!IInv /\ TellingInv /\ [SystemNext]_systemVars
        => TellingInv'
<1> SUFFICES ASSUME IInv, AloneInv, Hooks!IInv, TellingInv,
                    [SystemNext]_systemVars
             PROVE  TellingInv'
  OBVIOUS
<1>1. [Next]_vars
  BY StepsOfPayments
<1>2. CallsTruthful /\ Linked
  BY DEF TellingInv, Linked
<1>3. CallsTruthful'
  BY <1>2, CallsStayTruthful
<1>4. Linked'
  <2>1. CASE UNCHANGED systemVars
    <3>1. UNCHANGED <<hookVars, call, lost, task, sent>>
      BY <2>1 DEF systemVars, vars
    <3> QED
      BY <1>1, <1>2, <3>1, PaymentsOnlyLinked
  <2>2. CASE SystemNext
    <3>1. CASE PaymentsOnly(Environment)
      <4>1. UNCHANGED <<hookVars, call, lost, task, sent>>
        BY <3>1 DEF PaymentsOnly, Environment, CreatePaymentQr,
                    GetConfirmTransaction, ExpiryPasses, AutoReleasePasses,
                    Sign
      <4> QED
        BY <1>1, <1>2, <4>1, PaymentsOnlyLinked
    <3>2. ASSUME NEW h \in Slots, PaymentsOnly(Begins(h) \/ GoesOn(h))
          PROVE  Linked'
      BY <1>1, <1>2, <3>2, PaymentsOnlyLinked DEF PaymentsOnly
    <3>3. ASSUME NEW h \in Slots, DispatchCalled(h) \/ Told(h) \/ Fails(h)
          PROVE  Linked'
      BY <1>1, <1>2, <3>3, DispatchCalledLinked, ToldLinked, FailsLinked
    <3>4. CASE \/ \E t \in Slots \cup Timers : RunStep(t)
               \/ \E t \in Timers : HooksOnly(Hooks!RetryStart(t))
               \/ \E id \in Hooks!Deliveries :
                     HooksOnly(Hooks!RetryBecomesDue(id))
               \/ HooksOnly(Hooks!Merchant)
      BY <1>1, <1>2, <3>4, HooksOnlyLinked
    <3>5. CASE MachineStops
      BY <1>1, <1>2, <3>5, MachineStopsLinked
    <3> QED
      BY <2>2, <3>1, <3>2, <3>3, <3>4, <3>5 DEF SystemNext
  <2> QED
    BY <2>1, <2>2
<1> QED
  BY <1>3, <1>4 DEF TellingInv, Linked

\* The inductive invariant of the system: those of the components, and what
\* links a handler to its call of dispatch and the run of it.
THEOREM SystemInvariant ==
    System => [](IInv /\ AloneInv /\ Hooks!IInv /\ TellingInv)
<1>1. SystemInit => TellingInv
  BY InitTelling
<1>2. IInv /\ AloneInv /\ Hooks!IInv /\ TellingInv /\ [SystemNext]_systemVars
          => TellingInv'
  BY StepTelling
<1> QED
  BY <1>1, <1>2, ComponentInvariants, PTL DEF System

\* The composed system keeps both promises at once: every update of a payment
\* row is one of PaymentLedger, and every step of the webhooks, those that a
\* handler of payments calls for among them, is one of DeliveryQueue
\* (payments.service.ts, payments-watcher.service.ts and
\* webhook-delivery.service.ts together).
THEOREM SystemImplements ==
    System => ImplementsLedger /\ HooksProofs!ImplementsQueue
<1>1. HooksProofs!Spec => HooksProofs!ImplementsQueue
  BY HooksAssumptions, HooksProofs!QueueImplemented
<1> QED
  BY <1>1, SameSpec, PaymentsWithin, HooksWithin, LedgerImplemented

\* Whatever a merchant is POSTed, at the first attempt or in a retry, the
\* chain or the clock backs, and the row shows the change (scans and
\* shipPayment, then webhook-delivery.service.ts dispatch and retries).
THEOREM PostsAreTruthful == System => []PostsTruthful
<1>1. ASSUME Hooks!IInv, TellingInv
      PROVE  PostsTruthful
  <2> SUFFICES ASSUME NEW id \in Hooks!Deliveries, posts[id] > 0
               PROVE  /\ Backed(id[1][1], id[1][2])
                      /\ \/ id[1][1] \in contended
                         \/ id[1][2] \in Shown(id[1][1])
    BY DEF PostsTruthful
  <2>1. id[1] \in dispatched
    BY <1>1 DEF Hooks!IInv, Hooks!CountedInv, Hooks!TracesDispatched
  <2> QED
    BY <1>1, <2>1 DEF TellingInv, CallsTruthful
<1> QED
  BY <1>1, SystemInvariant, PTL

\* No change of a payment is forgotten unless a failure cut its notification
\* short: it is being told, or it has been, after a POST to every endpoint of
\* its dispatch, and what these POSTs left over waits for a retry.
THEOREM ChangesAreTold == System => []ChangesTold
<1>1. ASSUME Hooks!IInv, TellingInv
      PROVE  ChangesTold
  <2> SUFFICES ASSUME NEW p \in Payments, NEW event \in Shown(p),
                      <<p, event>> \notin lost,
                      \A h \in Slots :
                          ~(Notifying(h) /\ Change(h) = <<p, event>>)
               PROVE  /\ event \in sent[p]
                      /\ \A id \in addressed :
                            <<id[1][1], id[1][2]>> = <<p, event>> =>
                               /\ posts[id] > 0
                               /\ \/ Settled(id)
                                  \/ delivery[id].retry # "none"
                                  \/ \E t \in Timers : id \in Hooks!Held(t)
    BY DEF ChangesTold
  <2>1. event \in sent[p]
    BY <1>1 DEF TellingInv, ShownTold
  <2> SUFFICES ASSUME NEW id \in addressed, ChangeOf(id[1]) = <<p, event>>
               PROVE  /\ posts[id] > 0
                      /\ \/ Settled(id)
                         \/ delivery[id].retry # "none"
                         \/ \E t \in Timers : id \in Hooks!Held(t)
    BY <2>1 DEF ChangeOf
  <2>2. ASSUME NEW h \in Slots
        PROVE  id \notin Unposted(h) /\ id \notin Hooks!Held(h)
    <3>1. Awaited(h) /\ Hooks!TaskShape(h)
      BY <1>1 DEF TellingInv, Hooks!IInv, Hooks!BackedInv
    <3>2. id \in Hooks!Held(h) => id \in Hooks!Copied(h) /\ run[h] # Hooks!Idle
      BY <3>1 DEF Hooks!Held, Hooks!Copied, Hooks!TaskShape, Hooks!InHand,
                  Hooks!Idle
    <3>3. id \in Hooks!Copied(h) /\ run[h] # Hooks!Idle
              => Notifying(h) /\ Change(h) = <<p, event>>
      BY <3>1 DEF Awaited
    <3> QED
      BY <1>1, <3>1, <3>2, <3>3, UnpostedCopied
  <2>3. posts[id] > 0
    BY <1>1, <2>2 DEF TellingInv, Reached
  <2>4. CASE id \in dropped
    BY <2>3, <2>4 DEF Settled
  <2>5. CASE id \notin dropped
    <3>1. \/ delivery[id].delivered
          \/ delivery[id].retry # "none"
          \/ \E t \in Slots \cup Timers : id \in Hooks!Held(t)
          \/ posts[id] >= MaxAttempts
      BY <1>1, <2>5 DEF Hooks!IInv, Hooks!BackedInv, Hooks!Accounted
    <3> QED
      BY <2>2, <2>3, <3>1 DEF Settled
  <2> QED
    BY <2>4, <2>5
<1> QED
  BY <1>1, SystemInvariant, PTL
=============================================================================
