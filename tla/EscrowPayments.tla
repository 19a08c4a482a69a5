--------------------------- MODULE EscrowPayments ---------------------------
(***************************************************************************)
(* The escrow payment flow: payments.service.ts (requests of sellers and   *)
(* buyers), payments-watcher.service.ts (four cron scans) and the Solana   *)
(* escrow program as solana.service.ts uses it.                            *)
(*                                                                         *)
(* A handler reads rows, awaits, and then writes columns of them with      *)
(* UPDATE ... WHERE id = ?, whatever the row has become in the meantime.   *)
(* Every handler in flight is therefore a task with the rows it read; one  *)
(* action is what happens between two awaits.  Several handlers, and       *)
(* several runs of one scan (cron does not wait for the previous tick),    *)
(* can be in flight at a time.                                             *)
(***************************************************************************)
EXTENDS Naturals, Sequences

CONSTANTS
    Payments,       \* rows that may be created
    Wallets,        \* buyers' wallets
    NoWallet,       \* null in buyer_wallet or escrow_pda
    Slots,          \* handlers that may be in flight at the same time
    BatchSize,      \* BATCH_SIZE, `take` of every scan
    PollEnabled     \* PAYMENT_POLL_ENABLED is not 'false'

ASSUME NoWalletAssumption == NoWallet \notin Wallets
ASSUME BatchSizeAssumption == BatchSize \in Nat \ {0}
ASSUME PollAssumption == PollEnabled \in BOOLEAN

VARIABLES
    row,        \* the payments table
    older,      \* <<p, q>>: updated_at of p is before updated_at of q
    overdue,    \* payments whose expires_at has passed
    autoDue,    \* payments whose auto_release_at has passed
    escrow,     \* escrow[p][w]: account of the PDA of wallet w, payment p
    signable,   \* transactions answered to wallets, to be signed or not
    task,       \* what each slot is running
    sent,       \* webhook events dispatched for each payment
    contended   \* history: payments that two handlers held at one time

vars == <<row, older, overdue, autoDue, escrow, signable, task, sent,
          contended>>

-----------------------------------------------------------------------------
Status == {"absent", "pending", "escrow_locked", "shipped", "released",
           "auto_released", "expired"}

\* An escrow PDA is derived from the buyer and the transaction id, so that
\* for a given payment the wallet identifies it: escrowPda holds the wallet.
\* paid_at and blockchain_tx_create are written with escrowPda, auto_release_at
\* with shippedAt, released_at with its status; a null means "not yet".
Row == [status : Status,
        buyerWallet : Wallets \cup {NoWallet},
        escrowPda : Wallets \cup {NoWallet},
        shippedAt : BOOLEAN]

AbsentRow == [status |-> "absent", buyerWallet |-> NoWallet,
              escrowPda |-> NoWallet, shippedAt |-> FALSE]

EscrowState == {"none", "locked", "released"}

Transaction == [ix : {"crear_escrow", "liberar_escrow"},
                p : Payments, w : Wallets]

Events == {"escrow.locked", "escrow.shipped", "escrow.released",
           "escrow.auto_released", "payment.expired"}

Scans == {"scanEscrowCreated", "scanEscrowReleased", "scanExpired",
          "scanAutoRelease"}
Requests == {"buildEscrowTransaction", "shipPayment"}

\* What a handler remembers of a row: which one, the buyer's wallet as read
\* (for buildEscrowTransaction, the wallet of the request), and whether the
\* deadline it tests had passed at its own `now`.
Snapshot == [p : Payments, buyer : Wallets \cup {NoWallet}, due : BOOLEAN]

\* pc "check": about to examine Head(todo); "write": about to update its row;
\* "notify": about to dispatch the webhook of the update.
Task == [kind : Scans \cup Requests \cup {"none"},
         pc : {"idle", "check", "write", "notify"},
         todo : Seq(Snapshot)]

Idle == [kind |-> "none", pc |-> "idle", todo |-> <<>>]

TypeOK ==
    /\ row \in [Payments -> Row]
    /\ older \subseteq Payments \X Payments
    /\ overdue \subseteq Payments
    /\ autoDue \subseteq Payments
    /\ escrow \in [Payments -> [Wallets -> EscrowState]]
    /\ signable \subseteq Transaction
    /\ task \in [Slots -> Task]
    /\ sent \in [Payments -> SUBSET Events]
    /\ contended \subseteq Payments

Init ==
    /\ row = [p \in Payments |-> AbsentRow]
    /\ older = {}
    /\ overdue = {}
    /\ autoDue = {}
    /\ escrow = [p \in Payments |-> [w \in Wallets |-> "none"]]
    /\ signable = {}
    /\ task = [t \in Slots |-> Idle]
    /\ sent = [p \in Payments |-> {}]
    /\ contended = {}

-----------------------------------------------------------------------------
(* The database.                                                           *)

Exists(p) == row[p].status # "absent"

\* @UpdateDateColumn: the row just written is the latest one.
Touch(p) ==
    older' = {pq \in older : pq[1] # p /\ pq[2] # p}
             \cup {<<q, p>> : q \in {r \in Payments \ {p} : Exists(r)}}

\* Results of `find` with `take: BATCH_SIZE` and no `order`: as many of the
\* rows as fit, any of them, in any order.
Batches(rows) ==
    {s \in UNION {[1..k -> rows] : k \in 1..BatchSize} :
        /\ \A i, j \in DOMAIN s : s[i] = s[j] => i = j
        /\ Len(s) = BatchSize \/ \A r \in rows : \E i \in DOMAIN s : s[i] = r}

\* The same with `order: { updatedAt: 'ASC' }`.
OldestBatches(rows) ==
    {s \in Batches(rows) :
        \A i \in DOMAIN s : \A r \in rows :
            \/ \E j \in 1..i : s[j] = r
            \/ <<s[i], r>> \in older}

-----------------------------------------------------------------------------
(* Handlers in flight.                                                     *)

Current(t) == Head(task[t].todo)

\* The payments of a batch of snapshots, read and not yet done with.
Of(snapshots) ==
    {p \in Payments : \E i \in 1..Len(snapshots) : snapshots[i].p = p}

Run(t, kind, pc, snapshots) ==
    /\ task[t] = Idle
    /\ task' = [task EXCEPT ![t] =
                    [kind |-> kind, pc |-> pc, todo |-> snapshots]]
    /\ contended' = contended \cup {p \in Of(snapshots) :
                                      \E u \in Slots : p \in Of(task[u].todo)}

At(t, kind, pc) == task[t].kind = kind /\ task[t].pc = pc

GoTo(t, pc) == task' = [task EXCEPT ![t].pc = pc]

Stop(t) == task' = [task EXCEPT ![t] = Idle]

\* The loop of a scan goes on with the next row it read.
NextRow(t) ==
    task' = [task EXCEPT ![t] =
                IF Len(task[t].todo) = 1 THEN Idle
                ELSE [kind |-> task[t].kind, pc |-> "check",
                      todo |-> Tail(task[t].todo)]]

-----------------------------------------------------------------------------
(* Requests.                                                               *)

\* createPaymentQr inserts the row; its second save only fills in the QR, so
\* that a creation that fails between the two leaves this very row behind.
CreatePaymentQr(p) ==
    /\ ~Exists(p)
    /\ row' = [row EXCEPT ![p].status = "pending"]
    /\ Touch(p)
    /\ UNCHANGED <<overdue, autoDue, escrow, signable, task, sent, contended>>

\* Variant: without the check that the payment is pending.
BuildEscrowAnytime(t, p, w) ==
    /\ Exists(p)
    /\ p \notin overdue
    /\ Run(t, "buildEscrowTransaction", "write",
           <<[p |-> p, buyer |-> w, due |-> FALSE]>>)
    /\ UNCHANGED <<row, older, overdue, autoDue, escrow, signable, sent>>

\* POST /tx/:id up to its first await after the checks.
BuildEscrowBegin(t, p, w) ==
    /\ row[p].status = "pending"
    /\ p \notin overdue
    /\ Run(t, "buildEscrowTransaction", "write",
           <<[p |-> p, buyer |-> w, due |-> FALSE]>>)
    /\ UNCHANGED <<row, older, overdue, autoDue, escrow, signable, sent>>

\* ... and from the update of buyer_wallet to the answer.
BuildEscrowFinish(t) ==
    LET c == Current(t) IN
    /\ At(t, "buildEscrowTransaction", "write")
    /\ row' = [row EXCEPT ![c.p].buyerWallet = c.buyer]
    /\ Touch(c.p)
    /\ signable' = signable \cup
                   {[ix |-> "crear_escrow", p |-> c.p, w |-> c.buyer]}
    /\ Stop(t)
    /\ UNCHANGED <<overdue, autoDue, escrow, sent, contended>>

\* POST /payments/:id/confirm writes nothing; it answers a transaction.
GetConfirmTransaction(p, w) ==
    /\ row[p].status \in {"escrow_locked", "shipped"}
    /\ row[p].buyerWallet = w
    /\ signable' = signable \cup {[ix |-> "liberar_escrow", p |-> p, w |-> w]}
    /\ UNCHANGED <<row, older, overdue, autoDue, escrow, task, sent, contended>>

\* Variant: shipping a second time.
ShipAgain(t, p) ==
    /\ row[p].status \in {"escrow_locked", "shipped"}
    /\ Run(t, "shipPayment", "write",
           <<[p |-> p, buyer |-> row[p].buyerWallet, due |-> FALSE]>>)
    /\ UNCHANGED <<row, older, overdue, autoDue, escrow, signable, sent>>

ShipBegin(t, p) ==
    /\ row[p].status = "escrow_locked"
    /\ Run(t, "shipPayment", "write",
           <<[p |-> p, buyer |-> row[p].buyerWallet, due |-> FALSE]>>)
    /\ UNCHANGED <<row, older, overdue, autoDue, escrow, signable, sent>>

\* auto_release_at is seven days from now, again if the row had one.
ShipWrite(t) ==
    LET p == Current(t).p IN
    /\ At(t, "shipPayment", "write")
    /\ row' = [row EXCEPT ![p].status = "shipped", ![p].shippedAt = TRUE]
    /\ Touch(p)
    /\ autoDue' = autoDue \ {p}
    /\ GoTo(t, "notify")
    /\ UNCHANGED <<overdue, escrow, signable, sent, contended>>

-----------------------------------------------------------------------------
(* The four scans: read a batch, then for each row examine, update, notify. *)

\* Variants of the queries: rows released by the timer are looked at again;
\* shipped rows are forgotten; only rows with a buyer are expired.
SelectedPlus(kind) ==
    {p \in Payments :
        CASE kind = "scanEscrowCreated" ->
                row[p].status = "pending" /\ row[p].buyerWallet # NoWallet
          [] kind = "scanEscrowReleased" -> row[p].status \in
                {"escrow_locked", "shipped", "auto_released"}
          [] kind = "scanExpired" -> row[p].status = "pending"
          [] OTHER -> row[p].status = "shipped"}

SelectedLess(kind) ==
    {p \in Payments :
        CASE kind \in {"scanEscrowCreated", "scanExpired"} ->
                row[p].status = "pending" /\ row[p].buyerWallet # NoWallet
          [] kind = "scanEscrowReleased" -> row[p].status = "escrow_locked"
          [] OTHER -> row[p].status = "shipped"}

\* The rows that the query of a scan selects.
Selected(kind) ==
    {p \in Payments :
        CASE kind = "scanEscrowCreated" ->
                /\ row[p].status = "pending"
                /\ row[p].buyerWallet # NoWallet
          [] kind = "scanEscrowReleased" ->
                row[p].status \in {"escrow_locked", "shipped"}
          [] kind = "scanExpired" -> row[p].status = "pending"
          [] OTHER -> row[p].status = "shipped"}

\* Whether the deadline the scan tests has passed, at its `now`.
DueFor(kind) ==
    CASE kind = "scanExpired" -> overdue
      [] kind = "scanAutoRelease" -> autoDue
      [] OTHER -> {}

ScanStart(t, kind) ==
    /\ kind \in {"scanEscrowCreated", "scanEscrowReleased"} => PollEnabled
    /\ \E s \in (IF kind = "scanEscrowCreated"
                 THEN OldestBatches(Selected(kind))
                 ELSE Batches(Selected(kind))) :
          Run(t, kind, "check",
              [i \in 1..Len(s) |-> [p |-> s[i],
                                    buyer |-> row[s[i]].buyerWallet,
                                    due |-> s[i] \in DueFor(kind)]])
    /\ UNCHANGED <<row, older, overdue, autoDue, escrow, signable, sent>>

\* Variants: an account of any status counts as locked; the deadline is not
\* compared with now.
FoundAnyAccount(kind, c) ==
    CASE kind = "scanEscrowCreated" -> c.buyer # NoWallet
      [] kind = "scanEscrowReleased" ->
            c.buyer # NoWallet /\ escrow[c.p][c.buyer] = "released"
      [] OTHER -> c.due

FoundAnyTime(kind, c) ==
    CASE kind = "scanEscrowCreated" ->
            c.buyer # NoWallet /\ escrow[c.p][c.buyer] = "locked"
      [] kind = "scanEscrowReleased" ->
            c.buyer # NoWallet /\ escrow[c.p][c.buyer] = "released"
      [] OTHER -> TRUE

\* What the scan must find to act on a row: for the two chain scans, the state
\* of the escrow account of the buyer it read; for the others, the deadline.
Found(kind, c) ==
    CASE kind = "scanEscrowCreated" ->
            c.buyer # NoWallet /\ escrow[c.p][c.buyer] = "locked"
      [] kind = "scanEscrowReleased" ->
            c.buyer # NoWallet /\ escrow[c.p][c.buyer] = "released"
      [] OTHER -> c.due

ScanFinds(t, kind) ==
    /\ At(t, kind, "check")
    /\ Found(kind, Current(t))
    /\ GoTo(t, "write")
    /\ UNCHANGED <<row, older, overdue, autoDue, escrow, signable, sent,
                   contended>>

\* `continue`: nothing found.  A failed RPC call looks the same to the chain
\* scans (isEscrowLocked and isEscrowReleased answer false).
ScanSkips(t, kind) ==
    /\ At(t, kind, "check")
    /\ kind \in {"scanExpired", "scanAutoRelease"} => ~Found(kind, Current(t))
    /\ NextRow(t)
    /\ UNCHANGED <<row, older, overdue, autoDue, escrow, signable, sent,
                   contended>>

ScanUpdates(t, kind, p, updated) ==
    /\ At(t, kind, "write")
    /\ row' = [row EXCEPT ![p] = updated]
    /\ Touch(p)
    /\ GoTo(t, "notify")
    /\ UNCHANGED <<overdue, autoDue, escrow, signable, sent, contended>>

MarkEscrowLocked(t) ==
    LET c == Current(t) IN
    ScanUpdates(t, "scanEscrowCreated", c.p,
        [row[c.p] EXCEPT !.status = "escrow_locked", !.escrowPda = c.buyer])

MarkReleased(t) ==
    LET p == Current(t).p IN
    ScanUpdates(t, "scanEscrowReleased", p, [row[p] EXCEPT !.status = "released"])

MarkExpired(t) ==
    LET p == Current(t).p IN
    ScanUpdates(t, "scanExpired", p, [row[p] EXCEPT !.status = "expired"])

MarkAutoReleased(t) ==
    LET p == Current(t).p IN
    ScanUpdates(t, "scanAutoRelease", p,
        [row[p] EXCEPT !.status = "auto_released"])

\* Variant: the timer announces a release.
EventOfTimer(kind) ==
    CASE kind = "scanEscrowCreated" -> "escrow.locked"
      [] kind \in {"scanEscrowReleased", "scanAutoRelease"} -> "escrow.released"
      [] kind = "scanExpired" -> "payment.expired"
      [] OTHER -> "escrow.shipped"

\* The event each handler dispatches after its update.
EventOf(kind) ==
    CASE kind = "scanEscrowCreated" -> "escrow.locked"
      [] kind = "scanEscrowReleased" -> "escrow.released"
      [] kind = "scanExpired" -> "payment.expired"
      [] kind = "scanAutoRelease" -> "escrow.auto_released"
      [] OTHER -> "escrow.shipped"

\* webhookDelivery.dispatch, then paymentWebhook.dispatch.  Neither touches the
\* payments table, so that the two are one step here.  shipPayment handles one
\* row; a scan goes on with its next one.
Notify(t) ==
    LET c == Current(t) IN
    /\ task[t].pc = "notify"
    /\ sent' = [sent EXCEPT ![c.p] = @ \cup {EventOf(task[t].kind)}]
    /\ NextRow(t)
    /\ UNCHANGED <<row, older, overdue, autoDue, escrow, signable, contended>>

-----------------------------------------------------------------------------
(* Failures.                                                               *)

\* A rejected await.  The chain scans catch it and go on with the next row;
\* the other scans and the requests end there.
HandlerFails(t) ==
    /\ task[t] # Idle
    /\ IF task[t].kind \in {"scanEscrowCreated", "scanEscrowReleased"}
       THEN NextRow(t)
       ELSE Stop(t)
    /\ UNCHANGED <<row, older, overdue, autoDue, escrow, signable, sent,
                   contended>>

\* The machine stops (fly.toml stops idle machines); nothing in flight
\* is remembered by the next process.
ProcessStops ==
    /\ \E t \in Slots : task[t] # Idle
    /\ task' = [t \in Slots |-> Idle]
    /\ UNCHANGED <<row, older, overdue, autoDue, escrow, signable, sent,
                   contended>>

-----------------------------------------------------------------------------
(* The clock, and the buyers' wallets with the escrow program (external).   *)

ExpiryPasses(p) ==
    /\ Exists(p) /\ p \notin overdue
    /\ overdue' = overdue \cup {p}
    /\ UNCHANGED <<row, older, autoDue, escrow, signable, task, sent,
                   contended>>

AutoReleasePasses(p) ==
    /\ row[p].shippedAt /\ p \notin autoDue
    /\ autoDue' = autoDue \cup {p}
    /\ UNCHANGED <<row, older, overdue, escrow, signable, task, sent,
                   contended>>

\* crear_escrow initialises the account, liberar_escrow needs a locked one.
Sign(tx) ==
    /\ tx \in signable
    /\ escrow[tx.p][tx.w] =
           (IF tx.ix = "crear_escrow" THEN "none" ELSE "locked")
    /\ escrow' = [escrow EXCEPT ![tx.p][tx.w] =
                     IF tx.ix = "crear_escrow" THEN "locked" ELSE "released"]
    /\ signable' = signable \ {tx}
    /\ UNCHANGED <<row, older, overdue, autoDue, task, sent, contended>>

-----------------------------------------------------------------------------
\* A request or a cron tick starts a handler, and a handler goes on.
Begins(t) ==
    \/ \E p \in Payments, w \in Wallets : BuildEscrowBegin(t, p, w)
    \/ \E p \in Payments : ShipBegin(t, p)
    \/ \E kind \in Scans : ScanStart(t, kind)

GoesOn(t) ==
    \/ BuildEscrowFinish(t)
    \/ ShipWrite(t)
    \/ \E kind \in Scans : ScanFinds(t, kind) \/ ScanSkips(t, kind)
    \/ MarkEscrowLocked(t)
    \/ MarkReleased(t)
    \/ MarkExpired(t)
    \/ MarkAutoReleased(t)

Handler(t) == Begins(t) \/ GoesOn(t) \/ Notify(t) \/ HandlerFails(t)

\* Requests that write nothing, or a new row; the clock; the wallets.
Environment ==
    \/ \E p \in Payments :
          \/ CreatePaymentQr(p)
          \/ \E w \in Wallets : GetConfirmTransaction(p, w)
          \/ ExpiryPasses(p)
          \/ AutoReleasePasses(p)
    \/ \E tx \in signable : Sign(tx)

Next ==
    \/ Environment
    \/ \E t \in Slots : Handler(t)
    \/ ProcessStops

Spec == Init /\ [][Next]_vars
-----------------------------------------------------------------------------
(* The ledger of PaymentLedger, as these rows and accounts present it.      *)

Locked(p) == {w \in Wallets : escrow[p][w] # "none"}
PaidOut(p) == {w \in Wallets : escrow[p][w] = "released"}

Ledger == INSTANCE PaymentLedger WITH
    status <- [p \in Payments |-> row[p].status],
    chain <- [p \in Payments |->
                 IF PaidOut(p) # {} THEN "released"
                 ELSE IF Locked(p) # {} THEN "locked" ELSE "none"],
    shipped <- {p \in Payments : row[p].shippedAt}

\* Whatever the interleaving of requests, overlapping scans and crashes, every
\* update of a row is one that the chain, the shipment or the clock justifies
\* at that moment (the stale reads of the scans never run ahead of the chain).
ImplementsLedger == Ledger!Spec

-----------------------------------------------------------------------------
(* Safety with any number of handlers in flight.                            *)

Claimed == {"escrow_locked", "shipped", "released", "auto_released"}

\* A row that says the buyer paid names the escrow account that holds (or
\* held) the money, and a released row has an account that was released:
\* updates keyed by id only, from snapshots of any age, never invent a payment.
ClaimsBacked ==
    \A p \in Payments :
        /\ row[p].status \in Claimed => row[p].escrowPda \in Locked(p)
        /\ row[p].status = "released" => PaidOut(p) # {}

\* A merchant told of an event can rely on it: the money was locked, the
\* shipment recorded, the escrow paid out, the deadline over, even if the
\* update and the dispatch are separated by other handlers' steps.
EventsTruthful ==
    \A p \in Payments :
        /\ sent[p] \cap {"escrow.locked", "escrow.shipped",
                         "escrow.auto_released"} # {} => Locked(p) # {}
        /\ "escrow.released" \in sent[p] => PaidOut(p) # {}
        /\ sent[p] \cap {"escrow.shipped", "escrow.auto_released"} # {}
              => row[p].shippedAt
        /\ "payment.expired" \in sent[p] => p \in overdue

\* What a handler in flight still knows about the rows it read.  An update
\* is only as good as these facts, and they must outlive every step of the
\* others.
TaskKnows(t) ==
    LET k == task[t].kind IN
    \A i \in 1..Len(task[t].todo) :
        LET c == task[t].todo[i] IN
        /\ k \in {"shipPayment", "scanEscrowReleased", "scanAutoRelease"}
              => row[c.p].escrowPda # NoWallet
        /\ k = "scanAutoRelease" => row[c.p].shippedAt
        /\ k = "scanExpired" /\ c.due => c.p \in overdue
        /\ k = "buildEscrowTransaction" => c.buyer \in Wallets

\* What the handler about to write, or to notify, has established.
TaskFound(t) ==
    LET c == Current(t)
        k == task[t].kind
    IN  /\ task[t].pc \in {"write", "notify"} =>
              /\ k = "scanEscrowCreated" =>
                    c.buyer \in Wallets /\ escrow[c.p][c.buyer] # "none"
              /\ k = "scanEscrowReleased" =>
                    c.buyer \in Wallets /\ escrow[c.p][c.buyer] = "released"
              /\ k = "scanExpired" => c.due
        /\ task[t].pc = "notify" /\ k = "shipPayment" => row[c.p].shippedAt

TaskShape(t) ==
    /\ task[t].pc = "idle" <=> task[t].todo = <<>>
    /\ task[t].pc = "check" => task[t].kind \in Scans
    /\ task[t].pc = "notify" => task[t].kind \in Scans \cup {"shipPayment"}
    /\ task[t].kind \in Requests => Len(task[t].todo) = 1
    /\ task[t].kind = "none" <=> task[t].pc = "idle"

RowsConsistent ==
    \A p \in Payments :
        /\ row[p].escrowPda # NoWallet =>
              escrow[p][row[p].escrowPda] # "none"
        /\ row[p].status \in Claimed => row[p].escrowPda # NoWallet
        /\ row[p].shippedAt => row[p].escrowPda # NoWallet
        /\ row[p].status \in {"shipped", "auto_released"} => row[p].shippedAt
        /\ row[p].status = "released" => PaidOut(p) # {}

\* The inductive invariant behind ClaimsBacked, EventsTruthful and the
\* refinement: rows, handlers in flight and events agree with the chain.
IInv ==
    /\ TypeOK
    /\ RowsConsistent
    /\ \A t \in Slots : TaskShape(t) /\ TaskKnows(t) /\ TaskFound(t)
    /\ EventsTruthful

-----------------------------------------------------------------------------
(* What holds of a payment as long as no two handlers hold it at one time,  *)
(* whatever else they do, and is lost when they do.                         *)

Lifecycle == {<<"absent", "pending">>, <<"pending", "escrow_locked">>,
              <<"pending", "expired">>, <<"escrow_locked", "shipped">>,
              <<"escrow_locked", "released">>, <<"shipped", "released">>,
              <<"shipped", "auto_released">>}

\* A payment goes through its stages in order and never leaves a final one.
LifecycleOrder ==
    [][\A p \in Payments \ contended :
          \/ row'[p].status = row[p].status
          \/ <<row[p].status, row'[p].status>> \in Lifecycle]_vars

\* No event of a payment is dispatched a second time.
EventOnce ==
    [][\A t \in Slots :
          Notify(t) => \/ Current(t).p \in contended
                       \/ EventOf(task[t].kind) \notin sent[Current(t).p]]_vars

\* The wallet that may confirm reception is the one whose escrow was seen
\* (controller of POST /payments/:id/confirm).
ConfirmerPaid ==
    \A p \in Payments \ contended :
        row[p].status \in {"escrow_locked", "shipped"}
            => row[p].buyerWallet = row[p].escrowPda

\* The stages a payment may be in when its event has been dispatched.
Since(e) ==
    CASE e = "escrow.locked" ->
            {"escrow_locked", "shipped", "released", "auto_released"}
      [] e = "escrow.shipped" -> {"shipped", "released", "auto_released"}
      [] e = "escrow.released" -> {"released"}
      [] e = "escrow.auto_released" -> {"auto_released"}
      [] OTHER -> {"expired"}

\* The stages in which a handler reads a payment, and the one it leaves it in.
ReadIn(kind) ==
    CASE kind = "scanEscrowReleased" -> {"escrow_locked", "shipped"}
      [] kind = "shipPayment" -> {"escrow_locked"}
      [] kind = "scanAutoRelease" -> {"shipped"}
      [] OTHER -> {"pending"}

LeftIn(kind) ==
    CASE kind = "scanEscrowCreated" -> "escrow_locked"
      [] kind = "scanEscrowReleased" -> "released"
      [] kind = "scanExpired" -> "expired"
      [] kind = "scanAutoRelease" -> "auto_released"
      [] OTHER -> "shipped"

\* The i-th snapshot of slot t is of the row as it is, or as the handler has
\* just left it.
SnapshotFits(t, i) ==
    LET c == task[t].todo[i]
        k == task[t].kind
    IN  IF task[t].pc = "notify" /\ i = 1
        THEN row[c.p].status = LeftIn(k) /\ EventOf(k) \notin sent[c.p]
        ELSE /\ row[c.p].status \in ReadIn(k)
             /\ k = "scanEscrowCreated" => row[c.p].buyerWallet = c.buyer

\* No batch reads a row twice, and no other handler has read it.
ReadOnce(t) ==
    /\ \A i, j \in 1..Len(task[t].todo) :
          task[t].todo[i].p = task[t].todo[j].p => i = j
    /\ \A p \in Of(task[t].todo) \ contended :
          \A u \in Slots \ {t} : p \notin Of(task[u].todo)

InOrder(p) ==
    /\ \A e \in sent[p] : row[p].status \in Since(e)
    /\ row[p].status \in {"escrow_locked", "shipped"}
          => row[p].buyerWallet = row[p].escrowPda

\* The inductive invariant behind LifecycleOrder, EventOnce and ConfirmerPaid.
AloneInv ==
    /\ \A t \in Slots : ReadOnce(t)
    /\ \A t \in Slots : \A i \in 1..Len(task[t].todo) :
          task[t].todo[i].p \notin contended => SnapshotFits(t, i)
    /\ \A p \in Payments \ contended : InOrder(p)

-----------------------------------------------------------------------------
(* Liveness.  A handler in flight does not hang; time passes.  Cron starts  *)
(* each scan again and again whatever else is running, and a process that   *)
(* stops and restarts does not stop at the same place for ever: strong      *)
(* fairness of the steps that record an expiry.  Nothing is assumed of      *)
(* buyers and sellers.                                                      *)

Progress(t) == GoesOn(t) \/ Notify(t) \/ HandlerFails(t)

Fairness ==
    /\ \A p \in Payments : WF_vars(ExpiryPasses(p))
    /\ \A t \in Slots :
          /\ WF_vars(Progress(t))
          /\ SF_vars(ScanStart(t, "scanExpired"))
          /\ SF_vars(ScanFinds(t, "scanExpired"))
          /\ SF_vars(MarkExpired(t))

\* No row stays pending: it is found paid or it expires, even when the batch
\* is smaller than the number of pending rows.
PendingSettles ==
    \A p \in Payments : row[p].status = "pending" ~> row[p].status # "pending"
=============================================================================
