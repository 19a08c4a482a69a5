# TrustPay backend: TLA+ models, model checking and proofs

TrustPay is a NestJS backend for merchants who take Solana payments. This
directory models the parts of it that change state, checks them with TLC on
small instances, and proves the central results with TLAPS for every value of
the constants. Paths are relative to the repository (`src/...` is its `src`
directory); `PROJECT.json` names the source lines of every definition.

1. [The system](#1-the-system)
2. [The models](#2-the-models)
3. [The runs](#3-the-runs)
4. [Fairness](#4-fairness)
5. [The proofs](#5-the-proofs)
6. [Where the code and its documents part](#6-where-the-code-and-its-documents-part)
7. [What is not modelled](#7-what-is-not-modelled)
8. [Plan](#8-plan)

## 1. The system

One Node process serves HTTP requests and a websocket, and runs cron scans and
a 60 s timer; a PostgreSQL database holds all state that survives it; the
Solana chain is read and written through an RPC node. The process is stopped
when idle and started again (`fly.toml`, `auto_stop_machines`). Nothing is
locked and there are no transactions around handlers: JavaScript runs to the
next `await`, so that an interleaving is an interleaving of the stretches
between awaits. This is the grain of every model here: *one action is what
happens between two awaits*.

Two ways of writing a row recur, and most of what is hard follows from them.

* `repository.update(id, {...})` writes columns **whatever the row has become**
  since it was read (payments, the QR's payment columns).
* `repository.save(entity)` compares the **whole copy in memory** with the row
  as it is now, writes every column that differs, and inserts the row if it is
  gone. A copy read before an `await` thereby undoes what others have saved
  (webhook deliveries and endpoints, QR edits, businesses, API keys, users).
  `save` is modelled as one atomic step that writes the copy.

| Component (source) | State | Operations | Hard behaviour | What makes it correct |
|---|---|---|---|---|
| **Escrow payments** (`src/payments`, `src/solana`) | `payments` rows; escrow accounts on chain | create a QR, build the escrow transaction, confirm, ship; four cron scans | overlapping scans with stale rows, RPC failures, deadlines that race payments, stops between update and webhook | a row or event never claims what chain, seller or clock does not show; stages in order; every row settles |
| **Webhook deliveries** (`src/webhooks`) | endpoints, subscriptions, deliveries | dispatch, retries every 60 s, edits of endpoints | runs that outlast the timer, stale saves, stops before or after the POST | a delivered row was acknowledged; none is lost but by a failure; bounded POSTs; the merchant is told in the end |
| **QR payments** (`src/qr-codes`, `src/transactions`) | `qr_codes`, `transactions` | create, edit, remove a QR; cron scan of payments on chain | overlapping scans, QRs edited or removed under a scan, three awaits per payment | what is recorded was paid; no payment is announced twice; every valid payment is recorded |
| **Businesses** (`src/businesses`, `src/solana`) | `businesses`; their accounts on chain | create, update, remove, verify | chain first and database second; transactions that land unconfirmed; stale saves | rows and flags are backed by accounts; accounts without a row are known orphans |
| **API keys** (`src/api-keys`) | `api_keys` | create, validate, revoke, disable | every validation saves a copy of the key | revocation is final, disabling is the administration's |
| **Accounts** (`src/auth`, `src/users`) | `users`, tokens | register, login, change password, edit, toggle, deactivate | racing registrations, spellings of an e-mail, partial columns in copies | one account for an address; passwords, roles and reactivation only by those entitled |
| **Commission** (`src/platform-settings`, `src/payments`, `src/metrics`) | one settings row | read or create it, set the rate, charge, estimate | the row is made on demand by whoever reads first; integer rounding | charges are those of a rate in force; estimates agree with charges; a rate set holds |
| **Metrics** (`src/metrics`) | none; reads `payments` | rankings, SOL in escrow, funnel, time series, volume classes | lists of statuses, windows of dates, weeks, pages, ties, stale updates of rows already counted | reports agree with one another; only overlapping scans of one pending row change the past |
| **Live users** (`src/websocket`) | two maps in memory | connect, look up, disconnect | clients that leave during the look-up, many sockets of a user | nobody counts twice; the newest open socket counts |

Components interact through rows and calls: QR scans and payment scans call
`dispatch` of the webhooks (at the caller the event that is sent, in
`WebhookDelivery` the delivery of one event, and in `EscrowNotifications` the
two together, call by call); payments and metrics read the commission; metrics
read what the handlers of payments write; QR codes require a verified, active business; API keys
require an active business. The remaining components (queries, guards, schemas,
wiring) keep no state; `PROJECT.json` lists all of them.

## 2. The models

| Module | Models | Composes |
|---|---|---|
| `PaymentLedger` | abstract specification: what a payment row promises a merchant | |
| `EscrowPayments` | requests, scans and the escrow program as payments use it | implements `PaymentLedger` (instance `Ledger`) |
| `DeliveryQueue` | abstract specification: what webhooks with retries promise a merchant | |
| `WebhookDelivery` | endpoints, subscriptions by event type, dispatch, retries | implements `DeliveryQueue` (instance `Queue`) |
| `EscrowNotifications` | from the change of a payment to the merchant who is told of it | extends `EscrowPayments`, instance `Hooks` of `WebhookDelivery` |
| `PaymentReceipts` | abstract specification: what QR payments promise a business | |
| `QrPayments` | QR requests, transactions, the QR scan | implements `PaymentReceipts` (instance `Receipts`) |
| `Businesses` | businesses and their accounts on chain | |
| `ApiKeys` | keys and the guard that validates them | |
| `Accounts` | users, authentication, administration | |
| `PaymentsTable` | what the two models of reports share: ids, null, `SUM` | |
| `Commission` | settings row, charges, estimate | extends `PaymentsTable` |
| `LiveUsers` | gateway and its two maps | |
| `Metrics` | the reports, as operators over the payments table, and pagination | extends `PaymentsTable` |
| `MC*` | symmetry sets (and `AbandonedSpec`) for TLC | each extends its module |
| `EscrowProofs` | theorems and proofs about `EscrowPayments`, then about `EscrowNotifications` | extends `EscrowNotifications`, instance `HooksProofs` of `WebhookDeliveryProofs` |
| `WebhookDeliveryProofs`, `QrPaymentsProofs`, `BusinessesProofs`, `ApiKeysProofs`, `AccountsProofs`, `LiveUsersProofs` | theorems and proofs | each extends its module and `TLAPS` |
| `ReportsProofs` | theorems and proofs about `Metrics` and `Commission` | extends both |

**Conventions.** Handlers in flight are `task[t]` for a slot `t`; the number of
slots is the number of handlers that overlap and an artefact of the model, not
of the code. A task holds exactly what the handler keeps across its awaits: the
copies it read. `ProcessStops` (or `Lost`, for a single request) empties slots
at any point. A failed query or save ends the handler with what it has done so
far. Operators commented *Variant* are not part of a specification: they are
plausible errors, substituted for the definition after them, which a property
must then find.

**Overlap.** Much of what the code means to guarantee holds only as long as two
handlers do not hold the same row: cron does not wait for the previous tick,
and saves write whole copies. Instead of checking these properties with one
slot, the models carry a history variable `contended` (`raced` in
`Commission`), the rows that two handlers *have* held at one time, and the
properties are stated for the others, with overlapping handlers in the same
run. What holds for contended rows too is stated without the exemption; this
distinction is the main result for each component.

### EscrowPayments

`row` is the table; `escrow[p][w]` the escrow account of wallet `w` for payment
`p` (the PDA is derived from both, so that the column `escrow_pda` is
represented by the wallet); `signable` the transactions that were answered to
wallets, which may sign them at any later time or never (`Sign`);
`overdue`/`autoDue` the payments whose `expires_at`/`auto_release_at` has passed
(shipping writes a new `auto_release_at`). Each scan is `ScanStart` (its query),
then for each row `ScanFinds` or `ScanSkips`, the update (`MarkEscrowLocked`,
`MarkReleased`, `MarkExpired`, `MarkAutoReleased`) and `Notify` (both webhook
dispatches, best effort). `isEscrowLocked` and `isEscrowReleased` answer *false*
on an RPC error, which is `ScanSkips` with a found account. `take` without
`order` is any batch in any order; with `order: updatedAt`, the oldest by
`older`. Simplified: the two saves of `createPaymentQr` are one (a failure
between them leaves the very row that is modelled; the second,
`payments.service.ts:261`, saves a copy that is still pending, before a buyer has
the id and a minute or more before the row can expire, so that nothing it could
overwrite has happened unless building the QR takes that long); the statuses `disputed` and
`refunded` are never written by the code; the fee is in `Commission`.

The refinement maps `status` to the column, `chain` to the most advanced escrow
account of the payment, `shipped` to `shipped_at`, `overdue` to itself. The
abstract `Report` allows a stage whenever the chain, the shipment or the clock
justifies it, *whatever the row says at that time*: this is what the code
guarantees with overlapping handlers. Order of stages is a separate property
(`LifecycleOrder`), lost for contended payments.

### WebhookDelivery

`row[<<event, endpoint>>]` is a delivery. A run of `dispatch` or
`processPendingRetries` has copies `todo` and one delivery in hand `cur`;
`pc` moves from `next` (claim and first save) to `post`, to `ok`/`failed`, and
back by `SaveOutcome`. `dropped` is the set of deliveries that a failure left
without a retry, a ghost that gives `Accounted` its meaning: overlapping runs
lose nothing beyond those. Rows of a batch are taken in any order; the look-up
of the endpoint and the claim are one step; counts of POSTs saturate one above
`MAX_ATTEMPTS`; an event has a type (`TypeOf`), endpoints subscribe to types,
and `Targets` are the active ones subscribed when `dispatch` begins; an endpoint
brought back by a stale `updateEndpoint` comes back without subscriptions and
deliveries.

The refinement (`ImplementsQueue`) maps `accepted` to `addressed`, `open` to
`Pending` (a row that waits for a retry, or a copy in a run), `lost` to
`dropped` and `shared` to `contended`. In `DeliveryQueue` a delivery is accepted
once, may leave the queue only acknowledged, lost or attempted `MaxAttempts`
times, and never comes back into it: no stale save and no endpoint brought back
reopens a delivery that nobody holds any more. A POST too many, or after a 2xx,
is allowed only once two runs have shared the delivery.

### EscrowNotifications

A handler of payments updates its row, then awaits `webhookDelivery.dispatch`,
then `paymentWebhook.dispatch`, then goes on. The module lets a step be a step
of one component while the other stands still (`PaymentsOnly`, `HooksOnly`), or
of both: `DispatchCalled` begins a run of `dispatch` in the handler's own slot,
`Told` is `Notify` once that run has ended, `Fails` and `MachineStops` cut both
short. What `EscrowPayments` defines keeps its name; the tables and runs of the
webhooks are `delivery` and `run` here. `dispatch` has no events of its own: a *call* is a payment, an event
type and a number, so that a change told twice makes two deliveries.
`lost` is the history of notifications that a failure or a stop cut short; what
the merchant can rely on is stated up to it, which says exactly how much a
failure between update and webhook may cost.

### QrPayments

`qr` has one row per QR with its reference, amount and payment; `chain` is the
sequence of payments on chain, the index being the signature. A scan goes
signature by signature through `sig`, `save` (insert with a unique signature;
a duplicate is skipped), `update`, `dispatch`. `validateTransfer` is external:
it accepts the exact amount, or any transfer when the amount is open
(`amountLamports` null, expected 0); "not found" by the RPC node is
`SkipSignature`. The look-up of the signature and its validation are one step.
The history `missed` has the payments that a failure took from a scan between
insert and announcement, `overtaken` the regenerated QRs that a scan marked as
paid by a payment of the reference they had before.
A PATCH is read and save; the parsed body of zod always names payment fields
(`PaymentFieldsChanged`), so that each edit makes a new reference. One verified
business; `is_active` of a QR is never changed by a request.

The refinement (`ImplementsReceipts`) maps `paid` to the payments on chain,
`recorded` to the transactions in the table, `telling` to the scans between an
insert and its announcement, each with its payment (`Telling`), `told` to the
payments in `sent`, and `void` to the payments of removed QRs, whose
transactions the cascade deletes. In `PaymentReceipts` a payment is recorded
when it is not yet, only whoever has recorded it tells of it, once, and what is
left unsaid is missed or void. That an *additional* payment is told by nobody is
what `Record` with no teller allows.

### Businesses

`pda[w]` is the account that `registrar_negocio` initialises for wallet `w`.
`create` and `verify` send the transaction first and save second; a transaction
is confirmed, fails, or lands with its confirmation unseen (`*Unconfirmed`).
Signatures are represented by the wallet whose account they touched. `name`,
`description` and `category` behave like `logo` and are left out; invalid wallet
texts in a PATCH are not modelled.

### ApiKeys, Accounts, Commission, LiveUsers

`ApiKeys`: one business and the merchant's own account; secrets and hashes are
data. `Accounts`: the column `password` is `select: false`, so that copies of
`update` and `toggleActive` lack it, and those of `changePassword` have nothing
else; token expiry is left out; the initial state is the seeder's admin.
`Commission`: amounts are natural numbers of lamports; `buildEscrowTransaction`
and the signature are one step (`Lock`). `LiveUsers`: a look-up may end after
the client has left, which leaves an entry (`ghost`) until the user's next
connection; `removeUserByUserId` is never called and not modelled.

### Metrics

`row` is the payments table, reduced to what the reports read (status, business
and `COALESCE(paid_at, created_at)`). Handlers move it as they do in
`EscrowPayments`, by updates whose guard is at the time of the read: a row is
found (`ScanEscrowCreated`, `ShipPayment` and so on), and later updated by id,
whatever it is by then (`UpdateRow`), or let go. `hand` has the update each
handler is about to make, one row at a time (a batch is as many of these as it
has rows), with `paidAt` once `scanEscrowCreated` has taken it (`EscrowFound`);
`twice` is the history of payments that two handlers held at one time, both
having found them pending. What the chain and the clock decide is left open
here. Each report is an operator over it with the name of its
method. Time is in half days, enough to tell the beginning and the end of a day
and the zone of a database session (`Zone`) from UTC. `ORDER BY` is a rank
(`Ordered`), names and e-mails are numbers in their order (two businesses of
one name may come in either order, which is left out), and the cuts of the
volume classes are integer arithmetic, which agrees with the doubles of the
code for up to 20 000 merchants. The estimate of commissions is in `Commission`.
Queries of one report are one step. That two pages are read at different times,
while ranks change, is not modelled: `PagesComplete` is about a table that
rests.

## 3. The runs

All runs pass. Deadlock is not checked: when every row is final and every bound
is used up, the system may rest. Times are for two cores.

| Run | Instance | States | Shows |
|---|---|---|---|
| `EscrowInterleaved` | 1 payment, 2 wallets, 2 handlers, batch 1 | 671 000 (2 min) | `ClaimsBacked`, `EventsTruthful`; the refinement `ImplementsLedger`; and for uncontended payments `LifecycleOrder`, `EventOnce`, `ConfirmerPaid` |
| `EscrowAbandoned` | 3 payments, batch 2, nobody signs | 38 000 (1-2 min) | `PendingSettles`: every pending row expires although a batch does not hold them all |
| `EscrowNotified` | 1 payment, 1 wallet, 1 endpoint, 1 handler and 1 timer, 2 attempts, subscribed to `escrow.released` | 162 000 (2 min) | `PostsTruthful`, `ChangesTold`, and under fairness `ReleaseTold`, with failures and process stops |
| `WebhookInterleaved` | 2 deliveries of one endpoint, 3 runs, batch 2, 2 attempts, 1 update in flight | 410 000 (1-2 min) | `IInv` (with `DeliveredIsAcked`), `Accounted`; the refinement `ImplementsQueue`; `NeverPostedAgain` (uncontended) |
| `QrInterleaved` | 1 QR, 3 references, 2 payments, 2 scans, 1 edit in flight | 956 000 (2-3 min) | `IInv` (with `RecordsTruthful`, `PaidIsRecorded`), `FirstPaymentTold`; the refinement `ImplementsReceipts`; `AnnouncedOnce` (uncontended) |
| `QrLive` | 2 QRs, 2 payments, 1 scan, batch 2 | 39 000 | `PaymentsRecorded` |
| `BusinessInterleaved` | 2 businesses, 2 wallets, 2 requests | 374 000 (1 min) | `RowsRegistered`, `VerifiedBacked`, `AccountsAccounted`; `OnlyAdminsReactivate` (uncontended) |
| `KeysInterleaved` | 2 keys, 2 requests | 571 000 (1 min) | `IInv` (with `NothingUnasked`); `RevokedRejected`, `DisabledUntilAdmin` (uncontended) |
| `LiveUsersCounted` | 2 users, 4 sockets | 5 000 | `NewestCounted`, `IInv` (with `CountedOnce`, `MapsAgree`, `GuestsExact`) |
| `CommissionInterleaved` | 2 payments, amounts 99 and 150, rates 0 and 10000, 2 requests | 185 000 | `IInv` (with `FeesWithinAmounts`, `FeesOfRates`), `EstimateIsCharged`; `AdminRateHolds` (not raced) |
| `AccountsInterleaved` | 2 accounts, 2 addresses in 2 spellings, 2 passwords, 2 requests | 451 000 (2 min) | `OneAccountPerAddress`, `PasswordsByChange`, `IInv`; `AdminFieldsByAdmins` (uncontended) |
| `MetricsViews` | 3 payments, 5 businesses of 4 owners (one an admin), a Sunday and a Monday | 33 000 (2-3 min) | `SeriesComplete`, `PagesComplete`, `FundsAgree` (with `MetricsIInv`), `TercilesByRank`; `PastBucketsFixed` (not found pending twice) |

**Why the bounds are enough to be interesting.**

* Two handlers on one row reach every stale write of the code: each handler
  holds one copy of a row, and what is lost is lost between two. A third
  handler adds orders of the same pairwise conflicts; `WebhookInterleaved` has
  the three, a dispatch and two runs of retries or the like.
* `OneUpdateInFlight`, the constraint of `WebhookInterleaved`, leaves out states
  with two updates of the endpoint in flight. An update saves a status and
  nothing else of the model, so that two that overlap take the endpoint through
  no sequence of statuses that two after one another, each read just before a
  deletion or just before its save, do not. No theorem assumes it.
* `TwoRefsOnceRemoved`, the constraint of `QrInterleaved`, leaves out states in
  which a removed QR has had a third reference. A removed QR comes back only by
  the save of a PATCH read before (one new reference), and its payments count as
  void whatever their reference. No theorem assumes it.
* One payment with two wallets, because payments do not share state (batches,
  where they meet, are exercised by `EscrowAbandoned`), and two wallets are
  what `buyer_wallet` and `escrow_pda` can disagree about.
* `MAX_ATTEMPTS` is 5 in the code; 2 in the runs (a first
  attempt, which leaves a retry, and a last one, which leaves none; what lies
  between is a first again), and any number in the proofs. `BATCH_SIZE` and `QR_BATCH` are 25, `take`
  of retries is 50; here a batch is smaller than the number of rows where this
  matters (`EscrowAbandoned`) and just as large where it must be:
  `ReleaseTold` and `PaymentsRecorded` hold *only* while a batch holds all rows, since unordered or never-moving batches may otherwise
  leave a row out for ever (hazards of kind `resource_bound`).
* `MaxRefs`, `MaxPayments`, `MaxUpdates` bound references of a QR, payments on
  chain and PATCHes in flight; two payments and three references show an old
  payment against a new reference, a first payment against a second, and a
  second regeneration after either.
* `EscrowNotified` models one event type, the one its liveness property is
  about; `CallBound` is 1 there, since `EventOnce` of `EscrowInterleaved` shows
  that an uncontended payment has one event of each type, and one handler makes
  no contention. Changes of other types have nobody to tell and go through the
  same steps.
* `MetricsViews`: the third payment goes to the first merchant (a second
  business of his, and a tie with another merchant), to a third one, or to the
  admin; one merchant has nothing. The two moments are the last half of a
  Sunday and the first of a Monday, on both sides of the end of a day and a
  week, and the clock is at either. `OverlapOnOneSpec` lets two handlers overlap
  while there is one payment, and one at a time work on more: an update touches
  one row, so that an overlap on one payment changes the same bucket with the
  others there or not. No theorem assumes it. Page sizes leave no rest, a rest, and a
  page larger than the list.
* 99 and 150 lamports lie on both sides of the amount from which the default of
  100 basis points charges anything; rates 0 and 10000 are the ends of
  `patchCommissionSchema`.
* `Owned = {TRUE}` (edited wallets are the user's own), `Logos = {FALSE}`, and
  two kinds of PATCH for businesses keep values out that no checked property
  tells apart.

Every property comes with a variant of the code that breaks it (`mutants` in
`PROJECT.json`): a dropped check, an attempt too many, an update before an
insert, a query that forgets a status.

## 4. Fairness

Safety is checked and proved under `Spec`, without fairness. The liveness runs
(`EscrowAbandoned`, `EscrowNotified`, `QrLive`) state, each for the steps its
property needs:

* **Handlers do not hang** (`WF` of `Progress(t)`): every await ends. RPC calls
  and POSTs have timeouts and any rejection ends or skips. `Progress` includes
  failure, so this says nothing about success.
* **Time passes** (`WF` of `ExpiryPasses`, `RetryBecomesDue`).
* **Cron and the timer keep starting runs** (`SF` of `ScanStart`;
  `WF` of `RetryStart`, whose slot nothing else takes). Strong and not weak only
  because a scan needs a free slot, and the slots are the model's; the code
  starts a run whatever else is running.
* **What fails does not fail for ever at the same place** (`SF` of the steps
  that find and record: `ScanFinds`, `MarkExpired`, `MarkReleased`; `Claims`;
  `TakesUp`, `Examines`, `SaveTransaction`). An RPC node, a database or a
  process that fails every time at one call would leave every row as it is.

Nothing is assumed of buyers, sellers and merchants: no fairness on signing,
shipping, paying or on the merchant's answers.

## 5. The proofs

`tlapm` checks every obligation of the eight modules `*Proofs`; no step is taken
without a proof. The theorems hold for any sets of payments, wallets, QRs,
businesses, keys, users, sockets, endpoints, events, handlers and timers, any
positive batch sizes and numbers of attempts, any amounts, sizes of pages and
lengths of series. Of the 40 properties that the runs check, 37 are stated by a
theorem; the other three are liveness.

**Assumptions.** They only say that null is no value of the kind it stands for
(`NoWalletAssumption`, `NothingAssumption`, `QrsAssumption`, `NoneAssumption` of
`Businesses`, `ApiKeys`, `Accounts`, `Commission` and `LiveUsers`), that bounds
are numbers and batch sizes and attempts positive ones (`BatchSizeAssumption`,
`MaxAttemptsAssumption`, `AttemptsAssumption`, `RetryBatchAssumption`,
`LimitsAssumption`, `BoundsAssumption`), that switches are Boolean
(`PollAssumption`), that what requests may carry is what their schemas allow
(`RolesAssumption`, `PatchesAssumption`, `LogosAssumption`, `PatchedAssumption`,
`OwnedAssumption`, `BasesAssumption`, `RatesAssumption`, `PageLimitsAssumption`,
`BucketCountsAssumption`), that every event has a type (`TypeOfAssumption`,
`TypesAssumption`), that the tables of the reports are finite, numbered in the
order in which they are listed and have positive amounts (`UsersAssumption`,
`BusinessesAssumption`, `PaymentsAssumption`, `MomentsAssumption`,
`ZoneAssumption`, `NullAssumption`), and that a handler of payments is
no run of the timer (`RunsAssumption`). TLC evaluates them in each run.

**Shape of an argument.** None of the properties is inductive: a handler writes
later what it has read before, so that an invariant must speak about the copies
in flight. Two kinds of facts about copies recur.

* *What stays true whatever else happens*, because it is about something that
  only grows: accounts on chain, POSTs made, answers received, references
  generated, revocations asked for. A copy of any age remains truthful. These
  facts hold with any number of overlapping handlers.
* *What is true as long as one handler alone has the row* (not `contended`): the
  copy agrees with the row, so that saving it undoes nothing. That the copy is
  alone is itself part of the invariant; a second reader makes the row contended.

Each proof has a lemma per action, lemmas for the steps that several actions
share (taking up a copy, going on, ending), and one that combines them along
`Next`. Action properties follow from the invariant before the step.

**EscrowProofs**, payments. `IInv` adds to `ClaimsBacked` and `EventsTruthful`

* `RowsConsistent`: the account that a row names exists on chain; a claimed or
  shipped row names one; a released row has an account that was paid out;
* `TaskShape`, `TaskKnows`, `TaskFound`: what a handler has read and has found
  *remains true* until it writes it, because the chain only moves forward
  (`none`, `locked`, `released`), `shipped_at` and `escrow_pda` are never
  cleared and deadlines do not come back.

`AloneInv` is about uncontended payments: a batch reads no row twice and no
other handler has read it (`ReadOnce`); the row is in a stage in which the
handler reads it, with the wallet it read, or in the one the handler has just
left it in and whose event has not been sent (`SnapshotFits`); the events sent
are those of stages gone through (`InOrder`). Results: `TypeCorrect`,
`Invariant`, `PaymentsAreBacked` (`ClaimsBacked`), `EventsAreTruthful`;
`LedgerImplemented`: every step of the handlers is a step of `PaymentLedger` or
stutters; and from `AloneInvariant`, `ConfirmersPaid` (`ConfirmerPaid`),
`StagesInOrder` (`LifecycleOrder`) and `EventsOnce` (`EventOnce`).

**EscrowProofs**, payments with webhooks. `StepsOfPayments` and `StepsOfHooks`
show that a step of the system is one of each component or leaves it alone;
hence `PaymentsWithin` and `HooksWithin`: the system implements the
specification of each. So the invariants of both hold in it, and what is left is
the link (`TellingInv`): a handler that awaits `dispatch` is telling of the
change it called it for, and the run in its slot is the one of that call
(`Awaited`); a call was only ever made for a change that is true
(`CallsTruthful`); a run gets to every delivery it set out to make, or is cut
short (`Reached`); a change that a row shows has been told, is about to be, or
its handler was cut short (`ShownTold`). Results: `SystemInvariant`,
`PostsAreTruthful` (`PostsTruthful`: every POST follows a call, a call is backed
by the chain and by the row) and `ChangesAreTold` (`ChangesTold`: what is left
of a delivery after its POST is in a retry, in a timer's hands, or settled, by
`Accounted` of the webhooks). `SystemImplements` puts the two refinements
together: the composed system implements `PaymentLedger` and `DeliveryQueue` at
once.

**WebhookDeliveryProofs.** `IInv` has two halves. `BackedInv`, whatever runs
overlap: `TaskPosted` (the attempt of a copy is at most one more than the POSTs
made; of an answered copy, at most as many; a copy answered with a 2xx is in
`acked`), `RowsPosted` (the same of rows), `TaskShape`. POSTs and answers only
grow (`PostsGrow`), so copies stay backed however old they are
(`CopiesStayBacked`). `Accounted` is kept because a row loses its retry only
when a run takes the delivery in hand (`TakingUpPreserves`), because an outcome
that leaves none has `MAX_ATTEMPTS` POSTs behind it (`SaveOutcomePreserves`),
and because what a run holds is what its end drops (`HeldIsAtRisk`).
`CountedInv`, for deliveries that no two runs held: one copy of it
(`HeldOnce`), whose attempt is not made before its POST; a row that waits only
for an attempt not made (`RowCounted`), and for none while its copy is in hand
(`CopiesCounted`). Results: `Invariant`,
`AlwaysAccounted`, `DeliveriesAcked`, `AttemptsBounded`
(`PostsWithinAttempts`), `AckedOnce` (`NeverPostedAgain`).

`QueueImplemented` (`ImplementsQueue`) rests on two consequences of `IInv`:
`PendingAccepted` (who has a copy has one of a delivery that was accepted: what
`TracesDispatched` says of the others) and `ClosedSettled` (what is not
`Pending` is acknowledged, dropped or out of attempts: `Accounted` with
`DeliveredIsAcked`). The latter is needed *after* a step, where `SettleStep`
turns it into "what this step closes is settled"; a step that opens anything
is a dispatch, whose calls are new (`DispatchAccepts`). A POST by one run alone
is one the queue allows because the attempt of its copy has not been made
(`PostAttempts`, from `CopiesCounted`).

**QrPaymentsProofs.** Payments on chain are never taken back, and references
are generated one after the other (`RefsInOrder`), so that what a scan has
validated stays a payment of the reference it looked for (`ScanKnows`,
`RecordsTruthful`). A payment that a scan has recorded and not announced is in
that scan's hands alone (the unique signature), which gives
`PaymentAnnouncedOnce` and `FirstPaymentTold` for overlapping scans too;
`TakenIsTold` relates a QR marked as paid to the announcement of its payment.
For QRs that one scan at a time held (`OneScan`), `MarkedBeforeDispatch` and
`SentIsSpent` say that an announcement leaves no copy that would announce
again. Results: `Invariant`, `FirstPaymentsTold`, `OneAnnouncement`,
`PaymentsAnnouncedOnce`.

`ReceiptsImplemented` (`ImplementsReceipts`) has a lemma for each kind of step:
scans that announce nothing leave the receipts where they are (`ReceiptsStand`);
an insert enters a payment that the table does not have and gives it to the scan
that made it, or to nobody when the QR had its first (`InsertRecords`);
a dispatch tells (`DispatchTells`); a removed QR, a failure and a stop leave a
payment void or missed (`MarkLeavesVoid`, `FailureMisses`, `StopMisses`). What
`IInv` contributes is that a scan about to announce has recorded its payment
(`ScanKnows`) and that records are of the QR they name (`RecordsTruthful`), so
that a cascade deletes exactly the books on the QR's payments
(`RemovalDiscards`).

**BusinessesProofs.** Accounts are never closed, keep their business, and never
lose `is_verified` (`AccountsGrow`), so that copies of any age stay truthful
(`KeepRegistered`, `KeepVerification`). `IInv` adds to `RowsRegistered`,
`VerifiedBacked` and `AccountsAccounted` that each request's copy is as good as
the row it will write (`TasksTruthful`), and that a registration under way is
the only trace of its business (`Unheard`), which random ids give.
`OthersTruthful` shows that a step of one slot leaves the others' copies
truthful; `AccountedKept` does the same for orphans. `CopiesInactive` is the
invariant of uncontended businesses: a merchant's copy is active only if its row
is. Results: `Invariant`, `TypeCorrect`, `RowsAreRegistered`,
`VerificationIsBacked`, `AccountsAreAccounted`, `Reactivation`
(`OnlyAdminsReactivate`).

**ApiKeysProofs.** `NothingUnasked` (rows and copies show only revocations and
disablings that were asked for) holds for overlapping requests; `CopiesCurrent`
(the copy of an uncontended key is its row with the request's own change) carries an answered revocation
through every later save (`RevocationsHold`). Results: `Invariant`,
`RevocationsAreFinal` (`RevokedRejected`), `DisabledStays`
(`DisabledUntilAdmin`).

**AccountsProofs.** E-mails are unique by the database's constraint and
lower-case until an edit (`EmailsUnique`, `UnretypedLower`), which together give
one account for an address; a copy without the column `password` cannot bring an
old one back; `OwnersCopies` is the invariant of uncontended accounts. Results:
`Invariant`, `AddressesUnique` (`OneAccountPerAddress`), `PasswordsStay`
(`PasswordsByChange`), `FlagsByAdmins` (`AdminFieldsByAdmins`).

**ReportsProofs**, metrics. A report is an operator on one state of the table,
so that most of what there is to prove is about data. `MetricsIInv` adds that
nothing has a date in the future (`DatesCome`), and what a handler finds when it
updates (`UpdatesFit`): a payment that nobody else has found pending since is
still pending, and one found with an escrow is still counted. Sums are cardinalities (`Total` counts
pairs of a row and one of its units), which makes them subject to the theorems
about finite sets where a fold would need induction: sums over disjoint sets add
up, sums of sums are sums over unions, and a sum over fewer rows is no
greater.

* `FundsAlwaysAgree` (`FundsAgree`): funnel, locked funds and rankings select
  the same rows of a merchant (`SelectedAddUp`, `ReceivedIsLockedOrPaid`,
  `BreakdownAddsUp`), and its steps narrow (`FunnelNarrows`).
* `PagesAreComplete`: the ranking lists every row once and in order because
  ranks are distinct numbers below the number of rows (`RanksIncrease`,
  `RankingComplete`); every place of it is on exactly one page (`PlaceOnPages`,
  `PageBounds`, `PageLengths`).
* `TercilesAreByRank`: the cut is the value at its index whatever the ties
  (`CutFound`, `CutByRank`).
* `SeriesAreComplete`, `PastBucketsStayFixed`: a bucket is a range of days
  (`BucketsInRow`), a day a range of instants (`HalfDays`), and the rankings of
  these instants select what the bucket counts (`SeriesCounts`,
  `RankedByOwners`). Unless it was found pending twice, a payment that is counted
  keeps its date and stays counted however stale the updates to come, and one
  that becomes so gets a date of an update under way (`UpdateMoves`,
  `PaymentsMove`), which is outside every closed bucket (`ClosedPaymentsStay`).
  Both have the hypothesis
  `Zone = 0`, sessions of the database in UTC, without which they are false
  (section 6).

**ReportsProofs**, commission. `RatesHeld`: every rate that a request goes on
with has been in force; `CommissionWithin` bounds a commission by its amount for
rates up to the whole. `OneInsert`: unless two requests were about to insert the
row (`raced`), none is once it is there, so that no default overwrites a rate.
`OneRateSoFar` is `EstimateIsCharged` in a form that is inductive. The estimate
and the charges are sums over the same payments of what is equal for each of
them (`EstimatedCommission`, `StoredCharged`). Results: `CommissionInvariant`,
`EstimatesAreCharged`, `RatesHold` (`AdminRateHolds`).

**LiveUsersProofs.** `CountedOnce`, `MapsAgree`, `NewestCounted` and
`GuestsExact` become inductive with `AddedWhenDone` (a user is only added by a
handler that is done with its socket, and only a socket whose token names a user
is looked up) and `OwnGuest`. `addUser` touches only the user's own entries,
`removeUserBySocketId` only the socket's. Results: `Invariant`,
`NewestOpenCounts` (`NewestCounted`).

**Only model-checked:** liveness (`PendingSettles`, `ReleaseTold`,
`PaymentsRecorded`): fairness and `ENABLED` are outside what these provers
handle. `IInv` of `EscrowPayments` and of `Businesses`, `AloneInv` and
`TellingInv`, `PostsWithinAttempts`, `DeliveredIsAcked` and
`PaymentAnnouncedOnce` are proved and have no run of their own; the runs check
the properties that they imply, or properties that imply them. No module
declares a `RECURSIVE` operator, and no proof has an induction over data of its
own.

## 6. Where the code and its documents part

Met while modelling. The properties of section 3 are stated so that they say
what the code does guarantee; the following is what they leave out.

* **An expired payment may be paid.** `payments-watcher.service.ts:214` expires
  by the clock alone; `prds/SCROW_PAYMENTS_QR.md:108` says "expired → QR expiró
  sin recibir pago". An escrow locked before the scan that would have seen it,
  or by a transaction answered before the deadline, is not looked at again.
* **Two escrows for one payment.** `payments.service.ts:345` only checks that
  the row is pending, which it stays until a scan; `SCROW_PAYMENTS_QR.md:354`
  says this "evita que se creen escrows duplicados".
* **Auto-release moves no money.** `payments-watcher.service.ts:249` writes the
  status only, and `getConfirmTransaction` then refuses the buyer;
  `prds/QR_API_MERCHANT.md:172` says "dinero liberado automáticamente".
* **A lost `escrow.locked`.** A stop between the update and the dispatch
  (`payments-watcher.service.ts:102`) loses the webhook: the row no longer
  matches the query. `ChangesTold` shows that nothing else loses one.
* **Who may confirm.** With overlapping handlers `buildEscrowTransaction`
  (`payments.service.ts:404`) overwrites `buyer_wallet` while a scan marks the
  escrow of the previous wallet (hence `contended` in `ConfirmerPaid`), against
  `payments.controller.ts:86`, "(la wallet que pagó)".
* **QRs beyond the first batch.** `qr-payment-watcher.service.ts:55` takes the
  25 oldest by `updated_at`, which a scan without a find does not move;
  `prds/SOLANA_PAY_QR.md:35` says it validates "cada una".
* **Two announcements, or none.** Overlapping scans each announce a first
  payment (`qr-payment-watcher.service.ts:145`), and a scan that stops between
  insert and update never announces it (line 94), against "dispara una vez el
  webhook" (`SOLANA_PAY_QR.md:37`).
* **Every PATCH of a QR regenerates it** and opens its amount, since the schema
  turns absent fields into null (`qr-codes.service.ts:133`); the document says
  "si se modifican campos de pago" (`SOLANA_PAY_QR.md:30`). For the same reason
  a partial PATCH of a business erases its logo
  (`update-business.schema.ts:7`, against `businesses.service.ts:159`).
* **Stale saves** reactivate a deactivated business
  (`businesses.service.ts:175`) or account (`users.service.ts:72`), clear a
  revocation (`api-keys.service.ts:270`, against `docs/ADMIN_API_KEYS.md:18`),
  and overwrite the first rate with the default
  (`platform-settings.service.ts:23`): the `contended` and `raced` exemptions.
* **A verified business may move** to a wallet without an account
  (`businesses.service.ts:164`): `VerifiedBacked` is about the account that was
  verified, not about the present wallet.
* **Locked is less than what is in the PDA.** `docs/METRICS.md:95` calls
  `escrow_locked`, `shipped` and `disputed` the "estados donde el SOL sigue en
  la PDA de escrow", and leaves `auto_released` out; since auto-release moves no
  money, the SOL of those payments is in the PDA and in no summary of it, and
  the funnel counts it as paid out. `FundsAgree` is about the statuses.
* **The past may change.** Scans overlap, and write by id. Of two that found a
  payment pending, a `scanEscrowCreated` that ends after midnight writes its
  `paid_at` over that of the other (`payments-watcher.service.ts:80`), which
  moves the payment to another day; a `scanExpired` writes `expired` over
  `escrow_locked` (line 214), which takes it out of the series that
  `docs/METRICS.md:67` dates by `COALESCE(paid_at, created_at)`. And an update
  that is under way at midnight arrives in yesterday's bucket (line 78). TLC
  finds all of these when `PastBucketsFixed` is stated without its two
  conditions, `twice` and `Closed`.
* **Days are those of the database session.** The time series
  (`metrics.service.ts:515`) truncates to days in the zone of the session and
  reads the result as UTC; `SeriesComplete` holds for `Zone = 0` only (with
  another zone TLC finds payments of the first hours of a range outside all
  buckets, or in the bucket of another day). The summary of transactions says
  `AT TIME ZONE 'UTC'` (`transactions.service.ts:132`).
* **An admin's own businesses** are part of the admin's time series and of no
  ranking of merchants (`metrics.service.ts:380`): anyone with an account may
  create a business. `SeriesComplete` sums over all owners for this reason.
* **Round amounts of SOL.** `lamportsToSol` (`transactions.service.ts:24`) strips
  trailing zeros from whole numbers too: 10 SOL are listed as "1"
  (`prds/SOLANA_PAY_QR.md:38`: "`amountSol` con el monto en SOL"). The
  conversion of the metrics strips them from the fraction only.
* **E-mails are normalised by register and login but not by an edit**
  (`users.service.ts:71`): the `retyped` exemption.

## 7. What is not modelled

* Queries and lists of transactions, payments, keys, businesses and users: they
  change no state. Pagination is modelled where `Metrics` uses it; the others
  use the same two helpers.
* Guards, schemas, bootstrap, the IDL script: stateless; where a
  schema changes what a service sees, the model of the service says so.
* Formatting of Solana Pay URLs and images, cryptography, token expiry,
  throttling, CORS.
* Floating point: `Math.floor(amount * 1e9)` (`payments.service.ts:223`) makes
  1000999999 lamports of 1.001 SOL; TLA+ has no floats.
* The Solana program itself: external, modelled as the backend uses it.

## 8. Plan

In this order, most important first. All points are done.

1. Escrow payments with the abstract ledger, its refinement and proofs.
2. Webhook deliveries and QR payments, safety and liveness.
3. Businesses, with proofs.
4. API keys, accounts, commission, live users.
5. `EscrowPayments` and `WebhookDelivery` composed: what a merchant can conclude
   from both together, and what a stop in between may lose.
6. `Metrics`: rankings, pages, funnel, series and volume classes.
7. Proofs of `IInv` for `WebhookDelivery`, `QrPayments`, `ApiKeys`, `Accounts`,
   `Commission` and `LiveUsers`, and of the properties that follow.
8. Proofs of what holds of uncontended payments, deliveries and businesses, with
   the invariants of their copies.
9. Action properties from the same invariants.
10. The composition: the components implemented by the system, the link between
   them, `PostsTruthful` and `ChangesTold`.
11. `DeliveryQueue`, which `WebhookDelivery` implements, and the composed system
   with it.
12. Proofs of the reports of `Metrics`, with sums as cardinalities.
13. `PaymentReceipts`, which `QrPayments` implements.

What could follow: pages that are read while ranks change, and the liveness arguments written out by hand, for which a prover of fairness would
be needed.
