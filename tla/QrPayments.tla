----------------------------- MODULE QrPayments -----------------------------
(***************************************************************************)
(* Direct payments to the QR codes of one verified business:               *)
(* qr-codes.service.ts, the transactions table, and the cron scan of       *)
(* qr-payment-watcher.service.ts.                                          *)
(*                                                                         *)
(* A QR carries a reference, and every payment made with it names that     *)
(* reference on chain.  A scan copies a batch of QRs, lists the payments   *)
(* of each copy's reference, records in `transactions` the valid ones that *)
(* are not there yet, and announces the first one of each QR.  Cron does   *)
(* not wait for the previous scan, and the merchant edits and removes QRs  *)
(* meanwhile.                                                              *)
(***************************************************************************)
EXTENDS Naturals, Sequences, FiniteSets

CONSTANTS
    Qrs,            \* QRs that may be created
    MaxRefs,        \* bound: references generated for one QR
    MaxPayments,    \* bound: payments made on chain
    MaxUpdates,     \* bound: PATCH requests in flight
    Slots,          \* scans that may be in flight at the same time
    BatchSize,      \* QR_BATCH
    SigLimit,       \* SIG_LIMIT
    PollEnabled     \* PAYMENT_POLL_ENABLED is not 'false'

ASSUME BoundsAssumption == MaxRefs \in Nat /\ MaxPayments \in Nat
                              /\ MaxUpdates \in Nat
ASSUME LimitsAssumption == BatchSize \in Nat \ {0} /\ SigLimit \in Nat \ {0}
ASSUME PollAssumption == PollEnabled \in BOOLEAN
ASSUME QrsAssumption == "none" \notin Qrs

VARIABLES
    qr,         \* the qr_codes table
    older,      \* <<q, r>>: updated_at of q is before updated_at of r
    refs,       \* how many references were generated for each QR
    updating,   \* PATCH requests that have read their QR and not yet saved it
    chain,      \* payments on chain, in order; the index is the signature
    record,     \* the transactions table, by signature
    task,       \* what each slot is running
    sent,       \* payment.confirmed events dispatched
    removed,    \* history: QRs that were removed at some time
    missed,     \* history: payments that a failure took from a scan between
                \* their insert and their announcement
    overtaken,  \* history: QRs into which a scan wrote a payment of an older
                \* reference than the one they had by then
    contended   \* history: QRs two scans held at the same time

tables == <<qr, older, record>>
history == <<removed, missed, overtaken, contended>>
vars == <<tables, refs, updating, chain, task, sent, history>>

-----------------------------------------------------------------------------
Signatures == 1..MaxPayments
NoSignature == 0

\* amount_lamports: the exact amount to pay, or null, any amount will do.
Amounts == {"fixed", "open"}

\* What a payment transfers to the business: the QR's amount, less, or nothing
\* (the transfer goes elsewhere or failed).
Transfers == {"full", "partial", "nothing"}
Payment == [q : Qrs, ref : 1..MaxRefs, transfer : Transfers]

\* validateTransfer, with an expected amount of 0 for an open one.
Valid(payment, amount) ==
    payment.transfer = "full" \/ (payment.transfer = "partial" /\ amount = "open")

\* is_active is never changed by a request.  payment_confirmed_at is written
\* with payment_signature.
Row == [present : BOOLEAN, ref : 0..MaxRefs, amount : Amounts,
        paid : Signatures \cup {NoSignature}]
AbsentRow == [present |-> FALSE, ref |-> 0, amount |-> "open",
              paid |-> NoSignature]

Transaction == [q : Qrs, ref : 1..MaxRefs, amount : Amounts]
NoTransaction == [q |-> "none", ref |-> 0, amount |-> "open"]

\* A QR as a scan read it.
Copy == [q : Qrs, ref : 1..MaxRefs, amount : Amounts, paid : BOOLEAN]
NoCopy == [q |-> "none", ref |-> 0, amount |-> "open", paid |-> FALSE]

\* A PATCH: whether its body has a payment field (label, amountLamports), and
\* the amountLamports of the parsed body.
Update == [q : Qrs, payment : BOOLEAN, amount : Amounts]

\* pc "next": about to take up one of todo; "sig": about to look at the first
\* of sigs; "save", "update", "dispatch": about to insert it, to update the
\* QR, to dispatch.  handled is firstForQrHandled.
Task == [pc : {"idle", "next", "sig", "save", "update", "dispatch"},
         cur : Copy \cup {NoCopy}, todo : SUBSET Copy,
         sigs : SUBSET Signatures, handled : BOOLEAN]
Idle == [pc |-> "idle", cur |-> NoCopy, todo |-> {}, sigs |-> {},
         handled |-> FALSE]

TypeOK ==
    /\ qr \in [Qrs -> Row]
    /\ older \subseteq Qrs \X Qrs
    /\ refs \in [Qrs -> 0..MaxRefs]
    /\ updating \subseteq Update
    /\ chain \in Seq(Payment) /\ Len(chain) <= MaxPayments
    /\ record \in [Signatures -> Transaction \cup {NoTransaction}]
    /\ task \in [Slots -> Task]
    /\ sent \subseteq [q : Qrs, ref : 1..MaxRefs, s : Signatures]
    /\ removed \subseteq Qrs
    /\ missed \subseteq Signatures
    /\ overtaken \subseteq Qrs
    /\ contended \subseteq Qrs

Init ==
    /\ qr = [q \in Qrs |-> AbsentRow]
    /\ older = {}
    /\ refs = [q \in Qrs |-> 0]
    /\ updating = {}
    /\ chain = <<>>
    /\ record = [s \in Signatures |-> NoTransaction]
    /\ task = [t \in Slots |-> Idle]
    /\ sent = {}
    /\ removed = {}
    /\ missed = {}
    /\ overtaken = {}
    /\ contended = {}

-----------------------------------------------------------------------------
(* Requests of the merchant.                                               *)

\* @UpdateDateColumn: the row just written is the latest one.
Touch(q) ==
    older' = {p \in older : p[1] # q /\ p[2] # q}
             \cup {<<r, q>> : r \in {x \in Qrs \ {q} : qr[x].present}}

CreateQr(q, amount) ==
    /\ refs[q] = 0 /\ MaxRefs > 0
    /\ qr' = [qr EXCEPT ![q] = [present |-> TRUE, ref |-> 1,
                                amount |-> amount, paid |-> NoSignature]]
    /\ refs' = [refs EXCEPT ![q] = 1]
    /\ Touch(q)
    /\ UNCHANGED <<updating, chain, record, task, sent, history>>

\* Whether some payment field of the parsed body is not undefined: the schema
\* turns an absent amountLamports or tokenMint into null.
PaymentFieldsChanged(u) == u.payment \/ u.amount # "undefined"

\* PATCH reads the QR.
UpdateBegin(q, payment, amount) ==
    /\ qr[q].present
    /\ refs[q] < MaxRefs /\ Cardinality(updating) < MaxUpdates
    /\ ~payment => amount = "open"
    /\ updating' = updating \cup
                   {[q |-> q, payment |-> payment, amount |-> amount]}
    /\ UNCHANGED <<tables, refs, chain, task, sent, history>>

\* Variant: a regenerated QR keeps the payment of the old one.
RegenerateStillPaid(u) ==
    /\ u \in updating
    /\ PaymentFieldsChanged(u)
    /\ refs[u.q] < MaxRefs
    /\ updating' = updating \ {u}
    /\ refs' = [refs EXCEPT ![u.q] = @ + 1]
    /\ qr' = [qr EXCEPT ![u.q] =
                 [present |-> TRUE, ref |-> refs[u.q] + 1,
                  amount |-> u.amount, paid |-> qr[u.q].paid]]
    /\ Touch(u.q)
    /\ overtaken' = overtaken \ {u.q}
    /\ UNCHANGED <<chain, record, task, sent, removed, missed, contended>>

\* ... builds a new QR if a payment field changed, and saves the whole row
\* (inserting it again if it was removed meanwhile).
UpdateFinish(u) ==
    /\ u \in updating
    /\ PaymentFieldsChanged(u)
    /\ refs[u.q] < MaxRefs
    /\ updating' = updating \ {u}
    /\ refs' = [refs EXCEPT ![u.q] = @ + 1]
    /\ qr' = [qr EXCEPT ![u.q] =
                 [present |-> TRUE, ref |-> refs[u.q] + 1,
                  amount |-> u.amount, paid |-> NoSignature]]
    /\ Touch(u.q)
    /\ overtaken' = overtaken \ {u.q}
    /\ UNCHANGED <<chain, record, task, sent, removed, missed, contended>>

\* The QR's transactions are deleted in cascade.
RemoveQr(q) ==
    /\ qr[q].present
    /\ qr' = [qr EXCEPT ![q] = AbsentRow]
    /\ older' = {p \in older : p[1] # q /\ p[2] # q}
    /\ record' = [s \in Signatures |->
                     IF record[s].q = q THEN NoTransaction ELSE record[s]]
    /\ removed' = removed \cup {q}
    /\ UNCHANGED <<refs, updating, chain, task, sent, missed, overtaken,
                   contended>>

\* Buyers may use any QR that was ever shown to them (external).
Pay(q, ref, transfer) ==
    /\ Len(chain) < MaxPayments
    /\ ref <= refs[q]
    /\ chain' = Append(chain, [q |-> q, ref |-> ref, transfer |-> transfer])
    /\ UNCHANGED <<tables, refs, updating, task, sent, history>>

-----------------------------------------------------------------------------
(* scanPendingPayments.                                                    *)

\* Variant: only QRs without a payment are scanned.
Unpaid == {q \in Qrs : qr[q].present /\ qr[q].paid = NoSignature}

\* where: { isActive: true, referencePubkey: Not(IsNull()) }
Present == {q \in Qrs : qr[q].present}

\* `order: { updatedAt: 'ASC' }, take: QR_BATCH`.
OldestBatches ==
    {b \in SUBSET Present :
        /\ b # {}
        /\ Cardinality(b) <= BatchSize
        /\ b # Present => Cardinality(b) = BatchSize
        /\ \A q \in b, r \in Present \ b : <<q, r>> \in older}

\* QRs of which a scan still has a copy.
Copied(t) == {c.q : c \in task[t].todo \cup ({task[t].cur} \ {NoCopy})}

ScanStart(t) ==
    /\ PollEnabled
    /\ task[t] = Idle
    /\ \E batch \in OldestBatches :
          /\ task' = [task EXCEPT ![t] =
                [pc |-> "next", cur |-> NoCopy,
                 todo |-> {[q |-> q, ref |-> qr[q].ref,
                            amount |-> qr[q].amount,
                            paid |-> qr[q].paid # NoSignature] : q \in batch},
                 sigs |-> {}, handled |-> FALSE]]
          /\ contended' = contended \cup
                              (batch \cap UNION {Copied(u) : u \in Slots})
    /\ UNCHANGED <<tables, refs, updating, chain, sent, removed, missed,
                   overtaken>>

\* The last SIG_LIMIT signatures that name a reference of q.
SignaturesFor(q, ref) ==
    LET all == {s \in DOMAIN chain : chain[s].q = q /\ chain[s].ref = ref}
    IN  {s \in all : Cardinality({r \in all : r > s}) < SigLimit}

\* The loops: on to the next signature of cur, the next QR, or the end.
GoOn(t, cur, todo, sigs, handled) ==
    task' = [task EXCEPT ![t] =
        IF sigs # {}
        THEN [pc |-> "sig", cur |-> cur, todo |-> todo,
              sigs |-> sigs, handled |-> handled]
        ELSE IF todo # {}
        THEN [pc |-> "next", cur |-> NoCopy, todo |-> todo,
              sigs |-> {}, handled |-> FALSE]
        ELSE Idle]

NextSignature(t, sigs, handled) ==
    GoOn(t, task[t].cur, task[t].todo, sigs, handled)

GoTo(t, pc) == task' = [task EXCEPT ![t].pc = pc]

TakeQr(t, c) ==
    /\ task[t].pc = "next"
    /\ c \in task[t].todo
    /\ GoOn(t, c, task[t].todo \ {c}, SignaturesFor(c.q, c.ref), c.paid)
    /\ UNCHANGED <<tables, refs, updating, chain, sent, history>>

\* getSignaturesForAddress fails: `continue`.
SkipQr(t, c) ==
    /\ task[t].pc = "next"
    /\ c \in task[t].todo
    /\ GoOn(t, NoCopy, task[t].todo \ {c}, {}, FALSE)
    /\ UNCHANGED <<tables, refs, updating, chain, sent, history>>

\* Signatures are taken in the order of the chain.
Current(t) == CHOOSE s \in task[t].sigs : \A r \in task[t].sigs : s <= r
Others(t) == task[t].sigs \ {Current(t)}

\* Already recorded, or rejected by validateTransfer: not valid for this
\* copy, or not found by this RPC node.
SkipSignature(t) ==
    /\ task[t].pc = "sig"
    /\ NextSignature(t, Others(t), task[t].handled)
    /\ UNCHANGED <<tables, refs, updating, chain, sent, history>>

\* Variant: any payment with the reference is accepted.
AcceptAnyTransfer(t) ==
    /\ task[t].pc = "sig"
    /\ record[Current(t)] = NoTransaction
    /\ GoTo(t, "save")
    /\ UNCHANGED <<tables, refs, updating, chain, sent, history>>

Validate(t) ==
    /\ task[t].pc = "sig"
    /\ record[Current(t)] = NoTransaction
    /\ Valid(chain[Current(t)], task[t].cur.amount)
    /\ GoTo(t, "save")
    /\ UNCHANGED <<tables, refs, updating, chain, sent, history>>

\* Variants: a duplicate is not told apart from a new row; a payment is
\* announced whatever the QR says.
SaveDuplicates(t) ==
    LET c == task[t].cur
        s == Current(t)
    IN  /\ task[t].pc = "save"
        /\ qr[c.q].present
        /\ record' = [record EXCEPT ![s] =
                         [q |-> c.q, ref |-> c.ref, amount |-> c.amount]]
        /\ IF task[t].handled THEN NextSignature(t, Others(t), TRUE)
                              ELSE GoTo(t, "update")
        /\ UNCHANGED <<qr, older, refs, updating, chain, sent, history>>

SaveAndAnnounce(t) ==
    LET c == task[t].cur
        s == Current(t)
    IN  /\ task[t].pc = "save"
        /\ qr[c.q].present
        /\ record[s] = NoTransaction
        /\ record' = [record EXCEPT ![s] =
                         [q |-> c.q, ref |-> c.ref, amount |-> c.amount]]
        /\ GoTo(t, "update")
        /\ UNCHANGED <<qr, older, refs, updating, chain, sent, history>>

\* The insert: a unique signature (23505: `continue`) and a QR to refer to
\* (ScanFails otherwise).
SaveTransaction(t) ==
    LET c == task[t].cur
        s == Current(t)
    IN  /\ task[t].pc = "save"
        /\ IF record[s] # NoTransaction
           THEN /\ NextSignature(t, Others(t), task[t].handled)
                /\ UNCHANGED record
           ELSE /\ qr[c.q].present
                /\ record' = [record EXCEPT ![s] =
                       [q |-> c.q, ref |-> c.ref, amount |-> c.amount]]
                /\ IF task[t].handled THEN NextSignature(t, Others(t), TRUE)
                                      ELSE GoTo(t, "update")
        /\ UNCHANGED <<qr, older, refs, updating, chain, sent, history>>

\* UPDATE ... WHERE id: whatever the row says by now, if it is still there.
UpdateQr(t) ==
    LET q == task[t].cur.q IN
    /\ task[t].pc = "update"
    /\ IF qr[q].present
       THEN /\ qr' = [qr EXCEPT ![q].paid = Current(t)]
            /\ Touch(q)
            /\ task' = [task EXCEPT ![t].pc = "dispatch", ![t].handled = TRUE]
            /\ overtaken' = IF task[t].cur.ref = qr[q].ref THEN overtaken
                            ELSE overtaken \cup {q}
       ELSE /\ NextSignature(t, Others(t), FALSE)
            /\ UNCHANGED <<qr, older, overtaken>>
    /\ UNCHANGED <<refs, updating, chain, record, sent, removed, missed,
                   contended>>

Dispatch(t) ==
    /\ task[t].pc = "dispatch"
    /\ sent' = sent \cup
               {[q |-> task[t].cur.q, ref |-> task[t].cur.ref, s |-> Current(t)]}
    /\ NextSignature(t, Others(t), TRUE)
    /\ UNCHANGED <<tables, refs, updating, chain, history>>

-----------------------------------------------------------------------------
(* Failures.                                                               *)

\* A payment that is recorded and not announced: no scan looks at it again.
AtRisk(t) == IF task[t].pc \in {"update", "dispatch"} THEN {Current(t)} ELSE {}

\* Any other rejected await ends the whole scan.
ScanFails(t) ==
    /\ task[t] # Idle
    /\ task' = [task EXCEPT ![t] = Idle]
    /\ missed' = missed \cup AtRisk(t)
    /\ UNCHANGED <<tables, refs, updating, chain, sent, removed, overtaken,
                   contended>>

ProcessStops ==
    /\ updating # {} \/ \E t \in Slots : task[t] # Idle
    /\ task' = [t \in Slots |-> Idle]
    /\ updating' = {}
    /\ missed' = missed \cup UNION {AtRisk(t) : t \in Slots}
    /\ UNCHANGED <<tables, refs, chain, sent, removed, overtaken, contended>>

-----------------------------------------------------------------------------
Merchant ==
    \/ \E q \in Qrs, amount \in Amounts :
          \/ CreateQr(q, amount)
          \/ \E payment \in BOOLEAN : UpdateBegin(q, payment, amount)
    \/ \E u \in updating : UpdateFinish(u)
    \/ \E q \in Qrs : RemoveQr(q)

Progress(t) ==
    \/ \E c \in task[t].todo : TakeQr(t, c) \/ SkipQr(t, c)
    \/ SkipSignature(t)
    \/ Validate(t)
    \/ SaveTransaction(t)
    \/ UpdateQr(t)
    \/ Dispatch(t)
    \/ ScanFails(t)

Next ==
    \/ Merchant
    \/ \E q \in Qrs, ref \in 1..MaxRefs, transfer \in Transfers :
          Pay(q, ref, transfer)
    \/ \E t \in Slots : ScanStart(t) \/ Progress(t)
    \/ ProcessStops

Spec == Init /\ [][Next]_vars
-----------------------------------------------------------------------------
(* Safety with any number of scans in flight.                               *)

\* A recorded transaction is a payment of that reference of that QR, and of
\* the amount the row says was expected, though the QR may have been edited
\* between the read of the copy and the insert.
RecordsTruthful ==
    \A s \in Signatures :
        record[s] # NoTransaction =>
            /\ s \in DOMAIN chain
            /\ chain[s].q = record[s].q /\ chain[s].ref = record[s].ref
            /\ Valid(chain[s], record[s].amount)

\* A QR shown as paid has the transaction that paid it (until a removal, whose
\* cascade an update in flight may survive).
PaidIsRecorded ==
    \A q \in Qrs \ removed :
        qr[q].paid # NoSignature => record[qr[q].paid].q = q

\* What a scan in flight knows of the payment it is about to record, write into
\* the QR or announce: none of it may be undone by the others' steps, a
\* removal of the QR apart.
ScanKnows(t) ==
    LET c == task[t].cur
        pc == task[t].pc
    IN  /\ pc = "idle" => task[t] = Idle
        /\ pc = "next" => c = NoCopy
        /\ pc \in {"sig", "save", "update", "dispatch"} =>
              /\ c \in Copy /\ task[t].sigs # {}
              /\ \A s \in task[t].sigs :
                    s \in DOMAIN chain /\ chain[s].q = c.q /\ chain[s].ref = c.ref
        /\ pc \in {"save", "update", "dispatch"} =>
              Valid(chain[Current(t)], c.amount)
        /\ pc \in {"update", "dispatch"} /\ c.q \notin removed =>
              record[Current(t)].q = c.q

\* Copies of a QR that a scan holds; it has one of each QR.
Copies(t) == task[t].todo \cup ({task[t].cur} \ {NoCopy})

OneCopyInScan ==
    \A t \in Slots :
        /\ task[t].cur \notin task[t].todo
        /\ \A c, d \in Copies(t) : c.q = d.q => c = d

\* References are generated one after the other: rows, copies and payments
\* have one of them, and a QR that was not removed has the last.
RefsInOrder ==
    /\ \A q \in Qrs : IF qr[q].present
                      THEN qr[q].ref = refs[q] /\ refs[q] > 0
                      ELSE qr[q] = AbsentRow /\ (q \in removed \/ refs[q] = 0)
    /\ \A s \in DOMAIN chain : chain[s].ref <= refs[chain[s].q]
    /\ \A t \in Slots : \A c \in Copies(t) : c.ref <= refs[c.q]

\* Between insert and announcement a payment is in one scan's hands, and was
\* not announced before.
Announcing(t) == task[t].pc \in {"update", "dispatch"}

AnnouncedRecorded ==
    /\ missed \subseteq DOMAIN chain
    /\ \A e \in sent :
          /\ e.s \in DOMAIN chain
          /\ chain[e.s].q = e.q /\ chain[e.s].ref = e.ref
          /\ e.q \notin removed => record[e.s].q = e.q
    /\ \A t \in Slots :
          Announcing(t) /\ task[t].cur.q \notin removed =>
              /\ \A e \in sent : e.s # Current(t)
              /\ \A u \in Slots \ {t} :
                    Announcing(u) => Current(u) # Current(t)

\* An announced payment is a recorded one, and no payment is announced twice,
\* though two scans may have found it at the same time.
PaymentAnnouncedOnce ==
    [][\A t \in Slots :
          Dispatch(t) /\ task[t].cur.q \notin removed =>
              /\ record[Current(t)].q = task[t].cur.q
              /\ \A e \in sent : e.s # Current(t)]_vars

\* The merchant has been told, or is being told, of a payment of the QR's
\* current reference -- or a failure took one from a scan halfway, or a scan
\* has marked the regenerated QR as paid by a payment of an older reference.
Told(q) ==
    \/ \E e \in sent : e.q = q /\ e.ref = qr[q].ref
    \/ \E t \in Slots : /\ Announcing(t)
                        /\ task[t].cur.q = q /\ task[t].cur.ref = qr[q].ref
    \/ \E s \in missed : chain[s].q = q
    \/ q \in overtaken

RecordedNow(q) ==
    \E s \in Signatures : record[s].q = q /\ record[s].ref = qr[q].ref

\* The first payment of a QR is told to the merchant, whatever other scans and
\* edits came in between.
FirstPaymentTold == \A q \in Qrs \ removed : RecordedNow(q) => Told(q)

\* What keeps a scan from announcing a payment of the current reference: the
\* row, its copy or the scan itself says that there was one.
TakenForTold(q) ==
    \/ qr[q].paid # NoSignature
    \/ \E t \in Slots :
          \/ \E c \in task[t].todo : c.q = q /\ c.ref = qr[q].ref /\ c.paid
          \/ /\ task[t].cur.q = q /\ task[t].cur.ref = qr[q].ref
             /\ task[t].handled

TakenIsTold == \A q \in Qrs \ removed : TakenForTold(q) => Told(q)

-----------------------------------------------------------------------------
(* What holds of a QR that no two scans held at the same time, whatever the *)
(* merchant edits meanwhile, and is lost when scans overlap.                *)

\* "dispara una vez el webhook payment.confirmed": once for each reference.
AnnouncedOnce ==
    \A d, e \in sent :
        d.q = e.q /\ d.ref = e.ref /\ d.q \notin contended => d.s = e.s

\* What an announcement leaves behind, so that there is not another.
SpentRow(q, ref) == qr[q].ref = ref => qr[q].paid # NoSignature

OneScan ==
    \A q \in Qrs \ contended : \A t, u \in Slots :
        q \in Copied(t) /\ q \in Copied(u) => t = u

MarkedBeforeDispatch ==
    \A t \in Slots :
        task[t].pc = "dispatch" /\ task[t].cur.q \notin contended =>
            SpentRow(task[t].cur.q, task[t].cur.ref)

SpentBy(t, e) ==
    /\ \A c \in task[t].todo : c.q = e.q /\ c.ref = e.ref => c.paid
    /\ task[t].cur.q = e.q /\ task[t].cur.ref = e.ref =>
          task[t].handled /\ ~Announcing(t)

SentIsSpent ==
    \A e \in sent : e.q \notin contended =>
        SpentRow(e.q, e.ref) /\ \A t \in Slots : SpentBy(t, e)

\* The inductive invariant behind all of them.
IInv ==
    /\ TypeOK
    /\ \A t \in Slots : ScanKnows(t)
    /\ RecordsTruthful
    /\ PaidIsRecorded
    /\ OneCopyInScan
    /\ RefsInOrder
    /\ AnnouncedRecorded
    /\ FirstPaymentTold
    /\ TakenIsTold
    /\ AnnouncedOnce
    /\ OneScan
    /\ MarkedBeforeDispatch
    /\ SentIsSpent

-----------------------------------------------------------------------------
(* The receipts of PaymentReceipts, as tables and scans present them.      *)

\* Each scan between an insert and its announcement, with the payment.
Telling == {<<t, Current(t)>> : t \in {u \in Slots : Announcing(u)}}

Receipts == INSTANCE PaymentReceipts WITH
    Tellers <- Slots,
    paid <- DOMAIN chain,
    recorded <- {s \in Signatures : record[s] # NoTransaction},
    telling <- Telling,
    told <- {e.s : e \in sent},
    void <- {s \in DOMAIN chain : chain[s].q \in removed}

\* Whatever scans overlap, fail or find a QR edited or removed: a payment is
\* recorded when it is not yet, only the scan that has recorded it may announce
\* it, and it does so once or is cut short.
ImplementsReceipts == Receipts!Spec

-----------------------------------------------------------------------------
(* Liveness.  Cron keeps starting scans, a scan in flight does not hang,    *)
(* and neither the RPC node nor the database fails for ever at the same     *)
(* call.                                                                    *)

TakesUp(t, q) == \E c \in task[t].todo : c.q = q /\ TakeQr(t, c)

\* The signature gets the verdict it deserves.
Examines(t, s) ==
    /\ s \in task[t].sigs /\ Current(t) = s
    /\ \/ Validate(t)
       \/ /\ record[s] = NoTransaction => ~Valid(chain[s], task[t].cur.amount)
          /\ SkipSignature(t)

Fairness ==
    \A t \in Slots :
        /\ WF_vars(Progress(t))
        /\ SF_vars(ScanStart(t))
        /\ \A q \in Qrs : SF_vars(TakesUp(t, q))
        /\ \A s \in Signatures : SF_vars(Examines(t, s))
        /\ SF_vars(SaveTransaction(t))

FairSpec == Spec /\ Fairness

Collectable(s) ==
    /\ s \in DOMAIN chain
    /\ qr[chain[s].q].ref = chain[s].ref
    /\ Valid(chain[s], qr[chain[s].q].amount)

\* A valid payment of the current reference is recorded in the end, unless the
\* QR is edited or removed first.
PaymentsRecorded ==
    \A s \in Signatures :
        Collectable(s) ~> (record[s] # NoTransaction \/ ~Collectable(s))
=============================================================================
