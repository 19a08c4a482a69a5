----------------------------- MODULE Commission -----------------------------
(***************************************************************************)
(* The platform's commission: the single row of platform-settings, what    *)
(* payments.service.ts charges with it when a payment is created, and what *)
(* metrics.service.ts estimates with it later.  None stands for null, for  *)
(* no row and for no request.                                              *)
(***************************************************************************)
EXTENDS PaymentsTable

CONSTANTS
    Bases,          \* amounts in lamports
    Rates,          \* basis points that an admin may set
    Slots           \* requests that may be in flight at the same time

DefaultBps == 100
MaxBps == 10000

ASSUME BasesAssumption == Bases \subseteq Nat
ASSUME RatesAssumption == Rates \subseteq 0..MaxBps

VARIABLES
    setting,        \* commission_bps of the row "default"
    task,           \* the request each slot is running
    payment,        \* the payments table: amount and commission
    locked,         \* payments whose escrow the buyer has signed
    inForce,        \* history: every rate the row has held
    chosen,         \* history: the rate the admin was last told he set
    report,         \* history: the last estimate, and what had been charged
    raced           \* history: two requests were about to insert the row

vars == <<setting, task, payment, locked, inForce, chosen, report, raced>>

-----------------------------------------------------------------------------
\* Variant: basis points taken for thousandths.
InThousandths(base, bps) == IF bps <= 0 THEN 0 ELSE (base * bps) \div 1000

\* computeCommissionLamports, in bigint.
ComputeCommission(base, bps) ==
    IF bps <= 0 THEN 0 ELSE (base * bps) \div 10000

\* commission_lamports: null when there is nothing to charge.
Stored(fee) == IF fee > 0 THEN fee ELSE None

Charged(fee) == IF fee = None THEN 0 ELSE fee

Payment == [base : Nat, fee : Nat \cup {None}]

\* op, its argument (bps of a patch, lamports of a quote) and where it is:
\* "default" about to insert the row, "have" with a rate in hand.
Task == [op : {"get", "patch", "quote", "report"}, arg : Nat,
         pc : {"default", "have"}, bps : 0..MaxBps]

ASSUME NoneAssumption == None \notin Nat \cup Payment \cup Task

TypeOK ==
    /\ setting \in 0..MaxBps \cup {None}
    /\ task \in [Slots -> Task \cup {None}]
    /\ payment \in [Payments -> Payment \cup {None}]
    /\ locked \subseteq Payments
    /\ inForce \subseteq 0..MaxBps
    /\ chosen \in Rates \cup {None}
    /\ DOMAIN report = {"estimated", "charged"}
    /\ raced \in BOOLEAN

Init ==
    /\ setting = None
    /\ task = [t \in Slots |-> None]
    /\ payment = [p \in Payments |-> None]
    /\ locked = {}
    /\ inForce = {}
    /\ chosen = None
    /\ report = [estimated |-> 0, charged |-> 0]
    /\ raced = FALSE

-----------------------------------------------------------------------------
Begin(t, op, arg, pc, bps) ==
    task' = [task EXCEPT ![t] = [op |-> op, arg |-> arg, pc |-> pc, bps |-> bps]]

End(t) == task' = [task EXCEPT ![t] = None]

Store(bps) ==
    /\ setting' = bps
    /\ inForce' = inForce \cup {bps}

AboutToInsert(t) == task[t] # None /\ task[t].pc = "default"

\* Whether the request that begins in slot t joins another about to insert.
NoteRace(t) ==
    raced' = (raced \/ (setting = None /\ \E u \in Slots \ {t} : AboutToInsert(u)))

\* Variant: a rate of 0 is taken for no rate.
ReadTruthy(t, op, arg) ==
    /\ task[t] = None
    /\ IF setting \in {None, 0} THEN Begin(t, op, arg, "default", DefaultBps)
                           ELSE Begin(t, op, arg, "have", setting)
    /\ NoteRace(t)
    /\ UNCHANGED <<setting, payment, locked, inForce, chosen, report>>

\* getOrCreate: find the row.
Read(t, op, arg) ==
    /\ task[t] = None
    /\ IF setting = None THEN Begin(t, op, arg, "default", DefaultBps)
                         ELSE Begin(t, op, arg, "have", setting)
    /\ NoteRace(t)
    /\ UNCHANGED <<setting, payment, locked, inForce, chosen, report>>

\* getOrCreate: save the default.  save() updates a row that is there by now.
SaveDefault(t) ==
    /\ AboutToInsert(t)
    /\ task' = [task EXCEPT ![t].pc = "have"]
    /\ Store(DefaultBps)
    /\ UNCHANGED <<payment, locked, chosen, report, raced>>

Has(t, op) == task[t] # None /\ task[t].pc = "have" /\ task[t].op = op

\* getCommission answers.
Answer(t) ==
    /\ Has(t, "get")
    /\ End(t)
    /\ UNCHANGED <<setting, payment, locked, inForce, chosen, report, raced>>

\* setCommissionBps saves the rate of the body, and answers.
SavePatch(t) ==
    /\ Has(t, "patch")
    /\ Store(task[t].arg)
    /\ chosen' = task[t].arg
    /\ End(t)
    /\ UNCHANGED <<payment, locked, report, raced>>

\* createPaymentQr saves the payment with the commission of the rate it read.
SaveQuote(t, p) ==
    /\ Has(t, "quote")
    /\ payment[p] = None
    /\ payment' = [payment EXCEPT ![p] =
           [base |-> task[t].arg,
            fee |-> Stored(ComputeCommission(task[t].arg, task[t].bps))]]
    /\ End(t)
    /\ UNCHANGED <<setting, locked, inForce, chosen, report, raced>>

\* buildEscrowTransaction adds the stored commission to the transaction; the
\* buyer signs it, and the payment counts for the metrics from then on.
Lock(p) ==
    /\ payment[p] # None
    /\ p \notin locked
    /\ locked' = locked \cup {p}
    /\ UNCHANGED <<setting, task, payment, inForce, chosen, report, raced>>

\* Variant: the rate applied to the volume instead of to each payment.
EstimateOfVolume(bps) ==
    (Total([p \in locked |-> payment[p].base]) * bps) \div 10000

\* SUM((amount_lamports * bps) / 10000)
Estimate(bps) ==
    Total([p \in locked |-> (payment[p].base * bps) \div 10000])

\* What the escrow transactions of these payments were built with.
ChargedInAll == Total([p \in locked |-> Charged(payment[p].fee)])

\* getAdminMerchantsPaymentMetrics runs its query.
Report(t) ==
    /\ Has(t, "report")
    /\ report' = [estimated |-> Estimate(task[t].bps), charged |-> ChargedInAll]
    /\ End(t)
    /\ UNCHANGED <<setting, payment, locked, inForce, chosen, raced>>

\* A query or a save fails.
Fails(t) ==
    /\ task[t] # None
    /\ End(t)
    /\ UNCHANGED <<setting, payment, locked, inForce, chosen, report, raced>>

Next ==
    \/ \E t \in Slots :
           \/ Read(t, "get", 0)
           \/ \E bps \in Rates : Read(t, "patch", bps)
           \/ \E base \in Bases : Read(t, "quote", base)
           \/ Read(t, "report", 0)
           \/ SaveDefault(t)
           \/ Answer(t)
           \/ SavePatch(t)
           \/ \E p \in Payments : SaveQuote(t, p)
           \/ Report(t)
           \/ Fails(t)
    \/ \E p \in Payments : Lock(p)

Spec == Init /\ [][Next]_vars

-----------------------------------------------------------------------------
\* A commission is never more than the amount, and null when it is nothing:
\* what computeCommissionLamports and the bounds of patchCommissionSchema
\* promise together.
FeesWithinAmounts ==
    \A p \in Payments :
        payment[p] # None /\ payment[p].fee # None =>
            payment[p].fee \in 1..payment[p].base

\* What a payment is charged is the commission of a rate that was in force,
\* however the requests that read and set the rate overlap.
FeesOfRates ==
    \A p \in Payments :
        payment[p] # None =>
            \E bps \in inForce :
                payment[p].fee = Stored(ComputeCommission(payment[p].base, bps))

\* Every rate that a request goes on with was in force, and is gone on with
\* after the row was made; only payments that were created are locked.
RatesHeld ==
    /\ setting # None => setting \in inForce
    /\ inForce # {} => setting # None
    /\ \A t \in Slots : task[t] # None =>
           /\ IF task[t].pc = "have" THEN task[t].bps \in inForce
                                    ELSE task[t].bps = DefaultBps
           /\ task[t].op = "patch" => task[t].arg \in Rates
    /\ \A p \in locked : payment[p] # None

\* As long as the row has had one rate.
OneRateSoFar ==
    (\A a, b \in inForce : a = b) => report.estimated = report.charged

\* Only one request is about to insert the row, and none once it is there; what
\* the admin has set is what the row has.
OneInsert ==
    ~raced =>
        /\ \A t, u \in Slots : AboutToInsert(t) /\ AboutToInsert(u) => t = u
        /\ \A t \in Slots : AboutToInsert(t) => setting = None
        /\ chosen # None => setting = chosen

IInv ==
    /\ TypeOK
    /\ RatesHeld
    /\ FeesWithinAmounts
    /\ FeesOfRates
    /\ OneRateSoFar
    /\ OneInsert

\* "Por cada pago incluido: floor(amount_lamports * commission_bps / 10000) y
\* se suma" (docs/METRICS.md): with one rate from the start, the estimate of
\* the metrics is what the payments were charged, to the lamport.
EstimateIsCharged ==
    Cardinality(inForce) = 1 => report.estimated = report.charged

\* "Fijar comisión al 2.5% (250 bps)" (docs/METRICS.md): the rate an admin has
\* set, 0 included, holds until he sets another one -- unless two requests
\* were about to insert the row: the second save overwrites.
AdminRateHolds == chosen # None /\ ~raced => setting = chosen

=============================================================================
