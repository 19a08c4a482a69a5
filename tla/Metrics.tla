------------------------------ MODULE Metrics -------------------------------
(***************************************************************************)
(* The reports of metrics.service.ts over the payments table: rankings,    *)
(* SOL in escrow, funnel, time series and volume classes, each an operator *)
(* on the table, while payments move through their states: a handler reads *)
(* a row, and later updates it by id, whatever the row is by then.         *)
(*                                                                         *)
(* Time is counted in half days (UTC), so that a moment has a day, and a   *)
(* session of the database in another time zone has other days.            *)
(***************************************************************************)
EXTENDS PaymentsTable, Sequences, FiniteSetsExt, Functions

CONSTANTS
    Users,          \* numbered in the order of their e-mails
    Merchants,      \* the users whose role is merchant; the others are admins
    Businesses,     \* numbered in the order of their names
    UserOf,         \* the owner of each business
    Askers,         \* the businesses that may ask for each payment
    Amount,         \* lamports of each payment
    Handlers,       \* who may have read a row and not yet updated it
    Moments,        \* the half days at which something happens
    Zone,           \* time zone of the database sessions, in half days
    PageLimits,     \* page sizes that an admin asks for
    BucketCounts    \* lengths of the time series that are asked for

ASSUME UsersAssumption ==
    Users \subseteq Nat /\ Merchants \subseteq Users /\ IsFiniteSet(Users)
ASSUME BusinessesAssumption ==
    /\ Businesses \subseteq Nat /\ IsFiniteSet(Businesses)
    /\ UserOf \in [Businesses -> Users]
ASSUME PaymentsAssumption ==
    /\ Askers \in [Payments -> SUBSET Businesses]
    /\ Amount \in [Payments -> Nat \ {0}]
    /\ IsFiniteSet(Payments)
ASSUME MomentsAssumption == Moments \subseteq Nat /\ Moments # {}

\* The size of a page is at most that.
MaxLimit == 100

ASSUME PageLimitsAssumption == PageLimits \subseteq 1..MaxLimit
ASSUME BucketCountsAssumption == BucketCounts \subseteq Nat \ {0}
ASSUME ZoneAssumption == Zone \in Int
ASSUME NullAssumption == None \notin Int \cup [paymentCount : Nat, volume : Nat]

VARIABLES
    row,            \* the payments table
    now,            \* the clock
    hand,           \* the update that each handler has in hand
    twice           \* history: payments that two had, both having found it pending

table == <<row, now>>
metricsVars == <<row, now, hand, twice>>

\* Variants: a status forgotten in one of the lists below.
WithoutAutoReleased == {"escrow_locked", "shipped", "released", "disputed"}
WithoutShipped == {"escrow_locked", "disputed"}

\* What docs/METRICS.md counts, and what is still to be paid out.
MetricsStatuses ==
    {"escrow_locked", "shipped", "released", "auto_released", "disputed"}
LockedStatuses == {"escrow_locked", "shipped", "disputed"}

\* at: COALESCE(paid_at, created_at), the only date the reports look at.
Row == [status : MetricsStatuses \cup {"pending", "expired"},
        business : Businesses, at : Moments]

NoRow == [status |-> "none", business |-> None, at |-> None]

\* An update by id of the row that a handler has read: the new status and,
\* once the escrow is found, paid_at.
Update == [payment : Payments,
           status : (MetricsStatuses \ {"disputed"}) \cup {"expired"},
           paidAt : Moments \cup {None}]

NoUpdate == [payment |-> None, status |-> "none", paidAt |-> None]

MetricsTypeOK ==
    /\ row \in [Payments -> Row \cup {NoRow}]
    /\ now \in Moments
    /\ hand \in [Handlers -> Update \cup {NoUpdate}]
    /\ twice \subseteq Payments

MetricsInit ==
    /\ row = [p \in Payments |-> NoRow]
    /\ now = Min(Moments)
    /\ hand = [h \in Handlers |-> NoUpdate]
    /\ twice = {}

-----------------------------------------------------------------------------
(* The table: what the handlers of EscrowPayments write to it.             *)

CreatePaymentQr(p) ==
    /\ row[p] = NoRow
    /\ \E b \in Askers[p] :
        row' = [row EXCEPT ![p] = [status |-> "pending", business |-> b, at |-> now]]
    /\ UNCHANGED <<now, hand, twice>>

\* h would update p, found pending.
FoundPending(h, p) ==
    hand[h].payment = p /\ hand[h].status \in {"escrow_locked", "expired"}

\* h would update p, found with an escrow.
FoundCounted(h, p) ==
    hand[h].payment = p /\ hand[h].status \in {"shipped", "released", "auto_released"}

\* A scan, or a request, reads a row in one of the statuses that it looks for,
\* and goes on to look at the chain or the clock.
Find(h, p, statuses, to) ==
    /\ hand[h] = NoUpdate
    /\ row[p].status \in statuses
    /\ hand' = [hand EXCEPT ![h] = [payment |-> p, status |-> to, paidAt |-> None]]
    /\ twice' = twice \cup {q \in {p} : /\ "pending" \in statuses
                                        /\ \E other \in Handlers : FoundPending(other, p)}
    /\ UNCHANGED table

ScanEscrowCreated(h, p) == Find(h, p, {"pending"}, "escrow_locked")
ScanExpired(h, p) == Find(h, p, {"pending"}, "expired")
ShipPayment(h, p) == Find(h, p, {"escrow_locked"}, "shipped")
ScanEscrowReleased(h, p) == Find(h, p, {"escrow_locked", "shipped"}, "released")
ScanAutoRelease(h, p) == Find(h, p, {"shipped"}, "auto_released")

\* The escrow is there, and its signature looked up: paidAt is taken, and the
\* update sent.
EscrowFound(h) ==
    /\ hand[h].status = "escrow_locked" /\ hand[h].paidAt = None
    /\ hand' = [hand EXCEPT ![h].paidAt = now]
    /\ UNCHANGED <<row, now, twice>>

\* The update reaches the database. Only that of scanEscrowCreated has paid_at.
UpdateRow(h) ==
    /\ hand[h] # NoUpdate
    /\ hand[h].status = "escrow_locked" => hand[h].paidAt # None
    /\ \E p \in Payments :
        /\ hand[h].payment = p
        /\ row' = [row EXCEPT ![p].status = hand[h].status,
                              ![p].at = IF hand[h].paidAt = None THEN @ ELSE hand[h].paidAt]
    /\ hand' = [hand EXCEPT ![h] = NoUpdate]
    /\ UNCHANGED <<now, twice>>

\* No escrow, not released, not yet due; a call fails; the process stops.
LetGo(h) ==
    /\ hand[h] # NoUpdate
    /\ hand' = [hand EXCEPT ![h] = NoUpdate]
    /\ UNCHANGED <<row, now, twice>>

TimePasses ==
    /\ \E later \in Moments : later > now
    /\ now' = Min({later \in Moments : later > now})
    /\ UNCHANGED <<row, hand, twice>>

MetricsNext ==
    \/ \E p \in Payments : CreatePaymentQr(p)
    \/ \E h \in Handlers, p \in Payments :
        \/ ScanEscrowCreated(h, p)
        \/ ScanExpired(h, p)
        \/ ShipPayment(h, p)
        \/ ScanEscrowReleased(h, p)
        \/ ScanAutoRelease(h, p)
    \/ \E h \in Handlers : EscrowFound(h) \/ UpdateRow(h) \/ LetGo(h)
    \/ TimePasses

MetricsSpec == MetricsInit /\ [][MetricsNext]_metricsVars

-----------------------------------------------------------------------------
(* The queries.                                                            *)

\* COUNT and SUM of the rows that a join or a WHERE leaves.
Count(P) == Cardinality(P)
Volume(P) == Total([p \in P |-> Amount[p]])

Within(p, from, to) ==
    /\ from # None => row[p].at >= from
    /\ to # None => row[p].at <= to

Of(businesses, statuses) ==
    {p \in Payments : row[p].business \in businesses /\ row[p].status \in statuses}

Owned(user) == {b \in Businesses : UserOf[b] = user}

RankingRow(id, P) == [id |-> id, paymentCount |-> Count(P), volume |-> Volume(P)]

\* SUM of a column of rows of a ranking.
PaymentsIn(rows) == Total([r \in rows |-> r.paymentCount])
VolumeIn(rows) == Total([r \in rows |-> r.volume])

\* ORDER BY count or volume DESC, name or e-mail ASC.
Key(r, sort) == IF sort = "volume" THEN r.volume ELSE r.paymentCount

Before(r, s, sort) ==
    \/ Key(r, sort) > Key(s, sort)
    \/ Key(r, sort) = Key(s, sort) /\ r.id < s.id

Rank(r, rows, sort) == Cardinality({s \in rows : Before(s, r, sort)})

Ordered(rows, sort) ==
    [i \in 1..Cardinality(rows) |-> CHOOSE r \in rows : Rank(r, rows, sort) = i - 1]

\* LEFT JOIN: a business without payments has a row of zeros.
GetMyBusinessesPaymentMetrics(user, from, to, sort) ==
    Ordered({RankingRow(b, {p \in Of({b}, MetricsStatuses) : Within(p, from, to)}) :
                b \in Owned(user)}, sort)

MerchantRows(from, to) ==
    {RankingRow(u, {p \in Of(Owned(u), MetricsStatuses) : Within(p, from, to)}) :
        u \in Merchants}

\* Not found, when the business is not one of the user's.
GetMyEscrowLockedSummary(user, business) ==
    LET asked == IF business = None THEN Owned(user) ELSE {business}
        byBusiness == {RankingRow(b, Of({b}, LockedStatuses)) : b \in asked}
    IN IF ~ (asked \subseteq Owned(user)) THEN None
       ELSE [paymentCount |-> PaymentsIn(byBusiness), volume |-> VolumeIn(byBusiness)]

-----------------------------------------------------------------------------
(* Pages.                                                                  *)

\* Variant: pages counted from zero.
FromPageZero(dto) ==
    [page |-> dto.page, limit |-> dto.limit, skip |-> dto.page * dto.limit]

GetPaginationParams(dto) ==
    LET page == Max({1, dto.page})
        limit == Min({MaxLimit, Max({1, dto.limit})})
    IN [page |-> page, limit |-> limit, skip |-> (page - 1) * limit]

TotalPages(total, limit) ==
    IF total = 0 THEN 1 ELSE (total + limit - 1) \div limit

GetAdminMerchantsPaymentMetrics(query) ==
    LET params == GetPaginationParams(query)
        ranking == Ordered(MerchantRows(query.from, query.to), query.sort)
    IN [data |-> SubSeq(ranking, params.skip + 1,
                        Min({params.skip + params.limit, Len(ranking)})),
        totalPages |-> TotalPages(Cardinality(Merchants), params.limit)]

-----------------------------------------------------------------------------
(* The funnel of one merchant's payments; percentages in tenths.           *)

Steps == <<"iniciadas", "fondos_recibidos", "entrega", "liberados">>

StatusesOf(step) ==
    CASE step = "iniciadas" -> MetricsStatuses \cup {"pending"}
      [] step = "fondos_recibidos" -> MetricsStatuses
      [] step = "entrega" -> {"shipped", "released", "auto_released"}
      [] step = "liberados" -> {"released", "auto_released"}

\* Math.round: halves go up.
Rounded(n, d) == (2 * n + d) \div (2 * d)

GetMerchantPaymentFunnel(user) ==
    LET count == [step \in Range(Steps) |-> Count(Of(Owned(user), StatusesOf(step)))]
        iniciadas == count["iniciadas"]
    IN [step \in Range(Steps) |->
          [count |-> count[step],
           percentOfFirst |->
               IF iniciadas = 0 THEN 0 ELSE Rounded(1000 * count[step], iniciadas)]]

-----------------------------------------------------------------------------
(* The time series.                                                        *)

DayOf(t) == t \div 2

\* Day 0 was a Thursday.
GetUTCDay(day) == (day + 4) % 7

\* Variant: Sunday taken for the first day of the week.
SundayFirst(day) == day + 1 - GetUTCDay(day)

MondayUtc(day) ==
    LET weekday == GetUTCDay(day)
    IN day + (IF weekday = 0 THEN -6 ELSE 1 - weekday)

\* DATE_TRUNC cuts days in the session's zone; the key is the UTC date of the
\* instant at which such a day begins.
KeyOf(t) == DayOf(2 * DayOf(t + Zone) - Zone)

\* The first day of each bucket.
BucketStarts(groupBy, buckets) ==
    IF groupBy = "day"
    THEN [i \in 1..buckets |-> DayOf(now) - (buckets - i)]
    ELSE [i \in 1..buckets |-> MondayUtc(DayOf(now)) - 7 * (buckets - i)]

BucketDays(groupBy, start) ==
    IF groupBy = "day" THEN {start} ELSE start..start + 6

\* user: whose businesses, None for all of them.
BuildPaymentsTimeseries(user, groupBy, buckets) ==
    LET starts == BucketStarts(groupBy, buckets)
        businesses == IF user = None THEN Businesses ELSE Owned(user)
        found == {p \in Of(businesses, MetricsStatuses) :
                    Within(p, 2 * starts[1], 2 * DayOf(now) + 1)}
    IN [i \in 1..buckets |->
          LET P == {p \in found : KeyOf(row[p].at) \in BucketDays(groupBy, starts[i])}
          IN [bucketStart |-> starts[i], paymentCount |-> Count(P), volume |-> Volume(P)]]

-----------------------------------------------------------------------------
(* The volume classes of the merchants.                                    *)

\* floor(n * 0.33) and floor(n * 0.66) of doubles agree with these.
FirstCut(n) == (33 * n) \div 100
SecondCut(n) == (66 * n) \div 100

\* sorted[i], counted from 0, of the volumes of the merchants M.
SortedAt(M, volume, i) ==
    CHOOSE v \in {volume[m] : m \in M} :
        /\ Cardinality({m \in M : volume[m] < v}) <= i
        /\ Cardinality({m \in M : volume[m] <= v}) > i

\* Variant: a merchant at the cut goes to the class above.
LessThan(v, cut) == v < cut

AtMost(v, cut) == v <= cut

GetAdminMerchantsVolumeDistribution ==
    LET volume == [m \in Merchants |-> Volume(Of(Owned(m), MetricsStatuses))]
        M == {m \in Merchants : volume[m] > 0}
        t1 == SortedAt(M, volume, FirstCut(Cardinality(M)))
        t2 == SortedAt(M, volume, SecondCut(Cardinality(M)))
        bajo == {m \in M : AtMost(volume[m], t1)}
        medio == {m \in M \ bajo : AtMost(volume[m], t2)}
    IN [totalMerchants |-> Cardinality(Merchants),
        nuevos |-> Cardinality(Merchants \ M),
        bajoVolumen |-> Cardinality(bajo),
        medio |-> Cardinality(medio),
        altoValor |-> Cardinality(M \ (bajo \cup medio))]

-----------------------------------------------------------------------------
(* Properties.                                                             *)

\* Nothing has a date in the future, and one scan alone writes dates.
DatesCome ==
    /\ \A p \in Payments : row[p] # NoRow => row[p].at <= now
    /\ \A h \in Handlers : hand[h].paidAt # None =>
          hand[h].status = "escrow_locked" /\ hand[h].paidAt <= now

\* What a handler updates is a row. Who has found a payment pending that nobody
\* else has found pending since, finds it so when he updates it; who found it
\* later, finds it counted.
UpdatesFit ==
    \A h \in Handlers, p \in Payments :
        /\ hand[h] # NoUpdate /\ hand[h].payment = p => row[p] # NoRow
        /\ FoundPending(h, p) /\ p \notin twice =>
              /\ row[p].status = "pending"
              /\ \A other \in Handlers \ {h} : ~FoundPending(other, p)
        /\ FoundCounted(h, p) /\ p \notin twice => row[p].status \in MetricsStatuses

\* The inductive invariant.
MetricsIInv == MetricsTypeOK /\ DatesCome /\ UpdatesFit

Owners == {UserOf[b] : b \in Businesses}
GroupBys == {"day", "week"}
LengthOf(groupBy) == IF groupBy = "day" THEN 1 ELSE 7

\* buildPaymentsTimeseries reaches its buckets by dates and daily keys, the
\* rankings reach theirs by a window of instants. Each bucket of each series
\* agrees with the owners' rankings of the same days; the buckets follow one
\* another without gap, weeks begin on Mondays, and the last holds today.
SeriesComplete ==
    \A user \in Owners \cup {None}, groupBy \in GroupBys, buckets \in BucketCounts :
        LET series == BuildPaymentsTimeseries(user, groupBy, buckets)
            length == LengthOf(groupBy)
            today == DayOf(now)
        IN /\ today \in series[buckets].bucketStart ..
                        series[buckets].bucketStart + length - 1
           /\ \A i \in 1..buckets :
                LET first == series[i].bucketStart
                    ranked == UNION {Range(GetMyBusinessesPaymentMetrics(
                                  u, 2 * first, 2 * (first + length) - 1, "count")) :
                                  u \in IF user = None THEN Owners ELSE {user}}
                IN /\ i > 1 => first = series[i - 1].bucketStart + length
                   /\ groupBy = "week" => GetUTCDay(first) = 1
                   /\ series[i].paymentCount = PaymentsIn(ranked)
                   /\ series[i].volume = VolumeIn(ranked)

\* A bucket is closed once its days are over and no update is under way whose
\* paid_at was taken on one of them.
Closed(start, length) ==
    /\ start + length <= DayOf(now)
    /\ \A h \in Handlers : hand[h].paidAt # None =>
          DayOf(hand[h].paidAt) \notin start..start + length - 1

\* A closed bucket changes only by an update of a payment that two handlers
\* found pending at one time. Otherwise payments enter the series with the date
\* that paid_at takes once, and no later update, however stale, moves them or
\* takes them out (what the list of counted statuses is for).
PastBucketsFixed ==
    [][(\A p \in twice : row'[p] = row[p]) =>
        \A user \in Owners \cup {None}, groupBy \in GroupBys, buckets \in BucketCounts :
            LET starts == BucketStarts(groupBy, buckets)
                after == BucketStarts(groupBy, buckets)'
            IN \A i, j \in 1..buckets :
                starts[i] = after[j] /\ Closed(starts[i], LengthOf(groupBy)) =>
                    BuildPaymentsTimeseries(user, groupBy, buckets)[i]
                        = BuildPaymentsTimeseries(user, groupBy, buckets)'[j]]_table

\* The pages of the ranking of merchants, up to totalPages, hold every
\* merchant once, those without payments in the window too, in one order over
\* all pages; the page after the last is empty.
PagesComplete ==
    \A limit \in PageLimits, sort \in {"count", "volume"} :
        LET Page(n) == GetAdminMerchantsPaymentMetrics(
                [page |-> n, limit |-> limit, from |-> now, to |-> None, sort |-> sort])
            pages == Page(1).totalPages
        IN \E data \in {[n \in 1..pages |-> Page(n).data]} :
           LET At(i) == data[((i - 1) \div limit) + 1][((i - 1) % limit) + 1]
           IN
           /\ Total([n \in 1..pages |-> Len(data[n])]) = Cardinality(Merchants)
           /\ {At(i).id : i \in 1..Cardinality(Merchants)} = Merchants
           /\ \A i \in 2..Cardinality(Merchants) : Key(At(i), sort) <= Key(At(i - 1), sort)
           /\ Page(pages + 1).data = <<>>

\* The three views a merchant has of the same payments agree: what he has been
\* paid (funnel) and what is locked add up to what the ranking counts, no step
\* of the funnel is wider than the one before, and the breakdown by business
\* adds up to the whole. (The table is also well typed, without future dates.)
FundsAgree ==
    /\ MetricsIInv
    /\ \A user \in Users :
        LET funnel == GetMerchantPaymentFunnel(user)
            summary == GetMyEscrowLockedSummary(user, None)
            ranking == Range(GetMyBusinessesPaymentMetrics(user, None, None, "volume"))
            paidOut == Of(Owned(user), StatusesOf("liberados"))
        IN /\ funnel["fondos_recibidos"].count
                = summary.paymentCount + funnel["liberados"].count
           /\ funnel["fondos_recibidos"].count = PaymentsIn(ranking)
           /\ summary.volume + Volume(paidOut) = VolumeIn(ranking)
           /\ summary.volume =
                Total([b \in {b \in Businesses : GetMyEscrowLockedSummary(user, b) # None} |->
                          GetMyEscrowLockedSummary(user, b).volume])
           /\ \A i \in 2..Len(Steps) :
                /\ funnel[Steps[i]].count <= funnel[Steps[i - 1]].count
                /\ funnel[Steps[i]].percentOfFirst <= funnel[Steps[i - 1]].percentOfFirst

\* The classes are by rank: a merchant is "bajo" when no more than the first
\* cut of the paid merchants sell less than he does, "medio" when no more than
\* the second do; ties stay together, nobody is left out or counted twice.
TercilesByRank ==
    LET volume == [m \in Merchants |->
            VolumeIn(Range(GetMyBusinessesPaymentMetrics(m, None, None, "count")))]
        M == {m \in Merchants : volume[m] > 0}
        n == Cardinality(M)
        Below(m) == Cardinality({k \in M : volume[k] < volume[m]})
        classes == GetAdminMerchantsVolumeDistribution
    IN /\ classes.bajoVolumen = Cardinality({m \in M : Below(m) <= FirstCut(n)})
       /\ classes.altoValor = Cardinality({m \in M : Below(m) > SecondCut(n)})
       /\ classes.nuevos + classes.bajoVolumen + classes.medio + classes.altoValor
            = classes.totalMerchants
=============================================================================
