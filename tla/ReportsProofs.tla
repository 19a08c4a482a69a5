---------------------------- MODULE ReportsProofs ----------------------------
(***************************************************************************)
(* Proofs about the reports over the payments table, for any payments,     *)
(* businesses and users: the reports of Metrics agree with one another;    *)
(* of Commission, what is charged is the commission of a rate that was in  *)
(* force and never more than the amount, the estimate of the metrics is    *)
(* what was charged, and the rate an admin sets holds.  A sum is the       *)
(* number of units in its rows (PaymentsTable), so that what is said of    *)
(* sums follows from facts about cardinalities.                            *)
(***************************************************************************)
EXTENDS Metrics, Commission, FiniteSetTheorems, SequenceTheorems, TLAPS

-----------------------------------------------------------------------------
(* Sums.                                                                   *)

\* The units that a sum counts.
Units(f) == UNION {{x} \X (1..f[x]) : x \in DOMAIN f}

\* A sum over finitely many rows is a natural number.
LEMMA TotalType ==
    ASSUME NEW S, IsFiniteSet(S), NEW f \in [S -> Nat]
    PROVE  IsFiniteSet(Units(f)) /\ Total(f) = Cardinality(Units(f)) /\ Total(f) \in Nat
<1> DEFINE part == [x \in S |-> {x} \X (1..f[x])]
           parts == {part[x] : x \in S}
<1>1. \A x \in S : IsFiniteSet(part[x])
  <2> TAKE x \in S
  <2>1. IsFiniteSet(1..f[x])
    BY FS_Interval
  <2>2. IsFiniteSet({x})
    BY FS_Singleton
  <2> QED
    BY <2>1, <2>2, FS_Product
<1>2. part \in Surjection(S, parts)
  BY DEF Surjection
<1>3. IsFiniteSet(parts)
  BY <1>2, FS_Surjection
<1>4. IsFiniteSet(UNION parts)
  BY <1>1, <1>3, FS_UNION
<1>5. Units(f) = UNION parts
  BY DEF Units
<1> QED
  BY <1>4, <1>5, FS_CardinalityType DEF Total, Units

\* A whole, given part by part, and the sizes of its parts.
Whole(part) == UNION {part[i] : i \in DOMAIN part}
Sizes(part) == [i \in DOMAIN part |-> Cardinality(part[i])]

\* The sizes of disjoint sets add up to the size of their union.
LEMMA PartsCounted ==
    ASSUME NEW part, IsFiniteSet(DOMAIN part),
           \A i \in DOMAIN part : IsFiniteSet(part[i]),
           \A i, j \in DOMAIN part : i # j => part[i] \cap part[j] = {}
    PROVE  Total(Sizes(part)) = Cardinality(Whole(part))
<1> DEFINE I == DOMAIN part
           U == Whole(part)
           f == Sizes(part)
           b == [i \in I |-> CHOOSE g : g \in Bijection(1..f[i], part[i])]
           h == [u \in Units(f) |-> b[u[1]][u[2]]]
<1>1. f \in [I -> Nat]
  BY FS_CardinalityType DEF Sizes
<1>2. \A i \in I : b[i] \in Bijection(1..f[i], part[i])
  BY FS_CardinalityType DEF ExistsBijection, Sizes
<1>3. IsFiniteSet(Units(f)) /\ Total(f) = Cardinality(Units(f))
  BY <1>1, TotalType
<1>4. \A u \in Units(f) : u[1] \in I /\ u[2] \in 1..f[u[1]] /\ u = <<u[1], u[2]>>
  BY <1>1 DEF Units
<1>5. \A i \in I : \A k \in 1..f[i] : <<i, k>> \in Units(f)
  BY <1>1 DEF Units
<1> HIDE DEF f, b
<1>6. \A u \in Units(f) : h[u] \in part[u[1]]
  BY <1>2, <1>4 DEF Bijection, Injection
<1>7. h \in Injection(Units(f), U)
  <2>1. h \in [Units(f) -> U]
    BY <1>4, <1>6 DEF Whole
  <2>2. ASSUME NEW u \in Units(f), NEW v \in Units(f), h[u] = h[v]
        PROVE  u = v
    <3>1. u[1] = v[1]
      BY <1>4, <1>6, <2>2
    <3>2. b[u[1]][u[2]] = b[u[1]][v[2]] /\ u[2] \in 1..f[u[1]] /\ v[2] \in 1..f[u[1]]
      BY <1>4, <2>2, <3>1
    <3>3. b[u[1]] \in [1..f[u[1]] -> part[u[1]]] /\ IsInjective(b[u[1]])
      BY <1>2, <1>4 DEF Bijection, Injection
    <3>4. u[2] = v[2]
      BY <3>2, <3>3 DEF IsInjective
    <3> QED
      BY <1>4, <3>1, <3>4
  <2> QED
    BY <2>1, <2>2 DEF Injection, IsInjective
<1>8. h \in Surjection(Units(f), U)
  <2> SUFFICES ASSUME NEW y \in U PROVE \E u \in Units(f) : h[u] = y
    BY <1>7 DEF Surjection, Injection
  <2>1. PICK i \in I : y \in part[i]
    BY DEF Whole
  <2>2. PICK k \in 1..f[i] : b[i][k] = y
    BY <1>2, <2>1 DEF Bijection, Surjection
  <2>3. <<i, k>> \in Units(f) /\ h[<<i, k>>] = y
    BY <1>5, <2>2
  <2> QED
    BY <2>3
<1>9. IsFiniteSet(U) /\ Cardinality(U) = Cardinality(Units(f))
  BY <1>3, <1>7, <1>8, FS_Bijection DEF Bijection, ExistsBijection
<1> QED
  BY <1>3, <1>9 DEF f

-----------------------------------------------------------------------------
(* COUNT and SUM over the payments table.                                  *)

\* The lamports of the payments P.
Lamports(P) == Units([p \in P |-> Amount[p]])

LEMMA CountType ==
    ASSUME NEW P \in SUBSET Payments
    PROVE  /\ IsFiniteSet(P) /\ Count(P) \in Nat
           /\ IsFiniteSet(Lamports(P)) /\ Volume(P) = Cardinality(Lamports(P))
           /\ Volume(P) \in Nat
<1>1. IsFiniteSet(P)
  BY PaymentsAssumption, FS_Subset
<1>2. Count(P) \in Nat
  BY <1>1, FS_CardinalityType DEF Count
<1>3. [p \in P |-> Amount[p]] \in [P -> Nat]
  BY PaymentsAssumption
<1> QED
  BY <1>1, <1>2, <1>3, TotalType DEF Volume, Lamports

LEMMA LamportsOf ==
    ASSUME NEW P
    PROVE  Lamports(P) = {u \in P \X Nat : u[2] \in 1..Amount[u[1]]}
  BY DEF Lamports, Units

\* What is counted and summed over two disjoint sets of payments.
LEMMA CountOfTwo ==
    ASSUME NEW P \in SUBSET Payments, NEW Q \in SUBSET Payments, P \cap Q = {}
    PROVE  /\ Count(P \cup Q) = Count(P) + Count(Q)
           /\ Volume(P \cup Q) = Volume(P) + Volume(Q)
<1>1. P \cup Q \in SUBSET Payments
  OBVIOUS
<1>2. Count(P \cup Q) = Count(P) + Count(Q)
  <2>1. /\ IsFiniteSet(P) /\ Cardinality(P) \in Nat
        /\ IsFiniteSet(Q) /\ Cardinality(Q) \in Nat
    BY CountType DEF Count
  <2>2. Cardinality(P \cup Q) = Cardinality(P) + Cardinality(Q) - Cardinality(P \cap Q)
    BY <2>1, FS_Union
  <2>3. Cardinality(P \cap Q) = 0
    BY FS_EmptySet
  <2> QED
    BY <2>1, <2>2, <2>3 DEF Count
<1>3. Lamports(P \cup Q) = Lamports(P) \cup Lamports(Q)
  BY LamportsOf
<1>4. Lamports(P) \cap Lamports(Q) = {}
  BY LamportsOf
<1>5. Cardinality(Lamports(P \cup Q))
        = Cardinality(Lamports(P)) + Cardinality(Lamports(Q))
  <2>1. /\ IsFiniteSet(Lamports(P)) /\ Cardinality(Lamports(P)) \in Nat
        /\ IsFiniteSet(Lamports(Q)) /\ Cardinality(Lamports(Q)) \in Nat
    BY CountType
  <2>2. Cardinality(Lamports(P \cup Q))
          = Cardinality(Lamports(P)) + Cardinality(Lamports(Q))
            - Cardinality(Lamports(P) \cap Lamports(Q))
    BY <1>3, <2>1, FS_Union
  <2>3. Cardinality(Lamports(P) \cap Lamports(Q)) = 0
    BY <1>4, FS_EmptySet
  <2> QED
    BY <2>1, <2>2, <2>3
<1> QED
  BY <1>1, <1>2, <1>5, CountType

\* One row for each of the businesses (or merchants) B, with its own payments.
RowsOf(B, part) == {RankingRow(b, part[b]) : b \in B}

\* The columns of a ranking add up to what is counted over all its payments.
LEMMA ColumnsAddUp ==
    ASSUME NEW B, IsFiniteSet(B), NEW part \in [B -> SUBSET Payments],
           \A b, c \in B : b # c => part[b] \cap part[c] = {}
    PROVE  /\ PaymentsIn(RowsOf(B, part)) = Count(UNION {part[b] : b \in B})
           /\ VolumeIn(RowsOf(B, part)) = Volume(UNION {part[b] : b \in B})
<1> DEFINE rows == RowsOf(B, part)
           U == UNION {part[b] : b \in B}
           payments == [r \in rows |-> part[r.id]]
           lamports == [r \in rows |-> Lamports(part[r.id])]
<1>1. \A b \in B : /\ RankingRow(b, part[b]).id = b
                   /\ RankingRow(b, part[b]).paymentCount = Count(part[b])
                   /\ RankingRow(b, part[b]).volume = Volume(part[b])
  BY DEF RankingRow
<1>2. \A r \in rows : /\ r.id \in B /\ r = RankingRow(r.id, part[r.id])
                      /\ part[r.id] \in SUBSET Payments
  BY <1>1 DEF RowsOf
<1>3. IsFiniteSet(rows)
  <2>1. [b \in B |-> RankingRow(b, part[b])] \in Surjection(B, rows)
    BY DEF Surjection, RowsOf
  <2> QED
    BY <2>1, FS_Surjection
<1>4. \A r, s \in rows : r # s => part[r.id] \cap part[s.id] = {}
  BY <1>2
<1>5. PaymentsIn(rows) = Count(U)
  <2>1. \A r \in rows : IsFiniteSet(payments[r]) /\ r.paymentCount = Cardinality(payments[r])
    BY <1>1, <1>2, CountType DEF Count
  <2>2. Whole(payments) = U
    <3>1. \A r \in rows : payments[r] \subseteq U
      BY <1>2
    <3>2. ASSUME NEW b \in B PROVE \E r \in rows : payments[r] = part[b]
      <4>1. RankingRow(b, part[b]) \in rows
        BY DEF RowsOf
      <4> QED
        BY <1>1, <4>1
    <3> QED
      BY <3>1, <3>2 DEF Whole
  <2>3. \A r, s \in rows : r # s => payments[r] \cap payments[s] = {}
    BY <1>4
  <2>4. DOMAIN payments = rows /\ Sizes(payments) = [r \in rows |-> r.paymentCount]
    BY <2>1 DEF Sizes
  <2> HIDE DEF rows, payments, U
  <2>5. Total(Sizes(payments)) = Cardinality(U)
    BY <1>3, <2>1, <2>2, <2>3, <2>4, PartsCounted
  <2> QED
    BY <2>4, <2>5 DEF PaymentsIn, Count
<1>6. VolumeIn(rows) = Volume(U)
  <2>1. \A r \in rows : IsFiniteSet(lamports[r]) /\ r.volume = Cardinality(lamports[r])
    BY <1>1, <1>2, CountType
  <2>2. Whole(lamports) = Lamports(U)
    <3>1. \A r \in rows : \A u \in lamports[r] : u \in Lamports(U)
      BY <1>2, LamportsOf
    <3>2. ASSUME NEW u \in Lamports(U) PROVE \E r \in rows : u \in lamports[r]
      <4>1. PICK b \in B : u[1] \in part[b]
        BY LamportsOf
      <4>2. RankingRow(b, part[b]) \in rows
        BY DEF RowsOf
      <4>3. u \in Lamports(part[b])
        BY <4>1, LamportsOf
      <4> QED
        BY <1>1, <4>2, <4>3
    <3> QED
      BY <3>1, <3>2 DEF Whole
  <2>3. \A r, s \in rows : r # s => lamports[r] \cap lamports[s] = {}
    BY <1>4, LamportsOf
  <2>4. DOMAIN lamports = rows /\ Sizes(lamports) = [r \in rows |-> r.volume]
    BY <2>1 DEF Sizes
  <2> HIDE DEF rows, lamports
  <2>5. Total(Sizes(lamports)) = Cardinality(Lamports(U))
    BY <1>3, <2>1, <2>2, <2>3, <2>4, PartsCounted
  <2>6. U \in SUBSET Payments
    OBVIOUS
  <2> QED
    BY <2>4, <2>5, <2>6, CountType DEF VolumeIn
<1> QED
  BY <1>5, <1>6

-----------------------------------------------------------------------------
(* Rankings.                                                               *)

\* Rows that a ranking can order: each with an id of its own.
Rankable(rows) ==
    /\ IsFiniteSet(rows)
    /\ \A r \in rows : r.id \in Nat /\ r.paymentCount \in Nat /\ r.volume \in Nat
    /\ \A r, s \in rows : r.id = s.id => r = s

Sorts == {"count", "volume"}

LEMMA RowsRankable ==
    ASSUME NEW B \in SUBSET Nat, IsFiniteSet(B), NEW part \in [B -> SUBSET Payments]
    PROVE  /\ Rankable(RowsOf(B, part))
           /\ Cardinality(RowsOf(B, part)) = Cardinality(B)
           /\ {r.id : r \in RowsOf(B, part)} = B
<1> DEFINE rows == RowsOf(B, part)
           f == [b \in B |-> RankingRow(b, part[b])]
<1>1. \A b \in B : /\ RankingRow(b, part[b]) \in rows
                   /\ RankingRow(b, part[b]).id = b
                   /\ RankingRow(b, part[b]).paymentCount = Count(part[b])
                   /\ RankingRow(b, part[b]).volume = Volume(part[b])
  BY DEF RankingRow, RowsOf
<1>2. \A r \in rows : /\ r.id \in B /\ r = RankingRow(r.id, part[r.id])
                      /\ part[r.id] \in SUBSET Payments
  BY <1>1 DEF RowsOf
<1>3. f \in Injection(B, rows)
  BY <1>1 DEF Injection, IsInjective
<1>4. f \in Surjection(B, rows)
  BY <1>1, <1>2 DEF Surjection
<1>5. IsFiniteSet(rows) /\ Cardinality(rows) = Cardinality(B)
  BY <1>3, <1>4, FS_Bijection DEF Bijection, ExistsBijection
<1>6. \A r \in rows : r.id \in Nat /\ r.paymentCount \in Nat /\ r.volume \in Nat
  <2> TAKE r \in rows
  <2>1. r.id \in Nat /\ part[r.id] \in SUBSET Payments
    BY <1>2
  <2>2. Count(part[r.id]) \in Nat /\ Volume(part[r.id]) \in Nat
    BY <2>1, CountType
  <2>3. r.paymentCount = Count(part[r.id]) /\ r.volume = Volume(part[r.id])
    BY <1>1, <1>2
  <2> QED
    BY <2>1, <2>2, <2>3
<1>7. {r.id : r \in rows} = B
  <2>1. \A b \in B : \E r \in rows : r.id = b
    BY <1>1
  <2> QED
    BY <1>2, <2>1
<1> QED
  BY <1>2, <1>5, <1>6, <1>7 DEF Rankable

\* The order of a ranking is strict and total.
LEMMA BeforeOrders ==
    ASSUME NEW rows, Rankable(rows), NEW sort \in Sorts
    PROVE  /\ \A r \in rows : Key(r, sort) \in Nat
           /\ \A r \in rows : ~Before(r, r, sort)
           /\ \A r, s \in rows : r # s => Before(r, s, sort) \/ Before(s, r, sort)
           /\ \A r, s, t \in rows :
                 Before(r, s, sort) /\ Before(s, t, sort) => Before(r, t, sort)
<1>1. \A r \in rows : r.id \in Nat /\ Key(r, sort) \in Nat
  BY DEF Rankable, Key
<1>2. \A r, s \in rows : r # s => r.id # s.id
  BY DEF Rankable
<1> QED
  BY <1>1, <1>2 DEF Before

\* The rank of a row counts the rows before it, which come earlier.
LEMMA RanksIncrease ==
    ASSUME NEW rows, Rankable(rows), NEW sort \in Sorts
    PROVE  /\ Cardinality(rows) \in Nat
           /\ \A r \in rows : Rank(r, rows, sort) \in 0..Cardinality(rows) - 1
           /\ \A r, s \in rows :
                 Before(r, s, sort) => Rank(r, rows, sort) < Rank(s, rows, sort)
<1> DEFINE ahead(r) == {s \in rows : Before(s, r, sort)}
<1>1. IsFiniteSet(rows) /\ Cardinality(rows) \in Nat
  BY FS_CardinalityType DEF Rankable
<1>2. \A r \in rows : /\ IsFiniteSet(ahead(r)) /\ Cardinality(ahead(r)) \in Nat
                      /\ Rank(r, rows, sort) = Cardinality(ahead(r))
  <2> TAKE r \in rows
  <2>1. ahead(r) \in SUBSET rows
    OBVIOUS
  <2>2. IsFiniteSet(ahead(r))
    BY <1>1, <2>1, FS_Subset
  <2> QED
    BY <2>2, FS_CardinalityType DEF Rank
<1>3. ASSUME NEW r \in rows
      PROVE  Rank(r, rows, sort) \in 0..Cardinality(rows) - 1
  <2>1. ahead(r) \in SUBSET rows /\ ahead(r) # rows
    BY BeforeOrders
  <2>2. Cardinality(ahead(r)) <= Cardinality(rows) /\ Cardinality(ahead(r)) # Cardinality(rows)
    BY <1>1, <2>1, FS_Subset
  <2> HIDE DEF ahead
  <2> QED
    BY <1>1, <1>2, <2>2
<1>4. ASSUME NEW r \in rows, NEW s \in rows, Before(r, s, sort)
      PROVE  Rank(r, rows, sort) < Rank(s, rows, sort)
  <2>1. ahead(r) \in SUBSET ahead(s) /\ ahead(r) # ahead(s)
    BY <1>4, BeforeOrders
  <2>2. Cardinality(ahead(r)) <= Cardinality(ahead(s))
        /\ Cardinality(ahead(r)) # Cardinality(ahead(s))
    BY <1>2, <2>1, FS_Subset
  <2> HIDE DEF ahead
  <2> QED
    BY <1>2, <2>2
<1> QED
  BY <1>1, <1>3, <1>4

\* A ranking lists every row once, in order.
LEMMA RankingComplete ==
    ASSUME NEW rows, Rankable(rows), NEW sort \in Sorts
    PROVE  /\ Cardinality(rows) \in Nat
           /\ Ordered(rows, sort) \in [1..Cardinality(rows) -> rows]
           /\ Range(Ordered(rows, sort)) = rows
           /\ \A i \in 1..Cardinality(rows) :
                 Rank(Ordered(rows, sort)[i], rows, sort) = i - 1
           /\ \A i, j \in 1..Cardinality(rows) :
                 i < j => /\ Before(Ordered(rows, sort)[i], Ordered(rows, sort)[j], sort)
                          /\ Key(Ordered(rows, sort)[i], sort)
                                >= Key(Ordered(rows, sort)[j], sort)
<1> DEFINE n == Cardinality(rows)
           o == Ordered(rows, sort)
           rank == [r \in rows |-> Rank(r, rows, sort)]
<1>1. n \in Nat /\ IsFiniteSet(rows) /\ IsFiniteSet(0..n - 1) /\ Cardinality(0..n - 1) = n
  <2>1. n \in Nat /\ IsFiniteSet(rows)
    BY RanksIncrease DEF Rankable
  <2> QED
    BY <2>1, FS_Interval
<1>2. rank \in Injection(rows, 0..n - 1)
  <2>1. rank \in [rows -> 0..n - 1]
    BY RanksIncrease
  <2>2. \A r, s \in rows : r # s => rank[r] < rank[s] \/ rank[s] < rank[r]
    BY BeforeOrders, RanksIncrease
  <2> HIDE DEF n
  <2>3. \A r, s \in rows : rank[r] = rank[s] => r = s
    BY <1>1, <2>1, <2>2
  <2> QED
    BY <2>1, <2>3 DEF Injection, IsInjective
<1>3. rank \in Surjection(rows, 0..n - 1)
  BY <1>1, <1>2, FS_Injection
<1>4. \A i \in 1..n : \E r \in rows : Rank(r, rows, sort) = i - 1
  <2> TAKE i \in 1..n
  <2>1. i - 1 \in 0..n - 1
    BY <1>1
  <2> QED
    BY <1>3, <2>1 DEF Surjection
<1>5. \A i \in 1..n : o[i] \in rows /\ Rank(o[i], rows, sort) = i - 1
  BY <1>4 DEF Ordered
<1>6. o \in [1..n -> rows]
  BY <1>5 DEF Ordered
<1>7. Range(o) = rows
  <2>1. Range(o) \subseteq rows
    BY <1>6 DEF Range
  <2>2. ASSUME NEW r \in rows PROVE r \in Range(o)
    <3>1. rank[r] \in 0..n - 1
      BY RanksIncrease
    <3>2. rank[r] + 1 \in 1..n /\ (rank[r] + 1) - 1 = rank[r]
      BY <1>1, <3>1
    <3>3. rank[o[rank[r] + 1]] = rank[r]
      BY <1>5, <3>2
    <3>4. o[rank[r] + 1] = r
      BY <1>2, <1>5, <3>2, <3>3 DEF Injection, IsInjective
    <3> QED
      BY <1>6, <3>2, <3>4 DEF Range
  <2> QED
    BY <2>1, <2>2
<1>8. ASSUME NEW i \in 1..n, NEW j \in 1..n, i < j
      PROVE  Before(o[i], o[j], sort) /\ Key(o[i], sort) >= Key(o[j], sort)
  <2>1. o[i] \in rows /\ o[j] \in rows /\ rank[o[i]] = i - 1 /\ rank[o[j]] = j - 1
    BY <1>5
  <2>2. o[i] # o[j] /\ ~Before(o[j], o[i], sort)
    BY <1>1, <1>8, <2>1, RanksIncrease
  <2>3. Before(o[i], o[j], sort)
    BY <2>1, <2>2, BeforeOrders
  <2> QED
    BY <2>1, <2>3, BeforeOrders DEF Before
<1> QED
  BY <1>1, <1>5, <1>6, <1>7, <1>8

-----------------------------------------------------------------------------
(* The table.                                                              *)

LEMMA RowShape ==
    ASSUME MetricsIInv, NEW p \in Payments, row[p].status \in MetricsStatuses \cup {"pending"}
    PROVE  row[p] \in Row /\ row[p].at \in Nat /\ row[p].at <= now
<1>1. NoRow.status = "none"
  BY DEF NoRow
<1>2. row[p] # NoRow
  BY <1>1 DEF MetricsStatuses
<1> QED
  BY <1>2, MomentsAssumption DEF MetricsIInv, MetricsTypeOK, DatesCome, Row

LEMMA OwnedFinite ==
    ASSUME NEW B \in SUBSET Businesses
    PROVE  B \in SUBSET Nat /\ IsFiniteSet(B)
  BY BusinessesAssumption, FS_Subset

\* The payments that a query selects for each of the businesses B.
Selected(B, statuses, from, to) ==
    [b \in B |-> {p \in Of({b}, statuses) : Within(p, from, to)}]

\* What a ranking, or a breakdown, of businesses adds up to.
LEMMA SelectedAddUp ==
    ASSUME NEW B \in SUBSET Businesses, NEW statuses, NEW from, NEW to
    PROVE  LET rows == RowsOf(B, Selected(B, statuses, from, to))
               P == {p \in Of(B, statuses) : Within(p, from, to)}
           IN  /\ Rankable(rows)
               /\ P \in SUBSET Payments
               /\ PaymentsIn(rows) = Count(P) /\ VolumeIn(rows) = Volume(P)
<1> DEFINE part == Selected(B, statuses, from, to)
           P == {p \in Of(B, statuses) : Within(p, from, to)}
<1>1. part \in [B -> SUBSET Payments]
  BY DEF Selected, Of
<1>2. \A b, c \in B : b # c => part[b] \cap part[c] = {}
  BY DEF Selected, Of
<1>3. UNION {part[b] : b \in B} = P
  BY DEF Selected, Of
<1>4. P \in SUBSET Payments
  BY DEF Of
<1> HIDE DEF part, P
<1>5. Rankable(RowsOf(B, part))
  BY <1>1, OwnedFinite, RowsRankable
<1>6. PaymentsIn(RowsOf(B, part)) = Count(P) /\ VolumeIn(RowsOf(B, part)) = Volume(P)
  BY <1>1, <1>2, <1>3, OwnedFinite, ColumnsAddUp
<1> QED
  BY <1>4, <1>5, <1>6 DEF part, P

\* The ranking of a user's businesses.
LEMMA MyRanking ==
    ASSUME NEW user, NEW from, NEW to, NEW sort \in Sorts
    PROVE  LET ranking == Range(GetMyBusinessesPaymentMetrics(user, from, to, sort))
               P == {p \in Of(Owned(user), MetricsStatuses) : Within(p, from, to)}
           IN  /\ ranking = RowsOf(Owned(user),
                                   Selected(Owned(user), MetricsStatuses, from, to))
               /\ PaymentsIn(ranking) = Count(P) /\ VolumeIn(ranking) = Volume(P)
<1> DEFINE rows == RowsOf(Owned(user), Selected(Owned(user), MetricsStatuses, from, to))
<1>1. Owned(user) \in SUBSET Businesses
  BY DEF Owned
<1>2. GetMyBusinessesPaymentMetrics(user, from, to, sort) = Ordered(rows, sort)
  BY DEF GetMyBusinessesPaymentMetrics, RowsOf, Selected
<1>3. Rankable(rows)
  BY <1>1, SelectedAddUp
<1>4. Range(Ordered(rows, sort)) = rows
  BY <1>3, RankingComplete
<1> QED
  BY <1>1, <1>2, <1>4, SelectedAddUp

\* Without a window, everything is selected.
LEMMA NoWindow ==
    ASSUME NEW B, NEW statuses
    PROVE  {p \in Of(B, statuses) : Within(p, None, None)} = Of(B, statuses)
  BY DEF Within

\* What is locked of a user's payments, in all and by business.
LEMMA LockedSummary ==
    ASSUME NEW user \in Users
    PROVE  /\ GetMyEscrowLockedSummary(user, None)
                = [paymentCount |-> Count(Of(Owned(user), LockedStatuses)),
                   volume |-> Volume(Of(Owned(user), LockedStatuses))]
           /\ \A b \in Owned(user) :
                 GetMyEscrowLockedSummary(user, b)
                    = [paymentCount |-> Count(Of({b}, LockedStatuses)),
                       volume |-> Volume(Of({b}, LockedStatuses))]
           /\ \A b \in Businesses \ Owned(user) : GetMyEscrowLockedSummary(user, b) = None
<1>1. ASSUME NEW B \in SUBSET Businesses
      PROVE  LET rows == {RankingRow(b, Of({b}, LockedStatuses)) : b \in B}
             IN  /\ PaymentsIn(rows) = Count(Of(B, LockedStatuses))
                 /\ VolumeIn(rows) = Volume(Of(B, LockedStatuses))
  <2>1. {RankingRow(b, Of({b}, LockedStatuses)) : b \in B}
          = RowsOf(B, Selected(B, LockedStatuses, None, None))
    BY NoWindow DEF RowsOf, Selected
  <2> DEFINE rows == RowsOf(B, Selected(B, LockedStatuses, None, None))
             P == {p \in Of(B, LockedStatuses) : Within(p, None, None)}
  <2>2. PaymentsIn(rows) = Count(P) /\ VolumeIn(rows) = Volume(P)
    BY SelectedAddUp
  <2>3. P = Of(B, LockedStatuses)
    BY NoWindow
  <2> QED
    BY <2>1, <2>2, <2>3
<1>2. Owned(user) \in SUBSET Businesses
  BY DEF Owned
<1>3. \A b \in Businesses : b # None
  BY BusinessesAssumption, NullAssumption
<1>4. GetMyEscrowLockedSummary(user, None)
        = [paymentCount |-> Count(Of(Owned(user), LockedStatuses)),
           volume |-> Volume(Of(Owned(user), LockedStatuses))]
  BY <1>1, <1>2 DEF GetMyEscrowLockedSummary
<1>5. ASSUME NEW b \in Owned(user)
      PROVE  GetMyEscrowLockedSummary(user, b)
               = [paymentCount |-> Count(Of({b}, LockedStatuses)),
                  volume |-> Volume(Of({b}, LockedStatuses))]
  <2>1. {b} \in SUBSET Businesses /\ {b} \subseteq Owned(user) /\ b # None
    BY <1>2, <1>3
  <2> QED
    BY <1>1, <2>1 DEF GetMyEscrowLockedSummary
<1>6. \A b \in Businesses \ Owned(user) : GetMyEscrowLockedSummary(user, b) = None
  BY <1>3 DEF GetMyEscrowLockedSummary
<1> QED
  BY <1>4, <1>5, <1>6

-----------------------------------------------------------------------------
(* The views of the same payments agree.                                   *)

\* Math.round of a share keeps the order of the shares.
LEMMA RoundedMonotone ==
    ASSUME NEW m \in Nat, NEW n \in Nat, NEW d \in Nat \ {0}, m <= n
    PROVE  Rounded(m, d) <= Rounded(n, d)
<1> DEFINE a == 2 * m + d
           b == 2 * n + d
           c == 2 * d
<1>1. a \in Nat /\ b \in Nat /\ c \in Nat \ {0} /\ a <= b
  OBVIOUS
<1> HIDE DEF a, b, c
<1>2. a \div c <= b \div c
  BY <1>1
<1> QED
  BY <1>2 DEF Rounded, a, b, c

\* Each step of the funnel counts the payments of its statuses, as a share of
\* the first; no step is wider than the one before.
LEMMA FunnelNarrows ==
    ASSUME NEW user \in Users, NEW i \in 2..Len(Steps)
    PROVE  LET funnel == GetMerchantPaymentFunnel(user)
           IN  /\ funnel[Steps[i]].count <= funnel[Steps[i - 1]].count
               /\ funnel[Steps[i]].percentOfFirst <= funnel[Steps[i - 1]].percentOfFirst
<1> DEFINE P(step) == Of(Owned(user), StatusesOf(step))
           count == [step \in Range(Steps) |-> Count(P(step))]
           iniciadas == count["iniciadas"]
           percent(n) == IF iniciadas = 0 THEN 0 ELSE Rounded(1000 * n, iniciadas)
           x == Steps[i]
           y == Steps[i - 1]
<1>1. Steps \in [1..4 -> Range(Steps)] /\ Len(Steps) = 4 /\ "iniciadas" \in Range(Steps)
  BY DEF Steps, Range
<1>2. x \in Range(Steps) /\ y \in Range(Steps)
  BY <1>1
<1>3. StatusesOf(x) \subseteq StatusesOf(y)
  <2>1. i \in {2, 3, 4}
    BY <1>1
  <2> QED
    BY <2>1 DEF Steps, StatusesOf, MetricsStatuses
<1>4. P(x) \in SUBSET P(y) /\ P(y) \in SUBSET Payments /\ P("iniciadas") \in SUBSET Payments
  BY <1>3 DEF Of
<1>5. count[x] \in Nat /\ count[y] \in Nat /\ iniciadas \in Nat /\ count[x] <= count[y]
  <2>1. IsFiniteSet(P(y)) /\ Cardinality(P(x)) <= Cardinality(P(y))
    BY <1>4, CountType, FS_Subset
  <2>2. Count(P(x)) \in Nat /\ Count(P(y)) \in Nat /\ Count(P("iniciadas")) \in Nat
    BY <1>4, CountType
  <2> QED
    BY <1>1, <1>2, <2>1, <2>2 DEF Count
<1>6. \A step \in Range(Steps) :
        /\ GetMerchantPaymentFunnel(user)[step].count = count[step]
        /\ GetMerchantPaymentFunnel(user)[step].percentOfFirst = percent(count[step])
  BY DEF GetMerchantPaymentFunnel
<1> HIDE DEF count, iniciadas, x, y
<1>7. percent(count[x]) <= percent(count[y])
  <2>1. CASE iniciadas = 0
    BY <2>1
  <2>2. CASE iniciadas # 0
    <3>1. 1000 * count[x] \in Nat /\ 1000 * count[y] \in Nat
          /\ 1000 * count[x] <= 1000 * count[y]
      BY <1>5
    <3>2. iniciadas \in Nat \ {0}
      BY <1>5, <2>2
    <3> QED
      BY <2>2, <3>1, <3>2, RoundedMonotone
  <2> QED
    BY <2>1, <2>2
<1>8. /\ GetMerchantPaymentFunnel(user)[x].count <= GetMerchantPaymentFunnel(user)[y].count
      /\ GetMerchantPaymentFunnel(user)[x].percentOfFirst
            <= GetMerchantPaymentFunnel(user)[y].percentOfFirst
  BY <1>2, <1>5, <1>6, <1>7
<1> QED
  BY <1>8 DEF x, y

\* Received is locked or paid out, never both.
LEMMA ReceivedIsLockedOrPaid ==
    ASSUME NEW B
    PROVE  LET received == Of(B, MetricsStatuses)
               held == Of(B, LockedStatuses)
               paidOut == Of(B, StatusesOf("liberados"))
           IN  /\ Count(received) = Count(held) + Count(paidOut)
               /\ Volume(received) = Volume(held) + Volume(paidOut)
<1> DEFINE received == Of(B, MetricsStatuses)
           held == Of(B, LockedStatuses)
           paidOut == Of(B, StatusesOf("liberados"))
<1>1. held \in SUBSET Payments /\ paidOut \in SUBSET Payments
  BY DEF Of
<1>2. received = held \cup paidOut /\ held \cap paidOut = {}
  BY DEF Of, MetricsStatuses, LockedStatuses, StatusesOf
<1> HIDE DEF received, held, paidOut
<1>3. Count(received) = Count(held) + Count(paidOut)
      /\ Volume(received) = Volume(held) + Volume(paidOut)
  BY <1>1, <1>2, CountOfTwo
<1> QED
  BY <1>3 DEF received, held, paidOut

\* The volumes that are locked with each business add up to the user's.
LEMMA BreakdownAddsUp ==
    ASSUME NEW user \in Users
    PROVE  Total([b \in {b \in Businesses : GetMyEscrowLockedSummary(user, b) # None} |->
                    GetMyEscrowLockedSummary(user, b).volume])
             = Volume(Of(Owned(user), LockedStatuses))
<1> DEFINE B == Owned(user)
           shown == {b \in Businesses : GetMyEscrowLockedSummary(user, b) # None}
           volumes == [b \in B |-> Volume(Of({b}, LockedStatuses))]
           lamports == [b \in B |-> Lamports(Of({b}, LockedStatuses))]
           P == Of(B, LockedStatuses)
<1>1. B \in SUBSET Businesses /\ IsFiniteSet(B)
  BY OwnedFinite DEF Owned
<1>2. \A b \in B : /\ Of({b}, LockedStatuses) \in SUBSET Payments
                   /\ IsFiniteSet(lamports[b]) /\ volumes[b] = Cardinality(lamports[b])
                   /\ Count(Of({b}, LockedStatuses)) \in Nat /\ volumes[b] \in Nat
  <2> TAKE b \in B
  <2>1. Of({b}, LockedStatuses) \in SUBSET Payments
    BY DEF Of
  <2> QED
    BY <2>1, CountType
<1>3. shown = B
  <2>1. ASSUME NEW b \in B
        PROVE  GetMyEscrowLockedSummary(user, b) \in [paymentCount : Nat, volume : Nat]
    <3>1. GetMyEscrowLockedSummary(user, b)
            = [paymentCount |-> Count(Of({b}, LockedStatuses)),
               volume |-> Volume(Of({b}, LockedStatuses))]
      BY LockedSummary
    <3> QED
      BY <1>2, <3>1
  <2> QED
    BY <1>1, <2>1, LockedSummary, NullAssumption
<1>4. ASSUME NEW b \in B
      PROVE  GetMyEscrowLockedSummary(user, b).volume = volumes[b]
  <2>1. GetMyEscrowLockedSummary(user, b)
          = [paymentCount |-> Count(Of({b}, LockedStatuses)),
             volume |-> Volume(Of({b}, LockedStatuses))]
    BY LockedSummary
  <2> QED
    BY <2>1
<1>5. Total(volumes) = Cardinality(Whole(lamports))
  <2>1. DOMAIN lamports = B /\ volumes = Sizes(lamports)
    BY <1>2 DEF Sizes
  <2>2. \A b, c \in B : b # c => lamports[b] \cap lamports[c] = {}
    BY LamportsOf DEF Of
  <2> HIDE DEF lamports, volumes
  <2> QED
    BY <1>1, <1>2, <2>1, <2>2, PartsCounted
<1>6. Whole(lamports) = Lamports(P)
  <2>1. \A b \in B : lamports[b] \subseteq Lamports(P)
    BY LamportsOf DEF Of
  <2>2. ASSUME NEW u \in Lamports(P) PROVE \E b \in B : u \in lamports[b]
    <3>1. u[1] \in P
      BY LamportsOf
    <3>2. PICK b \in B : u[1] \in Of({b}, LockedStatuses)
      BY <3>1 DEF Of
    <3>3. u \in Lamports(Of({b}, LockedStatuses))
      BY <3>2, LamportsOf
    <3> QED
      BY <3>3
  <2> QED
    BY <2>1, <2>2 DEF Whole
<1>7. P \in SUBSET Payments
  BY DEF Of
<1>8. Total(volumes) = Volume(P)
  BY <1>5, <1>6, <1>7, CountType
<1>9. [b \in shown |-> GetMyEscrowLockedSummary(user, b).volume] = volumes
  BY <1>3, <1>4
<1> QED
  BY <1>8, <1>9

LEMMA FundsAgreeAlways == MetricsIInv => FundsAgree
<1> SUFFICES ASSUME MetricsIInv, NEW user \in Users
             PROVE  LET funnel == GetMerchantPaymentFunnel(user)
                        summary == GetMyEscrowLockedSummary(user, None)
                        ranking == Range(GetMyBusinessesPaymentMetrics(user, None, None, "volume"))
                        paidOut == Of(Owned(user), StatusesOf("liberados"))
                    IN /\ funnel["fondos_recibidos"].count
                            = summary.paymentCount + funnel["liberados"].count
                       /\ funnel["fondos_recibidos"].count = PaymentsIn(ranking)
                       /\ summary.volume + Volume(paidOut) = VolumeIn(ranking)
                       /\ summary.volume =
                            Total([b \in {b \in Businesses : GetMyEscrowLockedSummary(user, b) # None} |->
                                      GetMyEscrowLockedSummary(user, b).volume])
  BY FunnelNarrows DEF FundsAgree
<1> DEFINE funnel == GetMerchantPaymentFunnel(user)
           received == Of(Owned(user), MetricsStatuses)
           ranking == Range(GetMyBusinessesPaymentMetrics(user, None, None, "volume"))
<1>1. /\ funnel["fondos_recibidos"].count = Count(received)
      /\ funnel["liberados"].count = Count(Of(Owned(user), StatusesOf("liberados")))
  <2>1. "fondos_recibidos" \in Range(Steps) /\ "liberados" \in Range(Steps)
    BY DEF Steps, Range
  <2>2. StatusesOf("fondos_recibidos") = MetricsStatuses
    BY DEF StatusesOf
  <2> QED
    BY <2>1, <2>2 DEF GetMerchantPaymentFunnel
<1>2. PaymentsIn(ranking) = Count(received) /\ VolumeIn(ranking) = Volume(received)
  <2>1. "volume" \in Sorts
    BY DEF Sorts
  <2>2. /\ PaymentsIn(ranking) = Count({p \in received : Within(p, None, None)})
        /\ VolumeIn(ranking) = Volume({p \in received : Within(p, None, None)})
    BY <2>1, MyRanking
  <2>3. {p \in received : Within(p, None, None)} = received
    BY NoWindow
  <2> QED
    BY <2>2, <2>3
<1>3. /\ GetMyEscrowLockedSummary(user, None).paymentCount = Count(Of(Owned(user), LockedStatuses))
      /\ GetMyEscrowLockedSummary(user, None).volume = Volume(Of(Owned(user), LockedStatuses))
  BY LockedSummary
<1> QED
  BY <1>1, <1>2, <1>3, ReceivedIsLockedOrPaid, BreakdownAddsUp

-----------------------------------------------------------------------------
(* The invariant.                                                          *)

\* Natural numbers have a least element, which Min chooses.
LEMMA MinOfNaturals ==
    ASSUME NEW T \in SUBSET Nat, T # {}
    PROVE  Min(T) \in T /\ \A y \in T : Min(T) <= y
<1>1. PICK x \in T : \A y \in T : ~ (<<y, x>> \in OpToRel(<, Nat))
  BY NatLessThanWellFounded, WFMin
<1>2. \A y \in T : ~ (y < x)
  BY <1>1 DEF OpToRel
<1>3. \A y \in T : x <= y
  BY <1>2
<1> QED
  BY <1>3 DEF Min

LEMMA MetricsInitInv == MetricsInit => MetricsIInv
<1> SUFFICES ASSUME MetricsInit PROVE MetricsIInv
  OBVIOUS
<1>1. now \in Moments
  BY MinOfNaturals, MomentsAssumption DEF MetricsInit
<1>2. \A h \in Handlers : hand[h] = NoUpdate
  BY DEF MetricsInit
<1> QED
  BY <1>1, <1>2 DEF MetricsInit, MetricsIInv, MetricsTypeOK, DatesCome, UpdatesFit,
     FoundPending, FoundCounted, NoUpdate

\* What a handler has in hand.
LEMMA HandShape ==
    ASSUME MetricsIInv, NEW h \in Handlers, hand[h] # NoUpdate
    PROVE  /\ hand[h] \in Update
           /\ row[hand[h].payment] \in Row
           /\ row[hand[h].payment].at \in Moments /\ row[hand[h].payment].at <= now
           /\ hand[h].paidAt # None => hand[h].paidAt \in Moments /\ hand[h].paidAt <= now
<1>1. hand[h] \in Update /\ hand[h].payment \in Payments
  BY DEF MetricsIInv, MetricsTypeOK, Update
<1>2. row[hand[h].payment] # NoRow
  BY <1>1 DEF MetricsIInv, UpdatesFit
<1> QED
  BY <1>1, <1>2 DEF MetricsIInv, MetricsTypeOK, DatesCome, Update, Row

\* A new row is in nobody's hands.
LEMMA CreateInv ==
    ASSUME MetricsIInv, NEW p \in Payments, CreatePaymentQr(p)
    PROVE  MetricsIInv'
<1>1. PICK b \in Askers[p] :
        row' = [row EXCEPT ![p] = [status |-> "pending", business |-> b, at |-> now]]
  BY DEF CreatePaymentQr
<1> DEFINE new == [status |-> "pending", business |-> b, at |-> now]
<1>2. now \in Moments /\ now \in Nat
  BY MomentsAssumption DEF MetricsIInv, MetricsTypeOK
<1>3. new \in Row /\ new.at = now /\ new # NoRow
  BY <1>1, <1>2, PaymentsAssumption DEF Row, NoRow
<1>4. row' = [row EXCEPT ![p] = new] /\ row[p] = NoRow /\ UNCHANGED <<now, hand, twice>>
  BY <1>1 DEF CreatePaymentQr
<1> HIDE DEF new
<1>5. \A q \in Payments : row'[q] = IF q = p THEN new ELSE row[q]
  BY <1>4 DEF MetricsIInv, MetricsTypeOK
<1>6. MetricsTypeOK'
  BY <1>3, <1>4 DEF MetricsIInv, MetricsTypeOK
<1>7. DatesCome'
  BY <1>2, <1>3, <1>4, <1>5 DEF MetricsIInv, DatesCome
<1>8. \A h \in Handlers : hand[h] # NoUpdate => hand[h].payment # p
  BY <1>4 DEF MetricsIInv, UpdatesFit
<1>9. \A h \in Handlers : ~FoundPending(h, p) /\ ~FoundCounted(h, p)
  BY <1>8 DEF FoundPending, FoundCounted, NoUpdate
<1>10. UpdatesFit'
  BY <1>4, <1>5, <1>8, <1>9 DEF MetricsIInv, UpdatesFit, FoundPending, FoundCounted
<1> QED
  BY <1>6, <1>7, <1>10 DEF MetricsIInv

\* The hands of others stay as they are.
LEMMA OneHand ==
    ASSUME MetricsIInv, NEW h \in Handlers, NEW new, hand' = [hand EXCEPT ![h] = new]
    PROVE  /\ hand'[h] = new
           /\ \A k \in Handlers \ {h} :
                /\ hand'[k] = hand[k]
                /\ \A p \in Payments : /\ FoundPending(k, p)' <=> FoundPending(k, p)
                                       /\ FoundCounted(k, p)' <=> FoundCounted(k, p)
<1>1. hand'[h] = new /\ \A k \in Handlers \ {h} : hand'[k] = hand[k]
  BY DEF MetricsIInv, MetricsTypeOK
<1> QED
  BY <1>1 DEF FoundPending, FoundCounted

\* Who reads a row finds it as it is; two who find it pending are noted.
LEMMA FindInv ==
    ASSUME MetricsIInv, NEW h \in Handlers, NEW p \in Payments, NEW statuses, NEW to,
           Find(h, p, statuses, to),
           \/ statuses = {"pending"} /\ to \in {"escrow_locked", "expired"}
           \/ /\ statuses \subseteq MetricsStatuses
              /\ to \in {"shipped", "released", "auto_released"}
    PROVE  MetricsIInv'
<1> DEFINE new == [payment |-> p, status |-> to, paidAt |-> None]
<1>1. /\ hand' = [hand EXCEPT ![h] = new]
      /\ row[p].status \in statuses /\ twice \subseteq twice' /\ twice' \subseteq Payments
      /\ row' = row /\ now' = now
  BY DEF Find, table, MetricsIInv, MetricsTypeOK
<1>2. new \in Update /\ new.payment = p /\ new.status = to /\ new.paidAt = None
  BY DEF Update, MetricsStatuses
<1> HIDE DEF new
<1>3. /\ hand'[h] = new
      /\ \A k \in Handlers \ {h} :
           /\ hand'[k] = hand[k]
           /\ \A q \in Payments : /\ FoundPending(k, q)' <=> FoundPending(k, q)
                                  /\ FoundCounted(k, q)' <=> FoundCounted(k, q)
  BY <1>1, OneHand
<1>4. MetricsTypeOK'
  BY <1>1, <1>2 DEF MetricsIInv, MetricsTypeOK
<1>5. DatesCome'
  BY <1>1, <1>2, <1>3 DEF MetricsIInv, DatesCome
<1>6. /\ \A q \in Payments : FoundPending(h, q)' => q = p /\ to \in {"escrow_locked", "expired"}
      /\ \A q \in Payments : FoundCounted(h, q)' =>
           q = p /\ to \in {"shipped", "released", "auto_released"}
      /\ row[p] # NoRow
  BY <1>1, <1>2, <1>3 DEF FoundPending, FoundCounted, NoRow, MetricsStatuses
<1>7. ASSUME to \in {"escrow_locked", "expired"}, p \notin twice'
      PROVE  row[p].status = "pending" /\ \A k \in Handlers \ {h} : ~FoundPending(k, p)
  BY <1>7, <1>1 DEF Find
<1>8. to \in {"shipped", "released", "auto_released"} => row[p].status \in MetricsStatuses
  BY <1>1
<1>9. ASSUME NEW k \in Handlers, NEW q \in Payments
      PROVE  /\ hand'[k] # NoUpdate /\ hand'[k].payment = q => row'[q] # NoRow
             /\ FoundPending(k, q)' /\ q \notin twice' =>
                  /\ row'[q].status = "pending"
                  /\ \A other \in Handlers \ {k} : ~FoundPending(other, q)'
             /\ FoundCounted(k, q)' /\ q \notin twice' => row'[q].status \in MetricsStatuses
  <2>1. CASE k = h
    BY <1>1, <1>2, <1>3, <1>6, <1>7, <1>8, <2>1
  <2>2. CASE k # h
    <3>1. /\ hand[k] # NoUpdate /\ hand[k].payment = q => row[q] # NoRow
          /\ FoundPending(k, q) /\ q \notin twice =>
               /\ row[q].status = "pending"
               /\ \A other \in Handlers \ {k} : ~FoundPending(other, q)
          /\ FoundCounted(k, q) /\ q \notin twice => row[q].status \in MetricsStatuses
      BY DEF MetricsIInv, UpdatesFit
    <3>2. FoundPending(k, q) /\ q \notin twice' => ~FoundPending(h, q)'
      BY <1>6, <1>7, <2>2
    <3> QED
      BY <1>1, <1>3, <2>2, <3>1, <3>2
  <2> QED
    BY <2>1, <2>2
<1>10. UpdatesFit'
  BY <1>9 DEF UpdatesFit, MetricsStatuses
<1> QED
  BY <1>4, <1>5, <1>10 DEF MetricsIInv

LEMMA TimePassesLater ==
    ASSUME MetricsIInv, TimePasses
    PROVE  now \in Nat /\ now' \in Moments /\ now' \in Nat /\ now' > now
<1> DEFINE T == {later \in Moments : later > now}
<1>1. T \in SUBSET Nat /\ T # {} /\ now' = Min(T)
  BY MomentsAssumption DEF TimePasses
<1>2. now' \in T
  BY <1>1, MinOfNaturals
<1> QED
  BY <1>2, MomentsAssumption DEF MetricsIInv, MetricsTypeOK

\* An update taken further, or let go, is of the same payment or none.
LEMMA HandInv ==
    ASSUME MetricsIInv, NEW h \in Handlers, EscrowFound(h) \/ LetGo(h)
    PROVE  MetricsIInv'
<1>1. row' = row /\ now' = now /\ twice' = twice /\ hand[h] # NoUpdate
  BY DEF EscrowFound, LetGo, NoUpdate
<1>2. now \in Moments /\ now \in Nat /\ hand[h] \in Update
  BY <1>1, HandShape, MomentsAssumption DEF MetricsIInv, MetricsTypeOK
<1>3. PICK new \in Update \cup {NoUpdate} :
        /\ hand' = [hand EXCEPT ![h] = new]
        /\ new.paidAt \in {None, now}
        /\ new.paidAt # None => new.status = "escrow_locked"
        /\ new # NoUpdate => new.payment = hand[h].payment /\ new.status = hand[h].status
        /\ new = NoUpdate => new.status = "none"
  <2>1. CASE EscrowFound(h)
    <3> DEFINE found == [hand[h] EXCEPT !.paidAt = now]
    <3>1. hand' = [hand EXCEPT ![h] = found]
      BY <2>1 DEF EscrowFound
    <3>2. /\ found \in Update /\ found.paidAt = now
          /\ found.payment = hand[h].payment /\ found.status = hand[h].status
      BY <1>2 DEF Update
    <3>3. found.status = "escrow_locked"
      BY <2>1, <3>2 DEF EscrowFound
    <3>4. found # NoUpdate
      BY <3>3 DEF NoUpdate
    <3>5. found \in Update \cup {NoUpdate} /\ found.paidAt \in {None, now}
      BY <3>2
    <3> HIDE DEF found
    <3> QED
      BY <3>1, <3>2, <3>3, <3>4, <3>5
  <2>2. CASE LetGo(h)
    <3>1. hand' = [hand EXCEPT ![h] = NoUpdate]
      BY <2>2 DEF LetGo
    <3>2. NoUpdate.paidAt = None /\ NoUpdate.status = "none"
      BY DEF NoUpdate
    <3> QED
      BY <3>1, <3>2
  <2> QED
    BY <2>1, <2>2
<1>4. /\ hand'[h] = new
      /\ \A k \in Handlers \ {h} :
           /\ hand'[k] = hand[k]
           /\ \A q \in Payments : /\ FoundPending(k, q)' <=> FoundPending(k, q)
                                  /\ FoundCounted(k, q)' <=> FoundCounted(k, q)
  BY <1>3, OneHand
<1>5. \A q \in Payments : /\ FoundPending(h, q)' => FoundPending(h, q)
                          /\ FoundCounted(h, q)' => FoundCounted(h, q)
  BY <1>3, <1>4 DEF FoundPending, FoundCounted
<1>6. MetricsTypeOK'
  BY <1>1, <1>3 DEF MetricsIInv, MetricsTypeOK
<1>7. DatesCome'
  BY <1>1, <1>2, <1>3, <1>4 DEF MetricsIInv, DatesCome
<1>8. \A k \in Handlers : \A q \in Payments :
         /\ FoundPending(k, q)' => FoundPending(k, q)
         /\ FoundCounted(k, q)' => FoundCounted(k, q)
         /\ hand'[k] # NoUpdate /\ hand'[k].payment = q =>
              hand[k] # NoUpdate /\ hand[k].payment = q
  BY <1>1, <1>3, <1>4, <1>5
<1>9. UpdatesFit'
  BY <1>1, <1>8 DEF MetricsIInv, UpdatesFit, MetricsStatuses
<1> QED
  BY <1>6, <1>7, <1>9 DEF MetricsIInv

\* The row that an update leaves behind.
LEMMA UpdateWrites ==
    ASSUME MetricsIInv, NEW h \in Handlers, UpdateRow(h)
    PROVE  \E p \in Payments, new \in Row :
             /\ hand[h] \in Update /\ hand[h].payment = p /\ row[p] \in Row
             /\ row' = [row EXCEPT ![p] = new]
             /\ new.status = hand[h].status /\ new.business = row[p].business
             /\ hand[h].status = "escrow_locked" =>
                  hand[h].paidAt # None /\ new.at = hand[h].paidAt
             /\ hand[h].status # "escrow_locked" => new.at = row[p].at
             /\ new.at \in Moments /\ new.at <= now
<1>1. PICK p \in Payments :
        /\ hand[h].payment = p
        /\ row' = [row EXCEPT ![p].status = hand[h].status,
                              ![p].at = IF hand[h].paidAt = None THEN @ ELSE hand[h].paidAt]
  BY DEF UpdateRow
<1>2. /\ hand[h] \in Update /\ row[p] \in Row
      /\ row[p].at \in Moments /\ row[p].at <= now
      /\ hand[h].paidAt # None => hand[h].paidAt \in Moments /\ hand[h].paidAt <= now
  BY <1>1, HandShape DEF UpdateRow
<1> DEFINE at == IF hand[h].paidAt = None THEN row[p].at ELSE hand[h].paidAt
           new == [[row[p] EXCEPT !.status = hand[h].status] EXCEPT !.at = at]
<1>3. new \in Row /\ new.status = hand[h].status /\ new.business = row[p].business /\ new.at = at
  BY <1>2 DEF Row, Update
<1>4. row' = [row EXCEPT ![p] = new]
  BY <1>1, <1>2 DEF MetricsIInv, MetricsTypeOK, Row
<1>5. hand[h].status = "escrow_locked" <=> hand[h].paidAt # None
  BY DEF UpdateRow, MetricsIInv, DatesCome
<1>6. at \in Moments /\ at <= now
  BY <1>2
<1>7. /\ hand[h].paidAt # None => at = hand[h].paidAt
      /\ hand[h].paidAt = None => at = row[p].at
  OBVIOUS
<1> HIDE DEF new, at
<1> QED
  BY <1>1, <1>2, <1>3, <1>4, <1>5, <1>6, <1>7

\* Whoever else holds a payment that was not found pending twice finds after an
\* update what he expects: of the two, at least one came when it was counted.
LEMMA UpdateInv ==
    ASSUME MetricsIInv, NEW h \in Handlers, UpdateRow(h)
    PROVE  MetricsIInv'
<1>1. PICK p \in Payments, new \in Row :
        /\ hand[h] \in Update /\ hand[h].payment = p /\ row[p] \in Row
        /\ row' = [row EXCEPT ![p] = new] /\ new.status = hand[h].status
        /\ new.at \in Moments /\ new.at <= now
  BY UpdateWrites
<1>2. hand' = [hand EXCEPT ![h] = NoUpdate] /\ UNCHANGED <<now, twice>>
  BY DEF UpdateRow
<1>3. \A q \in Payments : row'[q] = IF q = p THEN new ELSE row[q]
  BY <1>1 DEF MetricsIInv, MetricsTypeOK
<1>4. /\ hand'[h] = NoUpdate
      /\ \A k \in Handlers \ {h} :
           /\ hand'[k] = hand[k]
           /\ \A q \in Payments : /\ FoundPending(k, q)' <=> FoundPending(k, q)
                                  /\ FoundCounted(k, q)' <=> FoundCounted(k, q)
  BY <1>2, OneHand
<1>5. \A q \in Payments : ~FoundPending(h, q)' /\ ~FoundCounted(h, q)'
  BY <1>4 DEF FoundPending, FoundCounted, NoUpdate
<1>6. MetricsTypeOK'
  BY <1>1, <1>2 DEF MetricsIInv, MetricsTypeOK
<1>7. DatesCome'
  BY <1>1, <1>2, <1>3, <1>4 DEF MetricsIInv, DatesCome, NoUpdate
<1>8. new # NoRow
  BY <1>1 DEF Row, NoRow, MetricsStatuses
<1>9. FoundPending(h, p) \/ FoundCounted(h, p)
  BY <1>1 DEF Update, MetricsStatuses, FoundPending, FoundCounted
<1>10. ASSUME NEW k \in Handlers \ {h}, p \notin twice
       PROVE  /\ ~FoundPending(k, p)
              /\ FoundCounted(k, p) => new.status \in MetricsStatuses
  <2>1. CASE FoundPending(h, p)
    <3>1. row[p].status = "pending" /\ ~FoundPending(k, p)
      BY <1>10, <2>1 DEF MetricsIInv, UpdatesFit
    <3>2. ~FoundCounted(k, p)
      BY <1>10, <3>1 DEF MetricsIInv, UpdatesFit, MetricsStatuses
    <3> QED
      BY <3>1, <3>2
  <2>2. CASE FoundCounted(h, p)
    <3>1. row[p].status # "pending"
      BY <1>10, <2>2 DEF MetricsIInv, UpdatesFit, MetricsStatuses
    <3>2. ~FoundPending(k, p)
      BY <1>10, <3>1 DEF MetricsIInv, UpdatesFit
    <3>3. new.status \in MetricsStatuses
      BY <1>1, <2>2 DEF FoundCounted, MetricsStatuses
    <3> QED
      BY <3>2, <3>3
  <2> QED
    BY <1>9, <2>1, <2>2
<1>11. ASSUME NEW k \in Handlers, NEW q \in Payments
       PROVE  /\ hand'[k] # NoUpdate /\ hand'[k].payment = q => row'[q] # NoRow
              /\ FoundPending(k, q)' /\ q \notin twice' =>
                   /\ row'[q].status = "pending"
                   /\ \A other \in Handlers \ {k} : ~FoundPending(other, q)'
              /\ FoundCounted(k, q)' /\ q \notin twice' => row'[q].status \in MetricsStatuses
  <2>1. CASE k = h
    BY <1>4, <1>5, <2>1
  <2>2. CASE k # h
    <3>1. /\ hand[k] # NoUpdate /\ hand[k].payment = q => row[q] # NoRow
          /\ FoundPending(k, q) /\ q \notin twice =>
               /\ row[q].status = "pending"
               /\ \A other \in Handlers \ {k} : ~FoundPending(other, q)
          /\ FoundCounted(k, q) /\ q \notin twice => row[q].status \in MetricsStatuses
      BY DEF MetricsIInv, UpdatesFit
    <3>2. hand'[k] # NoUpdate /\ hand'[k].payment = q => row'[q] # NoRow
      BY <1>3, <1>4, <1>8, <2>2, <3>1
    <3>3. FoundPending(k, q)' /\ q \notin twice' =>
            /\ row'[q].status = "pending"
            /\ \A other \in Handlers \ {k} : ~FoundPending(other, q)'
      BY <1>2, <1>3, <1>4, <1>5, <1>10, <2>2, <3>1
    <3>4. FoundCounted(k, q)' /\ q \notin twice' => row'[q].status \in MetricsStatuses
      BY <1>2, <1>3, <1>4, <1>10, <2>2, <3>1
    <3> QED
      BY <3>2, <3>3, <3>4
  <2> QED
    BY <2>1, <2>2
<1>12. UpdatesFit'
  BY <1>11 DEF UpdatesFit, MetricsStatuses
<1> QED
  BY <1>6, <1>7, <1>12 DEF MetricsIInv

LEMMA TimePassesInv ==
    ASSUME MetricsIInv, TimePasses
    PROVE  MetricsIInv'
<1>1. UNCHANGED <<row, hand, twice>>
  BY DEF TimePasses
<1>2. /\ \A p \in Payments : row[p] # NoRow => row[p].at \in Nat
      /\ \A h \in Handlers : hand[h].paidAt # None => hand[h].paidAt \in Nat
  <2>1. \A p \in Payments : row[p] # NoRow => row[p].at \in Nat
    BY MomentsAssumption DEF MetricsIInv, MetricsTypeOK, Row
  <2>2. \A h \in Handlers : hand[h].paidAt # None => hand[h] # NoUpdate
    BY DEF NoUpdate
  <2> QED
    BY <2>1, <2>2, HandShape, MomentsAssumption
<1>3. MetricsTypeOK' /\ DatesCome'
  BY <1>1, <1>2, TimePassesLater DEF MetricsIInv, MetricsTypeOK, DatesCome
<1>4. UpdatesFit'
  BY <1>1 DEF MetricsIInv, UpdatesFit, FoundPending, FoundCounted, MetricsStatuses
<1> QED
  BY <1>3, <1>4 DEF MetricsIInv

LEMMA MetricsStepInv == MetricsIInv /\ [MetricsNext]_metricsVars => MetricsIInv'
<1> SUFFICES ASSUME MetricsIInv, [MetricsNext]_metricsVars PROVE MetricsIInv'
  OBVIOUS
<1>1. ASSUME NEW p \in Payments, CreatePaymentQr(p) PROVE MetricsIInv'
  BY <1>1, CreateInv
<1>2. ASSUME NEW h \in Handlers, NEW p \in Payments,
             ScanEscrowCreated(h, p) \/ ScanExpired(h, p)
      PROVE  MetricsIInv'
  BY <1>2, FindInv DEF ScanEscrowCreated, ScanExpired
<1>3. ASSUME NEW h \in Handlers, NEW p \in Payments,
             ShipPayment(h, p) \/ ScanEscrowReleased(h, p) \/ ScanAutoRelease(h, p)
      PROVE  MetricsIInv'
  <2>1. {"escrow_locked"} \subseteq MetricsStatuses /\ {"shipped"} \subseteq MetricsStatuses
        /\ {"escrow_locked", "shipped"} \subseteq MetricsStatuses
    BY DEF MetricsStatuses
  <2> QED
    BY <1>3, <2>1, FindInv DEF ShipPayment, ScanEscrowReleased, ScanAutoRelease
<1>4. ASSUME NEW h \in Handlers, EscrowFound(h) \/ UpdateRow(h) \/ LetGo(h)
      PROVE  MetricsIInv'
  BY <1>4, HandInv, UpdateInv
<1>5. CASE TimePasses
  BY <1>5, TimePassesInv
<1>6. CASE UNCHANGED metricsVars
  BY <1>6 DEF metricsVars, MetricsIInv, MetricsTypeOK, DatesCome, UpdatesFit,
     FoundPending, FoundCounted, MetricsStatuses
<1> QED
  BY <1>1, <1>2, <1>3, <1>4, <1>5, <1>6 DEF MetricsNext

LEMMA MetricsInvariant == MetricsSpec => []MetricsIInv
  BY MetricsInitInv, MetricsStepInv, PTL DEF MetricsSpec

\* The three views a merchant has of the same payments (funnel, locked funds,
\* rankings) agree, for any payments, amounts and businesses.
THEOREM FundsAlwaysAgree == MetricsSpec => []FundsAgree
  BY MetricsInvariant, FundsAgreeAlways, PTL

-----------------------------------------------------------------------------
(* The volume classes.                                                     *)

\* Cardinalities of the subsets of a finite set.
LEMMA SubsetCounts ==
    ASSUME NEW S, IsFiniteSet(S), NEW T \in SUBSET S
    PROVE  /\ IsFiniteSet(T) /\ Cardinality(T) \in Nat /\ Cardinality(S) \in Nat
           /\ Cardinality(T) <= Cardinality(S)
           /\ Cardinality(S \ T) = Cardinality(S) - Cardinality(T)
<1>1. IsFiniteSet(T) /\ Cardinality(T) <= Cardinality(S)
  BY FS_Subset
<1>2. Cardinality(T) \in Nat /\ Cardinality(S) \in Nat
  BY <1>1, FS_CardinalityType
<1>3. S \cap T = T
  OBVIOUS
<1>4. Cardinality(S \ T) = Cardinality(S) - Cardinality(S \cap T)
  BY FS_Difference
<1> QED
  BY <1>1, <1>2, <1>3, <1>4

\* The k-th volume of n exists: no more than k are below it, more than k are
\* not above it.
LEMMA CutFound ==
    ASSUME NEW M \in SUBSET Nat, IsFiniteSet(M), NEW volume,
           \A m \in M : volume[m] \in Nat,
           NEW k \in 0..Cardinality(M) - 1
    PROVE  /\ SortedAt(M, volume, k) \in Nat
           /\ Cardinality({m \in M : volume[m] < SortedAt(M, volume, k)}) <= k
           /\ Cardinality({m \in M : volume[m] <= SortedAt(M, volume, k)}) > k
<1> DEFINE n == Cardinality(M)
           rowOf(m) == [id |-> m, paymentCount |-> 0, volume |-> volume[m]]
           rows == {rowOf(m) : m \in M}
           f == [m \in M |-> rowOf(m)]
           Sought(v) == /\ Cardinality({m \in M : volume[m] < v}) <= k
                        /\ Cardinality({m \in M : volume[m] <= v}) > k
<1>1. \A m \in M : f[m] \in rows /\ f[m].id = m /\ f[m].volume = volume[m]
  OBVIOUS
<1>2. f \in Injection(M, rows) /\ f \in Surjection(M, rows)
  BY DEF Injection, Surjection, IsInjective
<1>3. IsFiniteSet(rows) /\ Cardinality(rows) = n /\ n \in Nat
  BY <1>2, FS_Bijection, FS_CardinalityType DEF Bijection, ExistsBijection
<1>4. Rankable(rows)
  <2>1. ASSUME NEW r \in rows
        PROVE  r.id \in Nat /\ r.paymentCount \in Nat /\ r.volume \in Nat
    <3>1. PICK m \in M : r = rowOf(m)
      OBVIOUS
    <3>2. r.id = m /\ r.paymentCount = 0 /\ r.volume = volume[m]
      BY <3>1
    <3> QED
      BY <3>2
  <2>2. \A r, s \in rows : r.id = s.id => r = s
    OBVIOUS
  <2> QED
    BY <1>3, <2>1, <2>2 DEF Rankable
<1>5. "volume" \in Sorts /\ n - k \in 1..n
  BY <1>3 DEF Sorts
<1>6. PICK c \in M : Rank(f[c], rows, "volume") = n - k - 1
  <2>0. \A i \in 1..n : /\ Ordered(rows, "volume")[i] \in rows
                        /\ Rank(Ordered(rows, "volume")[i], rows, "volume") = i - 1
    <3> HIDE DEF rows
    <3>1. Ordered(rows, "volume") \in [1..Cardinality(rows) -> rows]
      BY <1>4, <1>5, RankingComplete
    <3>2. \A i \in 1..Cardinality(rows) :
            Rank(Ordered(rows, "volume")[i], rows, "volume") = i - 1
      BY <1>4, <1>5, RankingComplete
    <3> QED
      BY <1>3, <3>1, <3>2
  <2>1. Ordered(rows, "volume")[n - k] \in rows
        /\ Rank(Ordered(rows, "volume")[n - k], rows, "volume") = (n - k) - 1
    BY <1>5, <2>0
  <2>2. PICK c \in M : f[c] = Ordered(rows, "volume")[n - k]
    BY <1>2, <2>1 DEF Surjection
  <2> QED
    BY <1>3, <2>1, <2>2
<1> DEFINE before == {m \in M : Before(f[m], f[c], "volume")}
           ahead == {s \in rows : Before(s, f[c], "volume")}
           v == volume[c]
           below == {m \in M : volume[m] < v}
           upTo == {m \in M : volume[m] <= v}
<1>7. Cardinality(before) = n - k - 1
  <2>1. [m \in before |-> f[m]] \in Injection(before, ahead)
    BY DEF Injection, IsInjective
  <2>2. [m \in before |-> f[m]] \in Surjection(before, ahead)
    BY DEF Surjection
  <2>3. before \in SUBSET M
    OBVIOUS
  <2>4. IsFiniteSet(before)
    BY <2>3, FS_Subset
  <2> HIDE DEF before, ahead
  <2>5. Cardinality(before) = Cardinality(ahead)
    BY <2>1, <2>2, <2>4, FS_Bijection DEF Bijection, ExistsBijection
  <2> QED
    BY <1>6, <2>5 DEF Rank, ahead
<1>8. \A m \in M : Before(f[m], f[c], "volume")
                     <=> volume[m] > v \/ (volume[m] = v /\ m < c)
  BY <1>1 DEF Before, Key
<1>9. /\ before \in SUBSET M /\ M \ before \in SUBSET upTo /\ upTo \in SUBSET M
      /\ below \in SUBSET ((M \ before) \ {c}) /\ c \in M \ before
  <2>1. \A m \in M : volume[m] \in Nat /\ m \in Nat
    OBVIOUS
  <2>2. \A m \in M : m \notin before => volume[m] <= v
    BY <1>8, <2>1
  <2>3. \A m \in M : volume[m] < v => m \notin before /\ m # c
    BY <1>8, <2>1
  <2>4. c \notin before
    BY <1>8, <2>1
  <2> QED
    BY <2>2, <2>3, <2>4
<1> HIDE DEF before, below, upTo, n
<1>10. IsFiniteSet(M \ before) /\ Cardinality(M \ before) = k + 1
  <2>1. Cardinality(M \ before) = n - Cardinality(before)
    BY <1>9, SubsetCounts DEF n
  <2>2. M \ before \in SUBSET M
    OBVIOUS
  <2>3. IsFiniteSet(M \ before)
    BY <2>2, FS_Subset
  <2> QED
    BY <1>3, <1>7, <2>1, <2>3
<1>11. Cardinality(upTo) > k
  <2>1. IsFiniteSet(upTo)
    BY <1>9, FS_Subset
  <2>2. Cardinality(M \ before) <= Cardinality(upTo) /\ Cardinality(upTo) \in Nat
    BY <1>9, <2>1, SubsetCounts
  <2> QED
    BY <1>10, <2>2
<1>12. Cardinality(below) <= k
  <2>1. /\ IsFiniteSet((M \ before) \ {c})
        /\ Cardinality((M \ before) \ {c}) = Cardinality(M \ before) - 1
    BY <1>9, <1>10, FS_RemoveElement
  <2>2. Cardinality(below) <= Cardinality((M \ before) \ {c}) /\ Cardinality(below) \in Nat
    BY <1>9, <2>1, SubsetCounts
  <2> QED
    BY <1>10, <2>1, <2>2
<1>13. v \in {volume[m] : m \in M} /\ Sought(v)
  BY <1>11, <1>12 DEF below, upTo
<1> HIDE DEF v
<1>14. SortedAt(M, volume, k) \in {volume[m] : m \in M} /\ Sought(SortedAt(M, volume, k))
  BY <1>13 DEF SortedAt
<1> QED
  BY <1>14

\* A merchant is at or below the k-th volume when no more than k of the others
\* sell less than he does.
LEMMA CutByRank ==
    ASSUME NEW M \in SUBSET Nat, IsFiniteSet(M), NEW volume,
           \A m \in M : volume[m] \in Nat,
           NEW k \in 0..Cardinality(M) - 1, NEW m \in M
    PROVE  volume[m] <= SortedAt(M, volume, k)
             <=> Cardinality({j \in M : volume[j] < volume[m]}) <= k
<1> DEFINE v == SortedAt(M, volume, k)
           lower == {j \in M : volume[j] < volume[m]}
           below == {j \in M : volume[j] < v}
           upTo == {j \in M : volume[j] <= v}
<1>0. \A j \in M : volume[j] \in Nat
  OBVIOUS
<1>1. v \in Nat /\ Cardinality(below) <= k /\ Cardinality(upTo) > k
  BY CutFound
<1> HIDE DEF v
<1>2. lower \in SUBSET M /\ below \in SUBSET M /\ upTo \in SUBSET M
  OBVIOUS
<1>3. /\ IsFiniteSet(lower) /\ Cardinality(lower) \in Nat
      /\ IsFiniteSet(below) /\ Cardinality(below) \in Nat
      /\ IsFiniteSet(upTo) /\ Cardinality(upTo) \in Nat
  BY <1>2, SubsetCounts
<1>4. ASSUME volume[m] <= v PROVE Cardinality(lower) <= k
  <2>1. lower \in SUBSET below
    <3>1. \A j \in M : volume[j] < volume[m] => volume[j] < v
      BY <1>0, <1>1, <1>4
    <3> QED
      BY <3>1
  <2> HIDE DEF lower, below
  <2>2. Cardinality(lower) <= Cardinality(below)
    BY <1>3, <2>1, SubsetCounts
  <2> QED
    BY <1>1, <1>3, <2>2
<1>5. ASSUME ~ (volume[m] <= v) PROVE ~ (Cardinality(lower) <= k)
  <2>1. upTo \in SUBSET lower
    <3>1. \A j \in M : volume[j] <= v => volume[j] < volume[m]
      BY <1>0, <1>1, <1>5
    <3> QED
      BY <3>1
  <2> HIDE DEF lower, upTo
  <2>2. Cardinality(upTo) <= Cardinality(lower)
    BY <1>3, <2>1, SubsetCounts
  <2> QED
    BY <1>1, <1>3, <2>2
<1> QED
  BY <1>4, <1>5 DEF v

\* The cuts are indices of the sorted volumes.
LEMMA CutsWithin ==
    ASSUME NEW n \in Nat \ {0}
    PROVE  /\ FirstCut(n) \in 0..n - 1 /\ SecondCut(n) \in 0..n - 1
           /\ FirstCut(n) <= SecondCut(n)
  BY DEF FirstCut, SecondCut

LEMMA TercilesAlwaysByRank == TercilesByRank
<1> DEFINE volume == [m \in Merchants |-> Volume(Of(Owned(m), MetricsStatuses))]
           M == {m \in Merchants : volume[m] > 0}
           n == Cardinality(M)
           Below(m) == Cardinality({k \in M : volume[k] < volume[m]})
           t1 == SortedAt(M, volume, FirstCut(n))
           t2 == SortedAt(M, volume, SecondCut(n))
           bajo == {m \in M : AtMost(volume[m], t1)}
           medio == {m \in M \ bajo : AtMost(volume[m], t2)}
           alto == M \ (bajo \cup medio)
           classes == GetAdminMerchantsVolumeDistribution
<1>1. [m \in Merchants |->
          VolumeIn(Range(GetMyBusinessesPaymentMetrics(m, None, None, "count")))] = volume
  <2> SUFFICES ASSUME NEW m \in Merchants
               PROVE  VolumeIn(Range(GetMyBusinessesPaymentMetrics(m, None, None, "count")))
                        = Volume(Of(Owned(m), MetricsStatuses))
    OBVIOUS
  <2>1. "count" \in Sorts
    BY DEF Sorts
  <2>2. VolumeIn(Range(GetMyBusinessesPaymentMetrics(m, None, None, "count")))
          = Volume({p \in Of(Owned(m), MetricsStatuses) : Within(p, None, None)})
    BY <2>1, MyRanking
  <2> QED
    BY <2>2, NoWindow
<1>2. \A m \in Merchants : volume[m] \in Nat
  <2> TAKE m \in Merchants
  <2>1. Of(Owned(m), MetricsStatuses) \in SUBSET Payments
    BY DEF Of
  <2> QED
    BY <2>1, CountType
<1>3. /\ IsFiniteSet(Merchants) /\ M \in SUBSET Merchants /\ M \in SUBSET Nat
      /\ IsFiniteSet(M) /\ n \in Nat
  <2>1. IsFiniteSet(Merchants) /\ Merchants \in SUBSET Nat
    BY UsersAssumption, FS_Subset
  <2> QED
    BY <2>1, FS_Subset, FS_CardinalityType
<1>4. /\ classes.totalMerchants = Cardinality(Merchants)
      /\ classes.nuevos = Cardinality(Merchants \ M)
      /\ classes.bajoVolumen = Cardinality(bajo)
      /\ classes.medio = Cardinality(medio)
      /\ classes.altoValor = Cardinality(alto)
  BY DEF GetAdminMerchantsVolumeDistribution
<1> HIDE DEF volume, M, n, classes
<1>5. /\ bajo = {m \in M : Below(m) <= FirstCut(n)}
      /\ alto = {m \in M : Below(m) > SecondCut(n)}
  <2>1. CASE M = {}
    BY <2>1
  <2>2. CASE M # {}
    <3>1. n \in Nat \ {0}
      BY <1>3, <2>2, FS_EmptySet DEF n
    <3>2. /\ FirstCut(n) \in 0..Cardinality(M) - 1 /\ SecondCut(n) \in 0..Cardinality(M) - 1
          /\ FirstCut(n) <= SecondCut(n)
      BY <3>1, CutsWithin DEF n
    <3>3. \A m \in M : volume[m] \in Nat
      BY <1>2, <1>3
    <3>4. \A m \in M : /\ volume[m] <= t1 <=> Below(m) <= FirstCut(n)
                       /\ volume[m] <= t2 <=> Below(m) <= SecondCut(n)
      BY <1>3, <3>2, <3>3, CutByRank
    <3>5. \A m \in M : Below(m) \in Nat
      <4> TAKE m \in M
      <4>1. {k \in M : volume[k] < volume[m]} \in SUBSET M
        OBVIOUS
      <4> QED
        BY <1>3, <4>1, SubsetCounts
    <3>6. bajo = {m \in M : Below(m) <= FirstCut(n)}
      BY <3>4 DEF AtMost
    <3>7. \A m \in M : m \in alto <=> Below(m) > SecondCut(n)
      <4> TAKE m \in M
      <4>1. m \in alto <=> ~ (Below(m) <= FirstCut(n)) /\ ~ (Below(m) <= SecondCut(n))
        BY <3>4 DEF AtMost
      <4> QED
        BY <3>2, <3>5, <4>1
    <3> QED
      BY <3>6, <3>7
  <2> QED
    BY <2>1, <2>2
<1>6. Cardinality(Merchants \ M) + Cardinality(bajo) + Cardinality(medio) + Cardinality(alto)
        = Cardinality(Merchants)
  <2>1. bajo \in SUBSET M /\ medio \in SUBSET (M \ bajo) /\ M \ bajo \in SUBSET M
    OBVIOUS
  <2>2. alto = (M \ bajo) \ medio
    OBVIOUS
  <2> HIDE DEF bajo, medio, alto
  <2>3. /\ Cardinality(Merchants \ M) = Cardinality(Merchants) - Cardinality(M)
        /\ Cardinality(M) \in Nat /\ Cardinality(Merchants) \in Nat
    BY <1>3, SubsetCounts
  <2>4. /\ Cardinality(M \ bajo) = Cardinality(M) - Cardinality(bajo)
        /\ Cardinality(bajo) \in Nat /\ IsFiniteSet(M \ bajo)
    BY <1>3, <2>1, SubsetCounts
  <2>5. /\ Cardinality(alto) = Cardinality(M \ bajo) - Cardinality(medio)
        /\ Cardinality(medio) \in Nat
    BY <2>1, <2>2, <2>4, SubsetCounts
  <2> QED
    BY <2>3, <2>4, <2>5
<1> HIDE DEF bajo, medio, alto
<1>7. /\ classes.bajoVolumen = Cardinality({m \in M : Below(m) <= FirstCut(n)})
      /\ classes.altoValor = Cardinality({m \in M : Below(m) > SecondCut(n)})
      /\ classes.nuevos + classes.bajoVolumen + classes.medio + classes.altoValor
            = classes.totalMerchants
  BY <1>4, <1>5, <1>6
<1> QED
  BY <1>1, <1>7 DEF TercilesByRank, M, n, volume, classes

\* The volume classes are the merchants by their rank, ties together, and hold
\* every merchant once, for any number of merchants.
THEOREM TercilesAreByRank == MetricsSpec => []TercilesByRank
  BY TercilesAlwaysByRank, PTL

-----------------------------------------------------------------------------
(* Pages.                                                                  *)

LEMMA TwoInts ==
    ASSUME NEW a \in Int, NEW b \in Int
    PROVE  /\ Max({a, b}) = IF a >= b THEN a ELSE b
           /\ Min({a, b}) = IF a <= b THEN a ELSE b
<1>1. \E x \in {a, b} : \A y \in {a, b} : x >= y
  OBVIOUS
<1>2. Max({a, b}) \in {a, b} /\ \A y \in {a, b} : Max({a, b}) >= y
  BY <1>1 DEF Max
<1>3. \E x \in {a, b} : \A y \in {a, b} : x <= y
  OBVIOUS
<1>4. Min({a, b}) \in {a, b} /\ \A y \in {a, b} : Min({a, b}) <= y
  BY <1>3 DEF Min
<1> QED
  BY <1>2, <1>4

LEMMA ProductsGrow ==
    ASSUME NEW a \in Int, NEW b \in Int, NEW c \in Nat, a <= b
    PROVE  a * c <= b * c
  OBVIOUS

\* The number of pages is the quotient, rounded up.
LEMMA PagesSuffice ==
    ASSUME NEW total \in Nat, NEW limit \in Nat \ {0}
    PROVE  LET pages == TotalPages(total, limit)
           IN  /\ pages \in Nat \ {0}
               /\ total <= pages * limit
               /\ total > 0 => (pages - 1) * limit < total
<1> DEFINE x == total + limit - 1
           q == x \div limit
           r == x % limit
<1>1. x \in Nat
  OBVIOUS
<1> HIDE DEF x
<1>2. q \in Nat /\ r \in 0..limit - 1 /\ x = limit * q + r
  BY <1>1
<1> HIDE DEF q, r
<1>3. (q - 1) * limit = limit * q - limit /\ q * limit = limit * q
  BY <1>2
<1>4. CASE total = 0
  BY <1>4 DEF TotalPages
<1>5. CASE total # 0
  <2>1. TotalPages(total, limit) = q
    BY <1>5 DEF TotalPages, q, x
  <2>2. limit * q + r = total + limit - 1
    BY <1>2 DEF x
  <2>3. limit * q \in Nat
    BY <1>2
  <2>4. total <= limit * q /\ limit * q - limit < total
    BY <1>2, <2>2, <2>3
  <2>5. q # 0
    BY <1>5, <2>4
  <2> QED
    BY <1>2, <1>3, <2>1, <2>4, <2>5
<1> QED
  BY <1>4, <1>5

\* The ranking has a row for every merchant.
LEMMA MerchantsRanked ==
    ASSUME NEW from, NEW to
    PROVE  /\ Rankable(MerchantRows(from, to))
           /\ Cardinality(MerchantRows(from, to)) = Cardinality(Merchants)
           /\ {r.id : r \in MerchantRows(from, to)} = Merchants
           /\ Cardinality(Merchants) \in Nat
<1> DEFINE part == [u \in Merchants |->
                       {p \in Of(Owned(u), MetricsStatuses) : Within(p, from, to)}]
<1>1. Merchants \in SUBSET Nat /\ IsFiniteSet(Merchants)
  BY UsersAssumption, FS_Subset
<1>2. part \in [Merchants -> SUBSET Payments]
  BY DEF Of
<1>3. MerchantRows(from, to) = RowsOf(Merchants, part)
  BY DEF MerchantRows, RowsOf
<1> HIDE DEF part
<1> QED
  BY <1>1, <1>2, <1>3, RowsRankable, FS_CardinalityType

\* A page is a part of the ranking.
LEMMA PageOfRanking ==
    ASSUME NEW n \in Nat \ {0}, NEW limit \in PageLimits, NEW from, NEW to, NEW sort \in Sorts
    PROVE  LET page == GetAdminMerchantsPaymentMetrics(
                   [page |-> n, limit |-> limit, from |-> from, to |-> to, sort |-> sort])
               ranking == Ordered(MerchantRows(from, to), sort)
               total == Cardinality(Merchants)
               start == (n - 1) * limit
               end == IF start + limit <= total THEN start + limit ELSE total
           IN  /\ page.data = SubSeq(ranking, start + 1, end)
               /\ page.totalPages = TotalPages(total, limit)
<1> DEFINE query == [page |-> n, limit |-> limit, from |-> from, to |-> to, sort |-> sort]
           ranking == Ordered(MerchantRows(from, to), sort)
           total == Cardinality(Merchants)
           start == (n - 1) * limit
<1>1. limit \in Nat /\ limit >= 1 /\ limit <= MaxLimit /\ MaxLimit \in Int
  BY PageLimitsAssumption DEF MaxLimit
<1>2. start \in Nat
  BY <1>1
<1>3. Max({1, n}) = n /\ Max({1, limit}) = limit /\ Min({MaxLimit, limit}) = limit
  <2>1. Max({1, n}) = IF 1 >= n THEN 1 ELSE n
    BY TwoInts
  <2>2. Max({1, limit}) = IF 1 >= limit THEN 1 ELSE limit
    BY <1>1, TwoInts
  <2>3. Min({MaxLimit, limit}) = IF MaxLimit <= limit THEN MaxLimit ELSE limit
    BY <1>1, TwoInts
  <2> QED
    BY <1>1, <2>1, <2>2, <2>3
<1>4. GetPaginationParams(query) = [page |-> n, limit |-> limit, skip |-> start]
  BY <1>3 DEF GetPaginationParams
<1>5. Len(ranking) = total /\ total \in Nat
  <2>1. Rankable(MerchantRows(from, to))
        /\ Cardinality(MerchantRows(from, to)) = total /\ total \in Nat
    BY MerchantsRanked
  <2>2. Len(ranking) = Cardinality(MerchantRows(from, to))
    BY <2>1 DEF Ordered
  <2> QED
    BY <2>1, <2>2
<1> HIDE DEF ranking, total, start
<1>6. Min({start + limit, Len(ranking)})
        = IF start + limit <= total THEN start + limit ELSE total
  <2>1. start + limit \in Int /\ total \in Int
    BY <1>1, <1>2, <1>5
  <2> DEFINE last == start + limit
  <2> HIDE DEF last
  <2>2. last \in Int /\ total \in Int
    BY <2>1 DEF last
  <2>3. Min({last, total}) = IF last <= total THEN last ELSE total
    BY <2>2, TwoInts
  <2> QED
    BY <1>5, <2>3 DEF last
<1>7. /\ GetAdminMerchantsPaymentMetrics(query).data
           = SubSeq(ranking, start + 1, Min({start + limit, Len(ranking)}))
      /\ GetAdminMerchantsPaymentMetrics(query).totalPages = TotalPages(total, limit)
  <2>1. query.from = from /\ query.to = to /\ query.sort = sort
    OBVIOUS
  <2> HIDE DEF query
  <2>2. /\ GetPaginationParams(query).skip = start
        /\ GetPaginationParams(query).limit = limit
    BY <1>4
  <2> QED
    BY <2>1, <2>2 DEF GetAdminMerchantsPaymentMetrics, ranking, total
<1> QED
  BY <1>6, <1>7 DEF ranking, total, start

\* Where a row of the ranking is found: on one of the pages.
PageOf(i, limit) == ((i - 1) \div limit) + 1
PlaceOf(i, limit) == ((i - 1) % limit) + 1

LEMMA PlaceOnPages ==
    ASSUME NEW total \in Nat, NEW limit \in Nat \ {0}, NEW i \in 1..total
    PROVE  /\ PageOf(i, limit) \in 1..TotalPages(total, limit)
           /\ PlaceOf(i, limit) \in 1..limit
           /\ (PageOf(i, limit) - 1) * limit + PlaceOf(i, limit) = i
<1> DEFINE q == (i - 1) \div limit
           r == (i - 1) % limit
           pages == TotalPages(total, limit)
<1>1. i - 1 \in Nat /\ i - 1 < total
  OBVIOUS
<1>2. q \in Nat /\ r \in 0..limit - 1 /\ i - 1 = limit * q + r
  BY <1>1
<1>3. pages \in Nat \ {0} /\ total <= pages * limit
  BY PagesSuffice
<1> HIDE DEF q, r, pages
<1>4. q * limit = limit * q /\ limit * q \in Nat
  BY <1>2
<1>5. q < pages
  <2> SUFFICES ASSUME pages <= q PROVE FALSE
    BY <1>2, <1>3
  <2>1. pages * limit <= q * limit
    BY <1>2, <1>3, ProductsGrow
  <2>2. pages * limit \in Nat
    BY <1>3
  <2> QED
    BY <1>1, <1>2, <1>3, <1>4, <2>1, <2>2
<1>6. q + 1 \in 1..pages /\ r + 1 \in 1..limit
  BY <1>2, <1>3, <1>5
<1>7. ((q + 1) - 1) * limit + (r + 1) = i
  <2>1. (q + 1) - 1 = q
    BY <1>2
  <2> QED
    BY <1>2, <1>4, <2>1
<1> QED
  BY <1>6, <1>7 DEF q, r, pages, PageOf, PlaceOf

\* The rows of the ranking before a page, and those up to its end.
StartOf(n, limit) == (n - 1) * limit
EndOf(n, limit, total) ==
    IF StartOf(n, limit) + limit <= total THEN StartOf(n, limit) + limit ELSE total

LEMMA PageBounds ==
    ASSUME NEW total \in Nat, NEW limit \in Nat \ {0}, NEW n \in 1..TotalPages(total, limit)
    PROVE  /\ StartOf(n, limit) \in Nat /\ EndOf(n, limit, total) \in Nat
           /\ StartOf(n, limit) <= EndOf(n, limit, total)
           /\ EndOf(n, limit, total) <= total
           /\ EndOf(n, limit, total) <= StartOf(n, limit) + limit
           /\ StartOf(n + 1, limit) = StartOf(n, limit) + limit
<1> DEFINE pages == TotalPages(total, limit)
           start == StartOf(n, limit)
<1>1. pages \in Nat \ {0} /\ (total > 0 => (pages - 1) * limit < total)
  BY PagesSuffice
<1> HIDE DEF pages
<1>2. n \in Nat \ {0} /\ n - 1 \in Nat /\ n - 1 <= pages - 1
  BY <1>1 DEF pages
<1>3. start \in Nat /\ start <= (pages - 1) * limit /\ (pages - 1) * limit \in Nat
  BY <1>1, <1>2, ProductsGrow DEF StartOf
<1>4. StartOf(n + 1, limit) = start + limit
  BY <1>2 DEF StartOf
<1>5. start <= total
  <2>1. CASE total > 0
    BY <1>1, <1>3, <2>1
  <2>2. CASE total = 0
    <3>1. pages = 1
      BY <2>2 DEF pages, TotalPages
    <3>2. n - 1 = 0
      BY <1>2, <3>1
    <3> QED
      BY <2>2, <3>2 DEF StartOf
  <2> QED
    BY <2>1, <2>2
<1> HIDE DEF start
<1>6. /\ EndOf(n, limit, total) \in Nat /\ start <= EndOf(n, limit, total)
      /\ EndOf(n, limit, total) <= total /\ EndOf(n, limit, total) <= start + limit
  BY <1>3, <1>5 DEF EndOf, start
<1> QED
  BY <1>3, <1>4, <1>6 DEF start

\* The lengths of the pages add up to the number of rows.
LEMMA PageLengths ==
    ASSUME NEW total \in Nat, NEW limit \in Nat \ {0}
    PROVE  Total([n \in 1..TotalPages(total, limit) |->
                    EndOf(n, limit, total) - StartOf(n, limit)]) = total
<1> DEFINE pages == TotalPages(total, limit)
           part == [n \in 1..pages |-> (StartOf(n, limit) + 1)..EndOf(n, limit, total)]
<1>1. pages \in Nat /\ IsFiniteSet(1..pages)
  BY PagesSuffice, FS_Interval
<1>2. \A n \in 1..pages : IsFiniteSet(part[n])
        /\ Cardinality(part[n]) = EndOf(n, limit, total) - StartOf(n, limit)
  <2> TAKE n \in 1..pages
  <2> DEFINE a == StartOf(n, limit)
             b == EndOf(n, limit, total)
  <2>1. a \in Nat /\ b \in Nat /\ a <= b
    BY PageBounds
  <2>2. part[n] = (a + 1)..b
    OBVIOUS
  <2> HIDE DEF a, b, part
  <2>3. /\ IsFiniteSet((a + 1)..b)
        /\ Cardinality((a + 1)..b) = IF a + 1 > b THEN 0 ELSE b - (a + 1) + 1
    BY <2>1, FS_Interval
  <2>4. Cardinality((a + 1)..b) = b - a
    BY <2>1, <2>3
  <2> QED
    BY <2>2, <2>3, <2>4 DEF a, b
<1>3. \A n, m \in 1..pages : n < m => EndOf(n, limit, total) <= StartOf(m, limit)
  <2> SUFFICES ASSUME NEW n \in 1..pages, NEW m \in 1..pages, n < m
               PROVE  EndOf(n, limit, total) <= StartOf(m, limit)
    OBVIOUS
  <2>1. n + 1 \in Nat /\ m \in Nat /\ (n + 1) - 1 <= m - 1 /\ (n + 1) - 1 \in Int /\ m - 1 \in Int
    BY <1>1
  <2>2. StartOf(n + 1, limit) <= StartOf(m, limit)
    BY <2>1, ProductsGrow DEF StartOf
  <2>3. /\ EndOf(n, limit, total) <= StartOf(n + 1, limit)
        /\ EndOf(n, limit, total) \in Nat /\ StartOf(n + 1, limit) \in Nat
        /\ StartOf(m, limit) \in Nat
    BY PageBounds
  <2> QED
    BY <2>2, <2>3
<1>4. \A n, m \in 1..pages : n # m => part[n] \cap part[m] = {}
  <2>1. \A n \in 1..pages : StartOf(n, limit) \in Nat /\ EndOf(n, limit, total) \in Nat
    BY PageBounds
  <2>2. \A n, m \in 1..pages : n < m => part[n] \cap part[m] = {}
    BY <1>3, <2>1
  <2>3. \A n, m \in 1..pages : n # m => n < m \/ m < n
    BY <1>1
  <2> QED
    BY <2>2, <2>3
<1>5. Whole(part) = 1..total
  <2>1. ASSUME NEW n \in 1..pages PROVE part[n] \subseteq 1..total
    BY PageBounds
  <2>2. ASSUME NEW i \in 1..total PROVE \E n \in 1..pages : i \in part[n]
    <3> DEFINE n == PageOf(i, limit)
               k == PlaceOf(i, limit)
    <3>0. n \in 1..pages /\ k \in 1..limit /\ (n - 1) * limit + k = i
      BY PlaceOnPages
    <3> HIDE DEF n, k
    <3>1. n \in 1..pages /\ k \in 1..limit /\ StartOf(n, limit) + k = i
      BY <3>0 DEF StartOf
    <3>2. StartOf(n, limit) \in Nat /\ EndOf(n, limit, total) \in Nat
      BY <3>1, PageBounds
    <3>3. i \in (StartOf(n, limit) + 1)..EndOf(n, limit, total)
      BY <3>1, <3>2 DEF EndOf
    <3> QED
      BY <3>1, <3>3
  <2> QED
    BY <2>1, <2>2 DEF Whole
<1>6. Cardinality(1..total) = total
  BY FS_Interval
<1>7. DOMAIN part = 1..pages
      /\ Sizes(part) = [n \in 1..pages |-> EndOf(n, limit, total) - StartOf(n, limit)]
  BY <1>2 DEF Sizes
<1> HIDE DEF part, pages
<1>8. Total(Sizes(part)) = Cardinality(Whole(part))
  BY <1>1, <1>2, <1>4, <1>7, PartsCounted
<1> QED
  BY <1>5, <1>6, <1>7, <1>8 DEF pages

LEMMA PagesAlwaysComplete == PagesComplete
<1> SUFFICES ASSUME NEW limit \in PageLimits, NEW sort \in Sorts
             PROVE  LET Page(n) == GetAdminMerchantsPaymentMetrics(
                            [page |-> n, limit |-> limit, from |-> now, to |-> None, sort |-> sort])
                        pages == Page(1).totalPages
                        data == [n \in 1..pages |-> Page(n).data]
                        At(i) == data[((i - 1) \div limit) + 1][((i - 1) % limit) + 1]
                    IN  /\ Total([n \in 1..pages |-> Len(data[n])]) = Cardinality(Merchants)
                        /\ {At(i).id : i \in 1..Cardinality(Merchants)} = Merchants
                        /\ \A i \in 2..Cardinality(Merchants) :
                              Key(At(i), sort) <= Key(At(i - 1), sort)
                        /\ Page(pages + 1).data = <<>>
  BY DEF PagesComplete, Sorts
<1> DEFINE total == Cardinality(Merchants)
           rows == MerchantRows(now, None)
           ranking == Ordered(rows, sort)
           Page(n) == GetAdminMerchantsPaymentMetrics(
                   [page |-> n, limit |-> limit, from |-> now, to |-> None, sort |-> sort])
           pages == TotalPages(total, limit)
           data == [n \in 1..pages |-> Page(n).data]
           At(i) == data[((i - 1) \div limit) + 1][((i - 1) % limit) + 1]
<1>1. limit \in Nat \ {0} /\ total \in Nat /\ pages \in Nat \ {0}
  BY PageLimitsAssumption, MerchantsRanked, PagesSuffice
<1>2. /\ Rankable(rows) /\ Cardinality(rows) = total
      /\ {r.id : r \in rows} = Merchants
  BY MerchantsRanked
<1>3. /\ ranking \in [1..total -> rows] /\ Range(ranking) = rows
      /\ \A i, j \in 1..total : i < j => Key(ranking[i], sort) >= Key(ranking[j], sort)
  BY <1>2, RankingComplete
<1>4. \A n \in Nat \ {0} :
        /\ Page(n).data = SubSeq(ranking, StartOf(n, limit) + 1, EndOf(n, limit, total))
        /\ Page(n).totalPages = pages
  BY PageOfRanking DEF StartOf, EndOf
<1> HIDE DEF total, rows, ranking, Page, pages
<1>5. Page(1).totalPages = pages
  BY <1>4
<1>6. ASSUME NEW n \in 1..pages
      PROVE  /\ Len(data[n]) = EndOf(n, limit, total) - StartOf(n, limit)
             /\ \A k \in 1..EndOf(n, limit, total) - StartOf(n, limit) :
                   data[n][k] = ranking[StartOf(n, limit) + k]
  <2> DEFINE a == StartOf(n, limit)
             b == EndOf(n, limit, total)
  <2>1. a \in Nat /\ b \in Nat /\ a <= b /\ b <= total
    BY <1>1, PageBounds DEF pages
  <2>2. data[n] = SubSeq(ranking, a + 1, b)
    BY <1>1, <1>4
  <2> HIDE DEF a, b, data
  <2>3. \A i \in (a + 1)..b : ranking[i] \in rows
    BY <1>1, <1>3, <2>1
  <2>4. /\ Len(SubSeq(ranking, a + 1, b)) = IF a + 1 <= b THEN b - (a + 1) + 1 ELSE 0
        /\ \A k \in 1..b - (a + 1) + 1 : SubSeq(ranking, a + 1, b)[k] = ranking[(a + 1) + k - 1]
    BY <2>1, <2>3, SubSeqProperties
  <2>5. Len(data[n]) = b - a
    BY <2>1, <2>2, <2>4
  <2>6. \A k \in 1..b - a : data[n][k] = ranking[a + k]
    BY <2>1, <2>2, <2>4
  <2> QED
    BY <2>5, <2>6 DEF a, b
<1>7. Total([n \in 1..pages |-> Len(data[n])]) = total
  <2>1. [n \in 1..pages |-> Len(data[n])]
          = [n \in 1..pages |-> EndOf(n, limit, total) - StartOf(n, limit)]
    BY <1>6
  <2> QED
    BY <1>1, <2>1, PageLengths DEF pages
<1>8. ASSUME NEW i \in 1..total PROVE At(i) = ranking[i]
  <2> DEFINE n == PageOf(i, limit)
             k == PlaceOf(i, limit)
  <2>0. n \in 1..pages /\ k \in 1..limit /\ (n - 1) * limit + k = i
    BY <1>1, PlaceOnPages DEF pages
  <2>1. At(i) = data[n][k]
    BY DEF PageOf, PlaceOf
  <2> HIDE DEF n, k, data
  <2>2. StartOf(n, limit) + k = i
    BY <2>0 DEF StartOf
  <2>3. StartOf(n, limit) \in Nat /\ EndOf(n, limit, total) \in Nat
    BY <1>1, <2>0, PageBounds DEF pages
  <2>4. k \in 1..EndOf(n, limit, total) - StartOf(n, limit)
    BY <1>1, <2>0, <2>2, <2>3 DEF EndOf
  <2> QED
    BY <1>6, <2>0, <2>1, <2>2, <2>4
<1> HIDE DEF data, At
<1>9. {At(i).id : i \in 1..total} = Merchants
  <2>1. \A i \in 1..total : At(i) \in rows
    BY <1>3, <1>8
  <2>2. ASSUME NEW m \in Merchants PROVE \E i \in 1..total : At(i).id = m
    <3>1. PICK r \in rows : r.id = m
      BY <1>2
    <3>2. PICK i \in 1..total : ranking[i] = r
      BY <1>3 DEF Range
    <3> QED
      BY <1>8, <3>1, <3>2
  <2> QED
    BY <1>2, <2>1, <2>2
<1>10. \A i \in 2..total : Key(At(i), sort) <= Key(At(i - 1), sort)
  <2> TAKE i \in 2..total
  <2>1. i \in 1..total /\ i - 1 \in 1..total /\ i - 1 < i
    BY <1>1
  <2>2. Key(ranking[i - 1], sort) >= Key(ranking[i], sort)
    BY <1>3, <2>1
  <2>3. Key(ranking[i], sort) \in Nat /\ Key(ranking[i - 1], sort) \in Nat
    BY <1>2, <1>3, <2>1, BeforeOrders
  <2> QED
    BY <1>8, <2>1, <2>2, <2>3
<1>11. Page(pages + 1).data = <<>>
  <2>1. StartOf(pages + 1, limit) \in Nat /\ total <= StartOf(pages + 1, limit)
    <3>1. total <= pages * limit /\ (pages + 1) - 1 = pages /\ pages * limit \in Nat
      BY <1>1, PagesSuffice DEF pages
    <3> QED
      BY <3>1 DEF StartOf
  <2>2. EndOf(pages + 1, limit, total) = total
    BY <1>1, <2>1 DEF EndOf
  <2>3. SubSeq(ranking, StartOf(pages + 1, limit) + 1, total) = <<>>
    BY <1>1, <2>1, SubSeqEmpty
  <2>4. pages + 1 \in Nat \ {0}
    BY <1>1
  <2>5. Page(pages + 1).data
          = SubSeq(ranking, StartOf(pages + 1, limit) + 1, EndOf(pages + 1, limit, total))
    BY <1>4, <2>4
  <2> QED
    BY <2>2, <2>3, <2>5
<1> QED
  BY <1>5, <1>7, <1>9, <1>10, <1>11 DEF total, pages, Page, data, At

\* The pages of the ranking of merchants hold every merchant once, in one
\* order, for any number of merchants and any size of page.
THEOREM PagesAreComplete == MetricsSpec => []PagesComplete
  BY PagesAlwaysComplete, PTL

-----------------------------------------------------------------------------
(* The time series.                                                        *)

\* The half days of some days.
LEMMA HalfDays ==
    ASSUME NEW t \in Nat, NEW start \in Int, NEW length \in {1, 7}
    PROVE  DayOf(t) \in start..start + length - 1
             <=> 2 * start <= t /\ t <= 2 * (start + length) - 1
  BY DEF DayOf

\* The database cuts days where the code does, when its sessions are in UTC.
LEMMA KeyIsDay ==
    ASSUME Zone = 0, NEW t \in Nat
    PROVE  KeyOf(t) = DayOf(t) /\ DayOf(t) \in Nat
<1>1. DayOf(t) \in Nat /\ t + Zone = t
  BY DEF DayOf
<1>2. KeyOf(t) = DayOf(2 * DayOf(t) - Zone)
  BY <1>1 DEF KeyOf
<1> DEFINE d == DayOf(t)
<1> HIDE DEF d
<1>3. d \in Nat => DayOf(2 * d - Zone) = d
  BY DEF DayOf
<1> QED
  BY <1>1, <1>2, <1>3 DEF d

\* Weeks begin on Mondays and hold their days.
LEMMA MondayOfWeek ==
    ASSUME NEW day \in Nat
    PROVE  /\ MondayUtc(day) \in Int
           /\ day \in MondayUtc(day)..MondayUtc(day) + 6
           /\ \A k \in Int : GetUTCDay(MondayUtc(day) - 7 * k) = 1
  BY DEF MondayUtc, GetUTCDay

\* The buckets follow one another without gap, the last one holds today.
LEMMA BucketsInRow ==
    ASSUME MetricsIInv, NEW groupBy \in GroupBys, NEW buckets \in Nat \ {0}
    PROVE  LET starts == BucketStarts(groupBy, buckets)
               length == LengthOf(groupBy)
           IN  /\ \A i \in 1..buckets : starts[i] \in Int /\ starts[1] <= starts[i]
               /\ \A i \in 2..buckets : starts[i] = starts[i - 1] + length
               /\ groupBy = "week" => \A i \in 1..buckets : GetUTCDay(starts[i]) = 1
               /\ DayOf(now) \in starts[buckets]..starts[buckets] + length - 1
<1> DEFINE today == DayOf(now)
<1>1. today \in Nat
  BY MomentsAssumption DEF MetricsIInv, MetricsTypeOK, DayOf
<1> HIDE DEF today
<1>2. CASE groupBy = "day"
  <2> DEFINE starts == [i \in 1..buckets |-> today - (buckets - i)]
  <2>1. BucketStarts(groupBy, buckets) = starts /\ LengthOf(groupBy) = 1
    BY <1>2 DEF BucketStarts, LengthOf, today
  <2>2. /\ \A i \in 1..buckets : starts[i] \in Int /\ starts[1] <= starts[i]
        /\ \A i \in 2..buckets : starts[i] = starts[i - 1] + 1
        /\ starts[buckets] = today
    BY <1>1
  <2> HIDE DEF starts
  <2> QED
    BY <1>1, <1>2, <2>1, <2>2 DEF today
<1>3. CASE groupBy = "week"
  <2> DEFINE monday == MondayUtc(today)
             starts == [i \in 1..buckets |-> monday - 7 * (buckets - i)]
  <2>1. BucketStarts(groupBy, buckets) = starts /\ LengthOf(groupBy) = 7
    BY <1>3 DEF BucketStarts, LengthOf, today
  <2>2. monday \in Int /\ today \in monday..monday + 6
        /\ \A k \in Int : GetUTCDay(monday - 7 * k) = 1
    BY <1>1, MondayOfWeek
  <2> HIDE DEF monday
  <2>3. /\ \A i \in 1..buckets : starts[i] \in Int /\ starts[1] <= starts[i]
        /\ \A i \in 2..buckets : starts[i] = starts[i - 1] + 7
        /\ starts[buckets] = monday
    BY <2>2
  <2>4. \A i \in 1..buckets : GetUTCDay(starts[i]) = 1
    BY <2>2
  <2> HIDE DEF starts
  <2> QED
    BY <1>1, <1>3, <2>1, <2>2, <2>3, <2>4 DEF today
<1> QED
  BY <1>2, <1>3 DEF GroupBys

\* Whose businesses a series is about.
BusinessesOf(user) == IF user = None THEN Businesses ELSE Owned(user)

\* The payments whose date is on the days of the bucket that begins at start.
InBucket(user, groupBy, start) ==
    {p \in Of(BusinessesOf(user), MetricsStatuses) :
        Within(p, 2 * start, 2 * (start + LengthOf(groupBy)) - 1)}

\* What a series counts: all the payments whose date is on the days of the
\* bucket.
LEMMA SeriesCounts ==
    ASSUME MetricsIInv, Zone = 0, NEW user, NEW groupBy \in GroupBys,
           NEW buckets \in Nat \ {0}, NEW i \in 1..buckets
    PROVE  LET start == BucketStarts(groupBy, buckets)[i]
               P == InBucket(user, groupBy, start)
           IN  BuildPaymentsTimeseries(user, groupBy, buckets)[i]
                 = [bucketStart |-> start, paymentCount |-> Count(P), volume |-> Volume(P)]
<1> DEFINE starts == BucketStarts(groupBy, buckets)
           start == starts[i]
           length == LengthOf(groupBy)
           B == BusinessesOf(user)
           found == {p \in Of(B, MetricsStatuses) :
                       Within(p, 2 * starts[1], 2 * DayOf(now) + 1)}
           Q == {p \in found : KeyOf(row[p].at) \in BucketDays(groupBy, start)}
           P == {p \in Of(B, MetricsStatuses) : Within(p, 2 * start, 2 * (start + length) - 1)}
<1>1. BuildPaymentsTimeseries(user, groupBy, buckets)[i]
        = [bucketStart |-> start, paymentCount |-> Count(Q), volume |-> Volume(Q)]
  BY DEF BuildPaymentsTimeseries, BusinessesOf
<1>2. start \in Int /\ starts[1] \in Int /\ starts[1] <= start /\ length \in {1, 7}
  <2>1. 1 \in 1..buckets
    OBVIOUS
  <2> QED
    BY <2>1, BucketsInRow DEF LengthOf
<1>3. BucketDays(groupBy, start) = start..start + length - 1
  <2> HIDE DEF start
  <2>1. CASE groupBy = "day"
    <3>1. length = 1 /\ BucketDays(groupBy, start) = {start}
      BY <2>1 DEF BucketDays, LengthOf
    <3>2. {start} = start..start + 1 - 1
      BY <1>2
    <3> QED
      BY <3>1, <3>2
  <2>2. CASE groupBy = "week"
    <3>1. length = 7 /\ BucketDays(groupBy, start) = start..start + 6
      BY <2>2 DEF BucketDays, LengthOf
    <3>2. start + 6 = start + 7 - 1
      BY <1>2
    <3> QED
      BY <3>1, <3>2
  <2> QED
    BY <2>1, <2>2 DEF GroupBys
<1>4. now \in Nat /\ DayOf(now) \in Nat /\ now <= 2 * DayOf(now) + 1
  BY MomentsAssumption DEF MetricsIInv, MetricsTypeOK, DayOf
<1> HIDE DEF start, starts, length, B
<1>5. ASSUME NEW p \in Of(B, MetricsStatuses)
      PROVE  p \in Q <=> p \in P
  <2> DEFINE at == row[p].at
             today == DayOf(now)
  <2>1. at \in Nat /\ at <= now
    BY <1>5, RowShape DEF Of
  <2>2. KeyOf(at) \in BucketDays(groupBy, start)
          <=> 2 * start <= at /\ at <= 2 * (start + length) - 1
    BY <1>2, <1>3, <2>1, KeyIsDay, HalfDays
  <2> HIDE DEF at, today
  <2>3. 2 * start \in Int /\ 2 * (start + length) - 1 \in Int /\ 2 * starts[1] \in Int
        /\ 2 * today + 1 \in Int
    BY <1>2, <1>4 DEF today
  <2>4. p \in P <=> 2 * start <= at /\ at <= 2 * (start + length) - 1
    BY <1>5, <2>1, <2>3, NullAssumption DEF Within, at
  <2>5. p \in found <=> 2 * starts[1] <= at /\ at <= 2 * today + 1
    BY <1>5, <2>1, <2>3, NullAssumption DEF Within, at, today
  <2>6. 2 * start <= at => 2 * starts[1] <= at
    BY <1>2, <2>1
  <2>7. at <= 2 * today + 1
    BY <1>4, <2>1 DEF today
  <2> QED
    BY <2>2, <2>4, <2>5, <2>6, <2>7 DEF at
<1>6. Q = P
  BY <1>5
<1> QED
  BY <1>1, <1>6 DEF start, starts, length, B, InBucket

\* The owners' rankings, taken together, rank all those businesses.
LEMMA RankedByOwners ==
    ASSUME NEW user \in Owners \cup {None}, NEW from, NEW to
    PROVE  LET B == BusinessesOf(user)
               ranked == UNION {Range(GetMyBusinessesPaymentMetrics(u, from, to, "count")) :
                                  u \in IF user = None THEN Owners ELSE {user}}
               P == {p \in Of(B, MetricsStatuses) : Within(p, from, to)}
           IN  PaymentsIn(ranked) = Count(P) /\ VolumeIn(ranked) = Volume(P)
<1> DEFINE B == BusinessesOf(user)
           U == IF user = None THEN Owners ELSE {user}
           Mine(u) == RowsOf(Owned(u), Selected(Owned(u), MetricsStatuses, from, to))
           ranked == UNION {Range(GetMyBusinessesPaymentMetrics(u, from, to, "count")) :
                              u \in U}
           P == {p \in Of(B, MetricsStatuses) : Within(p, from, to)}
           RowFor(b) == RankingRow(b, {p \in Of({b}, MetricsStatuses) : Within(p, from, to)})
<1>1. B \in SUBSET Businesses /\ (\A u \in U : Owned(u) \subseteq B)
      /\ \A b \in B : UserOf[b] \in U /\ b \in Owned(UserOf[b])
  <2>1. CASE user = None
    <3>1. B = Businesses /\ U = Owners
      BY <2>1 DEF BusinessesOf
    <3> QED
      BY <3>1 DEF Owned, Owners
  <2>2. CASE user # None
    <3>1. B = Owned(user) /\ U = {user}
      BY <2>2 DEF BusinessesOf
    <3> QED
      BY <3>1 DEF Owned
  <2> QED
    BY <2>1, <2>2
<1>2. \A u \in U : Range(GetMyBusinessesPaymentMetrics(u, from, to, "count")) = Mine(u)
  BY MyRanking DEF Sorts
<1>3. \A u : Mine(u) = {RowFor(b) : b \in Owned(u)}
  BY DEF RowsOf, Selected
<1>4. RowsOf(B, Selected(B, MetricsStatuses, from, to)) = {RowFor(b) : b \in B}
  BY DEF RowsOf, Selected
<1>5. ranked = {RowFor(b) : b \in B}
  <2> HIDE DEF B, U, Mine, RowFor
  <2>1. ASSUME NEW r \in ranked
        PROVE  r \in {RowFor(b) : b \in B}
    <3>1. PICK u \in U : r \in Range(GetMyBusinessesPaymentMetrics(u, from, to, "count"))
      BY <2>1
    <3>2. PICK b \in Owned(u) : r = RowFor(b)
      BY <1>2, <1>3, <3>1
    <3> QED
      BY <1>1, <3>2
  <2>2. ASSUME NEW b \in B
        PROVE  RowFor(b) \in ranked
    <3>1. RowFor(b) \in Range(GetMyBusinessesPaymentMetrics(UserOf[b], from, to, "count"))
      BY <1>1, <1>2, <1>3, <2>2
    <3> QED
      BY <1>1, <2>2, <3>1
  <2> HIDE DEF ranked
  <2> QED
    BY <2>1, <2>2
<1> DEFINE rows == RowsOf(B, Selected(B, MetricsStatuses, from, to))
<1>6. PaymentsIn(rows) = Count(P) /\ VolumeIn(rows) = Volume(P)
  <2> HIDE DEF B
  <2> QED
    BY <1>1, SelectedAddUp
<1>7. ranked = rows
  BY <1>4, <1>5
<1> HIDE DEF B, ranked, rows, P
<1>8. PaymentsIn(ranked) = Count(P) /\ VolumeIn(ranked) = Volume(P)
  BY <1>6, <1>7
<1> QED
  BY <1>8 DEF B, ranked, P

\* Each bucket is what the rankings of its days say.
LEMMA SeriesAgrees ==
    ASSUME MetricsIInv, Zone = 0, NEW user \in Owners \cup {None},
           NEW groupBy \in GroupBys, NEW buckets \in Nat \ {0}, NEW i \in 1..buckets
    PROVE  LET bucket == BuildPaymentsTimeseries(user, groupBy, buckets)[i]
               first == BucketStarts(groupBy, buckets)[i]
               ranked == UNION {Range(GetMyBusinessesPaymentMetrics(
                              u, 2 * first, 2 * (first + LengthOf(groupBy)) - 1, "count")) :
                              u \in IF user = None THEN Owners ELSE {user}}
           IN  /\ bucket.bucketStart = first
               /\ bucket.paymentCount = PaymentsIn(ranked)
               /\ bucket.volume = VolumeIn(ranked)
<1> DEFINE first == BucketStarts(groupBy, buckets)[i]
           from == 2 * first
           to == 2 * (first + LengthOf(groupBy)) - 1
           P == InBucket(user, groupBy, first)
<1>1. BuildPaymentsTimeseries(user, groupBy, buckets)[i]
        = [bucketStart |-> first, paymentCount |-> Count(P), volume |-> Volume(P)]
  BY SeriesCounts
<1>3. P = {p \in Of(BusinessesOf(user), MetricsStatuses) : Within(p, from, to)}
  BY DEF InBucket
<1> HIDE DEF first, from, to, P
<1>2. LET ranked == UNION {Range(GetMyBusinessesPaymentMetrics(u, from, to, "count")) :
                             u \in IF user = None THEN Owners ELSE {user}}
      IN  PaymentsIn(ranked) = Count(P) /\ VolumeIn(ranked) = Volume(P)
  BY <1>3, RankedByOwners
<1> QED
  BY <1>1, <1>2 DEF first, from, to

LEMMA SeriesAlwaysComplete ==
    ASSUME MetricsIInv, Zone = 0
    PROVE  SeriesComplete
<1> SUFFICES ASSUME NEW user \in Owners \cup {None}, NEW groupBy \in GroupBys,
                    NEW buckets \in BucketCounts
             PROVE
        LET series == BuildPaymentsTimeseries(user, groupBy, buckets)
            length == LengthOf(groupBy)
            today == DayOf(now)
        IN /\ today \in series[buckets].bucketStart ..
                        series[buckets].bucketStart + length - 1
           /\ \A i \in 1..buckets :
                LET first == series[i].bucketStart
                    ranked == UNION {Range(GetMyBusinessesPaymentMetrics(
                                  u, 2 * first, 2 * (first + length) - 1, "count")) :
                                  u \in IF user = None THEN Owners ELSE {user}}
                IN /\ i > 1 => first = series[i - 1].bucketStart + length
                   /\ groupBy = "week" => GetUTCDay(first) = 1
                   /\ series[i].paymentCount = PaymentsIn(ranked)
                   /\ series[i].volume = VolumeIn(ranked)
  BY DEF SeriesComplete
<1> DEFINE series == BuildPaymentsTimeseries(user, groupBy, buckets)
           starts == BucketStarts(groupBy, buckets)
           length == LengthOf(groupBy)
           Ranked(first) == UNION {Range(GetMyBusinessesPaymentMetrics(
                                u, 2 * first, 2 * (first + length) - 1, "count")) :
                                u \in IF user = None THEN Owners ELSE {user}}
<1>1. buckets \in Nat \ {0} /\ buckets \in 1..buckets
  BY BucketCountsAssumption
<1>2. \A i \in 1..buckets :
        /\ series[i].bucketStart = starts[i]
        /\ series[i].paymentCount = PaymentsIn(Ranked(starts[i]))
        /\ series[i].volume = VolumeIn(Ranked(starts[i]))
  BY <1>1, SeriesAgrees
<1>3. /\ \A i \in 2..buckets : starts[i] = starts[i - 1] + length
      /\ groupBy = "week" => \A i \in 1..buckets : GetUTCDay(starts[i]) = 1
      /\ DayOf(now) \in starts[buckets]..starts[buckets] + length - 1
  BY <1>1, BucketsInRow
<1> HIDE DEF series, starts, length, Ranked
<1>5. DayOf(now) \in series[buckets].bucketStart .. series[buckets].bucketStart + length - 1
  BY <1>1, <1>2, <1>3
<1>6. ASSUME NEW i \in 1..buckets
      PROVE  /\ i > 1 => series[i].bucketStart = series[i - 1].bucketStart + length
             /\ groupBy = "week" => GetUTCDay(series[i].bucketStart) = 1
             /\ series[i].paymentCount = PaymentsIn(Ranked(series[i].bucketStart))
             /\ series[i].volume = VolumeIn(Ranked(series[i].bucketStart))
  <2>1. i > 1 => i \in 2..buckets /\ i - 1 \in 1..buckets
    BY <1>1
  <2> QED
    BY <1>2, <1>3, <1>6, <2>1
<1> QED
  BY <1>5, <1>6 DEF series, length, Ranked

\* When the database's sessions are in UTC, every bucket of every series, of any
\* length, is what the rankings of the same days count.
THEOREM SeriesAreComplete == Zone = 0 => (MetricsSpec => []SeriesComplete)
<1> SUFFICES ASSUME Zone = 0
             PROVE  MetricsSpec => []SeriesComplete
  OBVIOUS
<1>1. MetricsIInv => SeriesComplete
  BY SeriesAlwaysComplete
<1> QED
  BY <1>1, MetricsInvariant, PTL

-----------------------------------------------------------------------------
(* The buckets of the past.                                                *)

\* What a step may do to a payment, as far as the series can tell; dates are
\* those of the updates under way.
Moved(before, after, dates) ==
    \/ after = before
    \/ before.status \notin MetricsStatuses /\ after.status \notin MetricsStatuses
    \/ before.status \notin MetricsStatuses /\ after.at \in dates
    \/ /\ before.status \in MetricsStatuses /\ after.status \in MetricsStatuses
       /\ after.at = before.at /\ after.business = before.business

DatesUnderWay == {hand[h].paidAt : h \in {k \in Handlers : hand[k].paidAt # None}}

\* An update of a payment that was not found pending twice finds it in the
\* status in which it was found, or in a later one.
LEMMA UpdateMoves ==
    ASSUME MetricsIInv, NEW h \in Handlers, UpdateRow(h), NEW p \in Payments,
           p \notin twice \/ row'[p] = row[p]
    PROVE  Moved(row[p], row'[p], DatesUnderWay)
<1>1. PICK q \in Payments, new \in Row :
        /\ hand[h] \in Update /\ hand[h].payment = q /\ row[q] \in Row
        /\ row' = [row EXCEPT ![q] = new]
        /\ new.status = hand[h].status /\ new.business = row[q].business
        /\ hand[h].status = "escrow_locked" =>
             hand[h].paidAt # None /\ new.at = hand[h].paidAt
        /\ hand[h].status # "escrow_locked" => new.at = row[q].at
  BY UpdateWrites
<1>2. CASE row'[p] = row[p]
  BY <1>2 DEF Moved
<1>3. CASE row'[p] # row[p]
  <2>1. p = q /\ row'[p] = new /\ p \notin twice
    BY <1>1, <1>3 DEF MetricsIInv, MetricsTypeOK
  <2>2. FoundPending(h, p) \/ FoundCounted(h, p)
    BY <1>1, <2>1 DEF Update, MetricsStatuses, FoundPending, FoundCounted
  <2>3. CASE FoundPending(h, p)
    <3>1. row[p].status \notin MetricsStatuses
      BY <2>1, <2>3 DEF MetricsIInv, UpdatesFit, MetricsStatuses
    <3>2. CASE hand[h].status = "escrow_locked"
      <4>1. new.at \in DatesUnderWay
        BY <1>1, <3>2 DEF DatesUnderWay
      <4> QED
        BY <2>1, <3>1, <4>1 DEF Moved
    <3>3. CASE hand[h].status = "expired"
      <4>1. new.status \notin MetricsStatuses
        BY <1>1, <3>3 DEF MetricsStatuses
      <4> QED
        BY <2>1, <3>1, <4>1 DEF Moved
    <3> QED
      BY <2>3, <3>2, <3>3 DEF FoundPending
  <2>4. CASE FoundCounted(h, p)
    <3>1. row[p].status \in MetricsStatuses
      BY <2>1, <2>4 DEF MetricsIInv, UpdatesFit
    <3>2. new.status \in MetricsStatuses /\ new.at = row[p].at
      BY <1>1, <2>1, <2>4 DEF FoundCounted, MetricsStatuses
    <3> QED
      BY <1>1, <2>1, <3>1, <3>2 DEF Moved
  <2> QED
    BY <2>2, <2>3, <2>4
<1> QED
  BY <1>2, <1>3

LEMMA PaymentsMove ==
    ASSUME MetricsIInv, [MetricsNext]_metricsVars, NEW p \in Payments,
           p \notin twice \/ row'[p] = row[p]
    PROVE  Moved(row[p], row'[p], DatesUnderWay)
<1>1. ASSUME NEW q \in Payments, CreatePaymentQr(q)
      PROVE  Moved(row[p], row'[p], DatesUnderWay)
  <2>1. PICK b \in Askers[q] :
          row' = [row EXCEPT ![q] = [status |-> "pending", business |-> b, at |-> now]]
    BY <1>1 DEF CreatePaymentQr
  <2>2. row[q].status = "none"
    BY <1>1 DEF CreatePaymentQr, NoRow
  <2> QED
    BY <2>1, <2>2 DEF Moved, MetricsStatuses, MetricsIInv, MetricsTypeOK
<1>2. ASSUME NEW h \in Handlers, UpdateRow(h)
      PROVE  Moved(row[p], row'[p], DatesUnderWay)
  BY <1>2, UpdateMoves
<1>3. row' = row => Moved(row[p], row'[p], DatesUnderWay)
  BY DEF Moved
<1>4. ASSUME NEW h \in Handlers, NEW q \in Payments,
             \/ ScanEscrowCreated(h, q) \/ ScanExpired(h, q) \/ ShipPayment(h, q)
             \/ ScanEscrowReleased(h, q) \/ ScanAutoRelease(h, q)
      PROVE  row' = row
  BY <1>4 DEF ScanEscrowCreated, ScanExpired, ShipPayment, ScanEscrowReleased,
     ScanAutoRelease, Find, table
<1>5. ASSUME NEW h \in Handlers, EscrowFound(h) \/ LetGo(h)
      PROVE  row' = row
  BY <1>5 DEF EscrowFound, LetGo
<1>6. TimePasses \/ UNCHANGED metricsVars => row' = row
  BY DEF TimePasses, metricsVars
<1> QED
  BY <1>1, <1>2, <1>3, <1>4, <1>5, <1>6 DEF MetricsNext

\* Nothing enters or leaves a closed bucket.
LEMMA ClosedPaymentsStay ==
    ASSUME MetricsIInv, [MetricsNext]_metricsVars, \A p \in twice : row'[p] = row[p],
           NEW user, NEW groupBy \in GroupBys,
           NEW start \in Int, Closed(start, LengthOf(groupBy))
    PROVE  InBucket(user, groupBy, start)' = InBucket(user, groupBy, start)
<1> DEFINE B == BusinessesOf(user)
           from == 2 * start
           to == 2 * (start + LengthOf(groupBy)) - 1
<1>1. LengthOf(groupBy) \in {1, 7}
  BY DEF LengthOf
<1>2. from \in Int /\ to \in Int
  BY <1>1
<1>3. from # None /\ to # None
  BY <1>2, NullAssumption
<1>4. InBucket(user, groupBy, start)
        = {p \in Payments : /\ row[p].business \in B /\ row[p].status \in MetricsStatuses
                            /\ row[p].at >= from /\ row[p].at <= to}
  BY <1>3 DEF InBucket, Of, Within
<1>5. InBucket(user, groupBy, start)'
        = {p \in Payments : /\ row'[p].business \in B /\ row'[p].status \in MetricsStatuses
                            /\ row'[p].at >= from /\ row'[p].at <= to}
  BY <1>3 DEF InBucket, Of, Within, BusinessesOf, Owned, MetricsStatuses
<1>6. ASSUME NEW t \in DatesUnderWay
      PROVE  ~ (t >= from /\ t <= to)
  <2>1. PICK h \in Handlers : hand[h].paidAt # None /\ t = hand[h].paidAt
    BY <1>6 DEF DatesUnderWay
  <2>2. t \in Nat
    <3>1. hand[h] # NoUpdate
      BY <2>1 DEF NoUpdate
    <3>2. hand[h].paidAt \in Moments
      BY <2>1, <3>1, HandShape
    <3> QED
      BY <2>1, <3>2, MomentsAssumption
  <2>3. DayOf(t) \notin start..start + LengthOf(groupBy) - 1
    BY <2>1 DEF Closed
  <2>4. ~ (2 * start <= t /\ t <= 2 * (start + LengthOf(groupBy)) - 1)
    BY <1>1, <2>2, <2>3, HalfDays
  <2> QED
    BY <1>2, <2>2, <2>4
<1> HIDE DEF B, from, to
<1>7. ASSUME NEW p \in Payments
      PROVE  (/\ row'[p].business \in B /\ row'[p].status \in MetricsStatuses
              /\ row'[p].at >= from /\ row'[p].at <= to)
             <=> (/\ row[p].business \in B /\ row[p].status \in MetricsStatuses
                  /\ row[p].at >= from /\ row[p].at <= to)
  <2>1. Moved(row[p], row'[p], DatesUnderWay)
    BY <1>7, PaymentsMove
  <2>2. row'[p].at \in DatesUnderWay => ~ (row'[p].at >= from /\ row'[p].at <= to)
    BY <1>6
  <2> QED
    BY <2>1, <2>2 DEF Moved
<1> QED
  BY <1>4, <1>5, <1>7

\* SeriesCounts, of all the series that are asked for.
SeriesCounted ==
    \A user \in Owners \cup {None}, groupBy \in GroupBys, buckets \in BucketCounts :
        \A i \in 1..buckets :
            \E start \in Int :
                /\ start = BucketStarts(groupBy, buckets)[i]
                /\ BuildPaymentsTimeseries(user, groupBy, buckets)[i]
                     = [bucketStart |-> start,
                        paymentCount |-> Count(InBucket(user, groupBy, start)),
                        volume |-> Volume(InBucket(user, groupBy, start))]

LEMMA SeriesAlwaysCounted ==
    ASSUME MetricsIInv, Zone = 0
    PROVE  SeriesCounted
<1> SUFFICES ASSUME NEW user \in Owners \cup {None}, NEW groupBy \in GroupBys,
                    NEW buckets \in BucketCounts, NEW i \in 1..buckets
             PROVE  \E start \in Int :
                      /\ start = BucketStarts(groupBy, buckets)[i]
                      /\ BuildPaymentsTimeseries(user, groupBy, buckets)[i]
                           = [bucketStart |-> start,
                              paymentCount |-> Count(InBucket(user, groupBy, start)),
                              volume |-> Volume(InBucket(user, groupBy, start))]
  BY DEF SeriesCounted
<1> DEFINE start == BucketStarts(groupBy, buckets)[i]
<1>1. buckets \in Nat \ {0}
  BY BucketCountsAssumption
<1>2. start \in Int
  BY <1>1, BucketsInRow
<1>3. BuildPaymentsTimeseries(user, groupBy, buckets)[i]
        = [bucketStart |-> start,
           paymentCount |-> Count(InBucket(user, groupBy, start)),
           volume |-> Volume(InBucket(user, groupBy, start))]
  BY <1>1, SeriesCounts
<1>4. start = BucketStarts(groupBy, buckets)[i]
  OBVIOUS
<1> HIDE DEF start
<1> QED
  BY <1>2, <1>3, <1>4

PastFixed ==
    (\A p \in twice : row'[p] = row[p]) =>
        \A user \in Owners \cup {None}, groupBy \in GroupBys, buckets \in BucketCounts :
            LET starts == BucketStarts(groupBy, buckets)
                after == BucketStarts(groupBy, buckets)'
            IN \A i, j \in 1..buckets :
                starts[i] = after[j] /\ Closed(starts[i], LengthOf(groupBy)) =>
                    BuildPaymentsTimeseries(user, groupBy, buckets)[i]
                        = BuildPaymentsTimeseries(user, groupBy, buckets)'[j]

LEMMA PastStaysFixed ==
    ASSUME MetricsIInv, SeriesCounted, SeriesCounted', [MetricsNext]_metricsVars
    PROVE  PastFixed
<1> SUFFICES ASSUME \A p \in twice : row'[p] = row[p],
                    NEW user \in Owners \cup {None}, NEW groupBy \in GroupBys,
                    NEW buckets \in BucketCounts, NEW i \in 1..buckets, NEW j \in 1..buckets,
                    BucketStarts(groupBy, buckets)[i] = BucketStarts(groupBy, buckets)'[j],
                    Closed(BucketStarts(groupBy, buckets)[i], LengthOf(groupBy))
             PROVE  BuildPaymentsTimeseries(user, groupBy, buckets)[i]
                      = BuildPaymentsTimeseries(user, groupBy, buckets)'[j]
  BY DEF PastFixed
<1>1. PICK start \in Int :
        /\ start = BucketStarts(groupBy, buckets)[i]
        /\ BuildPaymentsTimeseries(user, groupBy, buckets)[i]
             = [bucketStart |-> start,
                paymentCount |-> Count(InBucket(user, groupBy, start)),
                volume |-> Volume(InBucket(user, groupBy, start))]
  BY DEF SeriesCounted
<1>2. PICK later \in Int :
        /\ later = BucketStarts(groupBy, buckets)'[j]
        /\ BuildPaymentsTimeseries(user, groupBy, buckets)'[j]
             = [bucketStart |-> later,
                paymentCount |-> Cardinality(InBucket(user, groupBy, later)'),
                volume |-> Total([p \in InBucket(user, groupBy, later)' |-> Amount[p]])]
  BY DEF SeriesCounted, Count, Volume
<1>3. later = start /\ Closed(start, LengthOf(groupBy))
  BY <1>1, <1>2
<1>4. InBucket(user, groupBy, start)' = InBucket(user, groupBy, start)
  BY <1>3, ClosedPaymentsStay
<1> QED
  BY <1>1, <1>2, <1>3, <1>4 DEF Count, Volume

\* PastBucketsFixed of buildPaymentsTimeseries: when the database's sessions are
\* in UTC, a closed bucket of any series changes only by an update of a payment
\* that two handlers found pending at one time.
THEOREM PastBucketsStayFixed == Zone = 0 => (MetricsSpec => PastBucketsFixed)
<1> SUFFICES ASSUME Zone = 0
             PROVE  MetricsSpec => PastBucketsFixed
  OBVIOUS
<1>1. MetricsIInv => SeriesCounted
  BY SeriesAlwaysCounted
<1>2. MetricsIInv /\ SeriesCounted /\ SeriesCounted' /\ [MetricsNext]_metricsVars => PastFixed
  BY PastStaysFixed
<1>3. [MetricsNext]_metricsVars /\ MetricsIInv /\ SeriesCounted /\ SeriesCounted'
        => [PastFixed]_table
  BY <1>2
<1>4. PastBucketsFixed <=> [][PastFixed]_table
  BY DEF PastBucketsFixed, PastFixed
<1> QED
  BY <1>1, <1>3, <1>4, MetricsInvariant, PTL DEF MetricsSpec

-----------------------------------------------------------------------------
(* The commission (Commission).                                            *)

\* A rate is at most the whole: the commission is at most the amount.
LEMMA CommissionWithin ==
    ASSUME NEW base \in Nat, NEW bps \in 0..MaxBps
    PROVE  ComputeCommission(base, bps) \in 0..base
<1> DEFINE product == base * bps
<1>1. product \in Nat /\ product <= base * 10000
  BY DEF MaxBps
<1> HIDE DEF product
<1>2. product \div 10000 \in 0..base
  BY <1>1
<1> QED
  BY <1>2 DEF ComputeCommission, product

\* null stands for nothing: what is stored is what is charged.
LEMMA StoredCharged ==
    ASSUME NEW fee \in Nat
    PROVE  Charged(Stored(fee)) = fee
  BY NoneAssumption DEF Stored, Charged

\* floor(amount * bps / 10000) of the metrics is the commission, for a rate of
\* 0 too.
LEMMA EstimatedCommission ==
    ASSUME NEW base \in Nat, NEW bps \in 0..MaxBps
    PROVE  (base * bps) \div 10000 = ComputeCommission(base, bps)
<1>1. bps = 0 => base * bps = 0
  OBVIOUS
<1>2. CASE bps = 0
  BY <1>1, <1>2 DEF ComputeCommission
<1>3. CASE bps # 0
  BY <1>3 DEF ComputeCommission
<1> QED
  BY <1>2, <1>3

\* The default rate is a rate.
LEMMA DefaultWithin == DefaultBps \in 0..MaxBps
  BY DEF DefaultBps, MaxBps

-----------------------------------------------------------------------------
LEMMA InitIInv == Init => IInv
<1> SUFFICES ASSUME Init PROVE IInv
  OBVIOUS
<1>1. TypeOK
  BY NoneAssumption DEF Init, TypeOK
<1>2. RatesHeld
  BY DEF Init, RatesHeld
<1>3. FeesWithinAmounts /\ FeesOfRates
  BY DEF Init, FeesWithinAmounts, FeesOfRates
<1>4. OneRateSoFar /\ OneInsert
  BY DEF Init, OneRateSoFar, OneInsert, AboutToInsert
<1> QED
  BY <1>1, <1>2, <1>3, <1>4 DEF IInv

\* A request that begins, in a free slot.
LEMMA ReadInv ==
    ASSUME IInv, NEW t \in Slots, NEW op \in {"get", "patch", "quote", "report"},
           NEW arg \in Nat, op = "patch" => arg \in Rates, Read(t, op, arg)
    PROVE  IInv'
<1> DEFINE pc == IF setting = None THEN "default" ELSE "have"
           bps == IF setting = None THEN DefaultBps ELSE setting
           new == [op |-> op, arg |-> arg, pc |-> pc, bps |-> bps]
<1>1. task' = [task EXCEPT ![t] = new] /\ task[t] = None
  BY DEF Read, Begin
<1>2. UNCHANGED <<setting, payment, locked, inForce, chosen, report>>
  BY DEF Read
<1>3. TypeOK /\ RatesHeld /\ OneInsert
  BY DEF IInv
<1>4. new \in Task /\ new # None
  <2>1. bps \in 0..MaxBps
    BY <1>3, DefaultWithin DEF TypeOK
  <2>2. new \in Task
    BY <2>1 DEF Task
  <2>3. new # None
    BY <2>2, NoneAssumption
  <2> QED
    BY <2>2, <2>3
<1>5. \A u \in Slots : task'[u] = IF u = t THEN new ELSE task[u]
  BY <1>1, <1>3 DEF TypeOK
<1>6. TypeOK'
  BY <1>1, <1>2, <1>3, <1>4 DEF TypeOK, Read, NoteRace
<1>7. RatesHeld'
  BY <1>2, <1>3, <1>5, NoneAssumption DEF RatesHeld
<1>8. (FeesWithinAmounts /\ FeesOfRates /\ OneRateSoFar)'
  BY <1>2 DEF IInv, FeesWithinAmounts, FeesOfRates, OneRateSoFar
<1>9. OneInsert'
  <2> SUFFICES ASSUME ~raced'
               PROVE  /\ \A u, v \in Slots :
                            AboutToInsert(u)' /\ AboutToInsert(v)' => u = v
                      /\ \A u \in Slots : AboutToInsert(u)' => setting = None
                      /\ chosen # None => setting = chosen
    BY <1>2 DEF OneInsert
  <2>1. ~raced /\ (setting = None => \A u \in Slots \ {t} : ~AboutToInsert(u))
    BY DEF Read, NoteRace
  <2>2. \A u \in Slots \ {t} : AboutToInsert(u)' = AboutToInsert(u)
    BY <1>5 DEF AboutToInsert
  <2>3. AboutToInsert(t)' => setting = None
    BY <1>5 DEF AboutToInsert
  <2> QED
    BY <1>3, <2>1, <2>2, <2>3 DEF OneInsert
<1> QED
  BY <1>6, <1>7, <1>8, <1>9 DEF IInv

\* getOrCreate saves the default: the row is there from now on.
LEMMA SaveDefaultInv ==
    ASSUME IInv, NEW t \in Slots, SaveDefault(t)
    PROVE  IInv'
<1>1. /\ task' = [task EXCEPT ![t].pc = "have"]
      /\ setting' = DefaultBps /\ inForce' = inForce \cup {DefaultBps}
      /\ UNCHANGED <<payment, locked, chosen, report, raced>>
  BY DEF SaveDefault, Store
<1>2. TypeOK /\ RatesHeld /\ OneInsert /\ AboutToInsert(t)
  BY DEF IInv, SaveDefault
<1>3. task[t] \in Task /\ task[t].pc = "default"
  BY <1>2 DEF TypeOK, AboutToInsert
<1>4. task' \in [Slots -> Task \cup {None}]
  BY <1>1, <1>2, <1>3 DEF TypeOK, Task
<1>5. /\ task'[t].op = task[t].op /\ task'[t].arg = task[t].arg
      /\ task'[t].pc = "have" /\ task'[t].bps = task[t].bps
  BY <1>1, <1>2, <1>3 DEF TypeOK, Task
<1>6. \A u \in Slots \ {t} : task'[u] = task[u]
  BY <1>1, <1>2 DEF TypeOK
<1>7. TypeOK'
  BY <1>1, <1>2, <1>4, DefaultWithin DEF TypeOK
<1>8. task[t].bps = DefaultBps
  BY <1>2, <1>3 DEF RatesHeld, AboutToInsert
<1>9. RatesHeld'
  BY <1>1, <1>2, <1>3, <1>5, <1>6, <1>8, NoneAssumption
     DEF RatesHeld, AboutToInsert, DefaultBps
<1>10. (FeesWithinAmounts /\ FeesOfRates)'
  BY <1>1 DEF IInv, FeesWithinAmounts, FeesOfRates
<1>11. OneRateSoFar'
  BY <1>1 DEF IInv, OneRateSoFar
<1>12. OneInsert'
  <2>1. \A u \in Slots : AboutToInsert(u)' => AboutToInsert(u) /\ u # t
    BY <1>5, <1>6 DEF AboutToInsert
  <2>2. ~raced => chosen = None
    BY <1>2, NoneAssumption DEF OneInsert, TypeOK
  <2> QED
    BY <1>1, <1>2, <2>1, <2>2 DEF OneInsert
<1> QED
  BY <1>7, <1>9, <1>10, <1>11, <1>12 DEF IInv

\* A request ends, without a trace but in the report.
LEMMA EndTask ==
    ASSUME IInv, NEW t \in Slots, End(t)
    PROVE  /\ task' \in [Slots -> Task \cup {None}]
           /\ \A u \in Slots : task'[u] = IF u = t THEN None ELSE task[u]
           /\ \A u \in Slots : AboutToInsert(u)' => AboutToInsert(u)
<1>1. task' = [task EXCEPT ![t] = None] /\ task \in [Slots -> Task \cup {None}]
  BY DEF End, IInv, TypeOK
<1>2. \A u \in Slots : task'[u] = IF u = t THEN None ELSE task[u]
  BY <1>1
<1> QED
  BY <1>1, <1>2 DEF AboutToInsert

\* A request that has a rate goes on with one in force.
LEMMA HasRate ==
    ASSUME IInv, NEW t \in Slots, NEW op, Has(t, op)
    PROVE  /\ task[t] \in Task /\ task[t].op = op
           /\ task[t].bps \in inForce /\ task[t].bps \in 0..MaxBps
           /\ setting # None
  BY DEF IInv, TypeOK, RatesHeld, Has, Task

LEMMA AnswerInv ==
    ASSUME IInv, NEW t \in Slots, End(t),
           UNCHANGED <<setting, payment, locked, inForce, chosen, report, raced>>
    PROVE  IInv'
<1>1. TypeOK'
  BY EndTask DEF IInv, TypeOK
<1>2. RatesHeld'
  BY EndTask DEF IInv, RatesHeld
<1>3. (FeesWithinAmounts /\ FeesOfRates /\ OneRateSoFar)'
  BY DEF IInv, FeesWithinAmounts, FeesOfRates, OneRateSoFar
<1>4. OneInsert'
  BY EndTask DEF IInv, OneInsert
<1> QED
  BY <1>1, <1>2, <1>3, <1>4 DEF IInv

\* The admin's rate is saved: from now on it is in force.
LEMMA SavePatchInv ==
    ASSUME IInv, NEW t \in Slots, SavePatch(t)
    PROVE  IInv'
<1> DEFINE bps == task[t].arg
<1>1. /\ setting' = bps /\ inForce' = inForce \cup {bps} /\ chosen' = bps
      /\ UNCHANGED <<payment, locked, report, raced>>
  BY DEF SavePatch, Store
<1>2. End(t) /\ Has(t, "patch")
  BY DEF SavePatch
<1>3. bps \in Rates /\ bps \in 0..MaxBps /\ bps # None
  <2>1. bps \in Rates
    BY <1>2 DEF IInv, RatesHeld, Has
  <2>2. bps \in 0..MaxBps
    BY <2>1, RatesAssumption
  <2>3. bps \in Nat
    BY <1>2, HasRate DEF Task
  <2> QED
    BY <2>1, <2>2, <2>3, NoneAssumption
<1>4. setting # None /\ inForce # {}
  BY <1>2, HasRate
<1> HIDE DEF bps
<1>5. TypeOK'
  BY <1>1, <1>2, <1>3, EndTask DEF IInv, TypeOK
<1>6. RatesHeld'
  BY <1>1, <1>2, <1>3, EndTask DEF IInv, RatesHeld
<1>7. (FeesWithinAmounts /\ FeesOfRates)'
  BY <1>1 DEF IInv, FeesWithinAmounts, FeesOfRates
<1>8. OneRateSoFar'
  BY <1>1 DEF IInv, OneRateSoFar
<1>9. OneInsert'
  BY <1>1, <1>2, <1>4, EndTask DEF IInv, OneInsert
<1> QED
  BY <1>5, <1>6, <1>7, <1>8, <1>9 DEF IInv

\* A payment is created with the commission of the rate its request read.
LEMMA SaveQuoteInv ==
    ASSUME IInv, NEW t \in Slots, NEW p \in Payments, SaveQuote(t, p)
    PROVE  IInv'
<1> DEFINE base == task[t].arg
           bps == task[t].bps
           fee == ComputeCommission(base, bps)
           new == [base |-> base, fee |-> Stored(fee)]
<1>1. /\ End(t) /\ Has(t, "quote") /\ payment[p] = None
      /\ payment' = [payment EXCEPT ![p] = new]
      /\ UNCHANGED <<setting, locked, inForce, chosen, report, raced>>
  BY DEF SaveQuote
<1>2. base \in Nat /\ bps \in 0..MaxBps /\ bps \in inForce
  BY <1>1, HasRate DEF Task
<1>3. fee \in 0..base
  BY <1>2, CommissionWithin
<1>4. new \in Payment /\ (new.fee # None => new.fee \in 1..base)
  BY <1>2, <1>3 DEF Payment, Stored
<1>5. /\ new # None /\ new.base = base /\ new.fee = Stored(fee)
  BY <1>4, NoneAssumption
<1>6. \A q \in Payments : payment'[q] = IF q = p THEN new ELSE payment[q]
  BY <1>1 DEF IInv, TypeOK
<1>7. TypeOK'
  BY <1>1, <1>4, EndTask DEF IInv, TypeOK
<1>8. RatesHeld'
  <2>1. p \notin locked /\ locked \subseteq Payments
    BY <1>1 DEF IInv, RatesHeld, TypeOK
  <2> QED
    BY <1>1, <1>6, <2>1, EndTask DEF IInv, RatesHeld
<1>9. FeesWithinAmounts'
  <2> SUFFICES ASSUME NEW q \in Payments, payment'[q] # None,
                      payment'[q].fee # None
               PROVE  payment'[q].fee \in 1..payment'[q].base
    BY DEF FeesWithinAmounts
  <2>1. CASE q = p
    BY <1>4, <1>5, <1>6, <2>1
  <2>2. CASE q # p
    BY <1>6, <2>2 DEF IInv, FeesWithinAmounts
  <2> QED
    BY <2>1, <2>2
<1>10. FeesOfRates'
  <2> SUFFICES ASSUME NEW q \in Payments, payment'[q] # None
               PROVE  \E b \in inForce :
                         payment'[q].fee =
                            Stored(ComputeCommission(payment'[q].base, b))
    BY <1>1 DEF FeesOfRates
  <2>1. CASE q = p
    BY <1>2, <1>5, <1>6, <2>1
  <2>2. CASE q # p
    BY <1>6, <2>2 DEF IInv, FeesOfRates
  <2> QED
    BY <2>1, <2>2
<1>11. OneRateSoFar'
  BY <1>1 DEF IInv, OneRateSoFar
<1>12. OneInsert'
  BY <1>1, EndTask DEF IInv, OneInsert
<1> QED
  BY <1>7, <1>8, <1>9, <1>10, <1>11, <1>12 DEF IInv

LEMMA LockInv ==
    ASSUME IInv, NEW p \in Payments, Lock(p)
    PROVE  IInv'
<1>1. /\ locked' = locked \cup {p} /\ payment[p] # None
      /\ UNCHANGED <<setting, task, payment, inForce, chosen, report, raced>>
  BY DEF Lock
<1>2. (TypeOK /\ RatesHeld)'
  BY <1>1 DEF IInv, TypeOK, RatesHeld
<1>3. (FeesWithinAmounts /\ FeesOfRates /\ OneRateSoFar)'
  BY <1>1 DEF IInv, FeesWithinAmounts, FeesOfRates, OneRateSoFar
<1>4. OneInsert'
  BY <1>1 DEF IInv, OneInsert, AboutToInsert
<1> QED
  BY <1>2, <1>3, <1>4 DEF IInv

\* As long as one rate was in force, what is estimated with it of a payment is
\* what it was charged, and so are the sums.
LEMMA EstimateOfOneRate ==
    ASSUME IInv, NEW bps \in inForce, \A a, b \in inForce : a = b
    PROVE  Estimate(bps) = ChargedInAll
<1> SUFFICES ASSUME NEW p \in locked
             PROVE  (payment[p].base * bps) \div 10000 = Charged(payment[p].fee)
  <2>1. [p \in locked |-> (payment[p].base * bps) \div 10000]
          = [p \in locked |-> Charged(payment[p].fee)]
    OBVIOUS
  <2> QED
    BY <2>1 DEF Estimate, ChargedInAll
<1> DEFINE base == payment[p].base
           fee == ComputeCommission(base, bps)
<1>1. p \in Payments /\ payment[p] # None /\ payment[p] \in Payment
  BY DEF IInv, TypeOK, RatesHeld
<1>2. base \in Nat /\ bps \in 0..MaxBps
  BY <1>1 DEF IInv, TypeOK, Payment
<1>3. payment[p].fee = Stored(fee)
  BY <1>1 DEF IInv, FeesOfRates
<1>4. fee \in Nat
  BY <1>2, CommissionWithin
<1>5. Charged(payment[p].fee) = fee
  BY <1>3, <1>4, StoredCharged
<1> QED
  BY <1>2, <1>5, EstimatedCommission

LEMMA ReportInv ==
    ASSUME IInv, NEW t \in Slots, Report(t)
    PROVE  IInv'
<1>1. /\ End(t) /\ Has(t, "report")
      /\ report' = [estimated |-> Estimate(task[t].bps), charged |-> ChargedInAll]
      /\ UNCHANGED <<setting, payment, locked, inForce, chosen, raced>>
  BY DEF Report
<1>2. TypeOK'
  BY <1>1, EndTask DEF IInv, TypeOK
<1>3. RatesHeld'
  BY <1>1, EndTask DEF IInv, RatesHeld
<1>4. (FeesWithinAmounts /\ FeesOfRates)'
  BY <1>1 DEF IInv, FeesWithinAmounts, FeesOfRates
<1>5. OneRateSoFar'
  <2> SUFFICES ASSUME \A a, b \in inForce : a = b
               PROVE  Estimate(task[t].bps) = ChargedInAll
    BY <1>1 DEF OneRateSoFar
  <2> QED
    BY <1>1, HasRate, EstimateOfOneRate
<1>6. OneInsert'
  BY <1>1, EndTask DEF IInv, OneInsert
<1> QED
  BY <1>2, <1>3, <1>4, <1>5, <1>6 DEF IInv

LEMMA StepIInv == IInv /\ [Next]_vars => IInv'
<1> SUFFICES ASSUME IInv, [Next]_vars
             PROVE  IInv'
  OBVIOUS
<1>1. ASSUME NEW t \in Slots, NEW op \in {"get", "report"}, Read(t, op, 0)
      PROVE  IInv'
  BY <1>1, ReadInv
<1>2. ASSUME NEW t \in Slots, NEW bps \in Rates, Read(t, "patch", bps)
      PROVE  IInv'
  BY <1>2, ReadInv, RatesAssumption
<1>3. ASSUME NEW t \in Slots, NEW base \in Bases, Read(t, "quote", base)
      PROVE  IInv'
  BY <1>3, ReadInv, BasesAssumption
<1>4. ASSUME NEW t \in Slots, Answer(t) \/ Fails(t)
      PROVE  IInv'
  BY <1>4, AnswerInv DEF Answer, Fails
<1>5. CASE UNCHANGED vars
  BY <1>5 DEF vars, IInv, TypeOK, RatesHeld, FeesWithinAmounts, FeesOfRates,
              OneRateSoFar, OneInsert, AboutToInsert
<1> QED
  BY <1>1, <1>2, <1>3, <1>4, <1>5, SaveDefaultInv, SavePatchInv, SaveQuoteInv,
     ReportInv, LockInv DEF Next

-----------------------------------------------------------------------------
\* The inductive invariant: a commission is never more than its amount, and
\* is that of a rate that was in force, however the requests that read and set
\* the rate overlap (platform-settings.service.ts, createPaymentQr).
THEOREM CommissionInvariant == Spec => []IInv
  BY InitIInv, StepIInv, PTL DEF Spec

\* While the platform has had one rate, what the metrics estimate is what the
\* payments were charged, to the lamport.
THEOREM EstimatesAreCharged == Spec => []EstimateIsCharged
<1>1. IInv => EstimateIsCharged
  <2> SUFFICES ASSUME IInv, Cardinality(inForce) = 1
               PROVE  report.estimated = report.charged
    BY DEF EstimateIsCharged
  <2>1. IsFiniteSet(inForce)
    <3>1. MaxBps \in Int
      BY DEF MaxBps
    <3>2. IsFiniteSet(0..MaxBps)
      BY <3>1, FS_Interval
    <3> QED
      BY <3>2, FS_Subset DEF IInv, TypeOK
  <2>2. \E bps : inForce = {bps}
    BY <2>1, FS_Singleton
  <2> QED
    BY <2>2 DEF IInv, OneRateSoFar
<1> QED
  BY <1>1, CommissionInvariant, PTL

\* The rate that an admin has set is the rate of the platform, 0 included,
\* unless two requests were about to insert the row.
THEOREM RatesHold == Spec => []AdminRateHolds
<1>1. IInv => AdminRateHolds
  BY DEF IInv, OneInsert, AdminRateHolds
<1> QED
  BY <1>1, CommissionInvariant, PTL
=============================================================================
