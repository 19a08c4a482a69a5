--------------------------- MODULE QrPaymentsProofs ---------------------------
(***************************************************************************)
(* Proofs about QrPayments for any QRs, bounds, batches and number of      *)
(* scans in flight.                                                        *)
(***************************************************************************)
EXTENDS QrPayments, FiniteSetTheorems, TLAPS

-----------------------------------------------------------------------------
(* Scans.                                                                  *)

\* A nonempty set of signatures has a first one: of the intervals that end in
\* its members, one has none of the others as a strict subset.
LEMMA CurrentIsOne ==
    ASSUME NEW t \in Slots, task[t].sigs \subseteq Signatures, task[t].sigs # {}
    PROVE  Current(t) \in task[t].sigs
<1> DEFINE Upto == {1..s : s \in task[t].sigs}
<1>1. Upto \subseteq FiniteSubsetsOf(Nat) /\ Upto # {}
  <2>1. \A s \in task[t].sigs : s \in Nat /\ IsFiniteSet(1..s) /\ 1..s \subseteq Nat
    BY FS_Interval, BoundsAssumption DEF Signatures
  <2> QED BY <2>1 DEF FiniteSubsetsOf
<1>2. PICK x \in Upto : \A y \in Upto : <<y, x>> \notin StrictSubsetOrdering(Nat)
  BY <1>1, FS_StrictSubsetOrderingWellFounded, WFMin
<1>3. PICK s \in task[t].sigs : x = 1..s
  OBVIOUS
<1>4. ASSUME NEW r \in task[t].sigs, ~(s <= r)
      PROVE  FALSE
  <2>1. r \in Nat /\ s \in Nat /\ r < s /\ r > 0
    BY <1>4, BoundsAssumption DEF Signatures
  <2>2. 1..r \subseteq 1..s /\ s \in 1..s /\ s \notin 1..r
    BY <2>1
  <2>3. 1..r \in SUBSET Nat /\ 1..s \in SUBSET Nat /\ 1..r # 1..s
    BY <2>1, <2>2
  <2>4. <<1..r, 1..s>> \in StrictSubsetOrdering(Nat)
    BY <2>2, <2>3 DEF StrictSubsetOrdering
  <2> QED BY <1>2, <1>3, <2>4
<1> QED BY <1>4 DEF Current

LEMMA NullsAreNone ==
    /\ NoCopy \notin Copy /\ NoCopy.q \notin Qrs
    /\ NoTransaction \notin Transaction /\ NoTransaction.q \notin Qrs
    /\ NoSignature \notin Signatures
  BY QrsAssumption, BoundsAssumption
     DEF NoCopy, Copy, NoTransaction, Transaction, NoSignature, Signatures

LEMMA SlotStep ==
    ASSUME TypeOK, NEW t \in Slots, NEW r \in Task,
           task' = [task EXCEPT ![t] = r]
    PROVE  /\ task' \in [Slots -> Task]
           /\ task'[t] = r
           /\ \A u \in Slots \ {t} : task'[u] = task[u]
  BY DEF TypeOK

LEMMA ChainDomain ==
    ASSUME TypeOK
    PROVE  /\ DOMAIN chain \subseteq Signatures
           /\ \A s \in DOMAIN chain : chain[s] \in Payment
<1>1. chain \in Seq(Payment) /\ Len(chain) <= MaxPayments
  BY DEF TypeOK
<1>2. DOMAIN chain = 1..Len(chain) /\ Len(chain) \in Nat
  BY <1>1
<1>3. \A s \in 1..Len(chain) : s \in 1..MaxPayments /\ chain[s] \in Payment
  BY <1>1, <1>2, BoundsAssumption
<1> QED BY <1>2, <1>3 DEF Signatures

\* The loops go on with the copies and signatures they are left with.
After(cur, todo, sigs, handled) ==
    IF sigs # {}
    THEN [pc |-> "sig", cur |-> cur, todo |-> todo,
          sigs |-> sigs, handled |-> handled]
    ELSE IF todo # {}
    THEN [pc |-> "next", cur |-> NoCopy, todo |-> todo,
          sigs |-> {}, handled |-> FALSE]
    ELSE Idle

GoneOn(r, cur, todo, sigs, handled) ==
    /\ r.pc \in {"sig", "next", "idle"}
    /\ r.todo = todo /\ r.sigs = sigs
    /\ sigs # {} => r.pc = "sig" /\ r.cur = cur /\ r.handled = handled
    /\ sigs = {} => r.pc # "sig" /\ r.cur = NoCopy /\ r.handled = FALSE
    /\ r.pc = "idle" => r = Idle

LEMMA AfterIsTask ==
    ASSUME NEW cur \in Copy \cup {NoCopy}, NEW todo \in SUBSET Copy,
           NEW sigs \in SUBSET Signatures, NEW handled \in BOOLEAN
    PROVE  /\ After(cur, todo, sigs, handled) \in Task
           /\ GoneOn(After(cur, todo, sigs, handled), cur, todo, sigs, handled)
<1>1. After(cur, todo, sigs, handled) \in Task
  BY DEF After, Task, Idle
<1>2. GoneOn(After(cur, todo, sigs, handled), cur, todo, sigs, handled)
  BY DEF After, GoneOn, Idle
<1> QED BY <1>1, <1>2

-----------------------------------------------------------------------------
(* What only grows, and what it keeps true.                                *)

\* Payments stay on chain, removals are remembered, and the records of a QR
\* that is not removed stay.
Grows ==
    /\ \A s \in DOMAIN chain : s \in DOMAIN chain' /\ chain'[s] = chain[s]
    /\ removed \subseteq removed'
    /\ \A s \in Signatures : \A q \in Qrs \ removed' :
          record[s].q = q => record'[s].q = q

LEMMA NothingChanges ==
    ASSUME UNCHANGED <<chain, removed, record>>
    PROVE  Grows
  BY DEF Grows

\* What the scan in a slot that stands still knows remains true.
LEMMA KnowsKept ==
    ASSUME IInv, Grows, NEW t \in Slots, task'[t] = task[t]
    PROVE  ScanKnows(t)'
<1>1. ScanKnows(t) /\ task[t] \in Task
  BY DEF IInv, TypeOK
<1>2. Current(t)' = Current(t)
  BY DEF Current
<1>3. task[t].pc \in {"sig", "save", "update", "dispatch"} =>
        /\ task[t].cur \in Copy /\ task[t].cur.q \in Qrs
        /\ Current(t) \in task[t].sigs /\ Current(t) \in Signatures
        /\ Current(t) \in DOMAIN chain
  <2> SUFFICES ASSUME task[t].pc \in {"sig", "save", "update", "dispatch"}
               PROVE  /\ task[t].cur \in Copy /\ task[t].cur.q \in Qrs
                      /\ Current(t) \in task[t].sigs
                      /\ Current(t) \in Signatures
                      /\ Current(t) \in DOMAIN chain
    OBVIOUS
  <2>1. task[t].sigs \subseteq Signatures /\ task[t].sigs # {}
    BY <1>1 DEF Task, ScanKnows
  <2>2. Current(t) \in task[t].sigs
    BY <2>1, CurrentIsOne
  <2> QED BY <1>1, <2>1, <2>2 DEF ScanKnows, Copy
<1>4. task[t].pc \in {"save", "update", "dispatch"} =>
        Valid(chain'[Current(t)], task[t].cur.amount)
  BY <1>1, <1>3 DEF ScanKnows, Grows
<1>5. task[t].pc \in {"update", "dispatch"} /\ task[t].cur.q \notin removed' =>
        record'[Current(t)].q = task[t].cur.q
  BY <1>1, <1>3 DEF ScanKnows, Grows
<1>6. task[t].pc \in {"sig", "save", "update", "dispatch"} =>
        \A s \in task[t].sigs : /\ s \in DOMAIN chain'
                                /\ chain'[s].q = task[t].cur.q
                                /\ chain'[s].ref = task[t].cur.ref
  BY <1>1 DEF ScanKnows, Grows
<1> QED BY <1>1, <1>2, <1>4, <1>5, <1>6 DEF ScanKnows, Valid

\* A scan with a signature in hand has one of a payment on chain.
LEMMA InHand ==
    ASSUME IInv, NEW t \in Slots,
           task[t].pc \in {"sig", "save", "update", "dispatch"}
    PROVE  /\ task[t] \in Task /\ task[t].cur \in Copy /\ task[t].cur # NoCopy
           /\ task[t].cur.q \in Qrs /\ task[t].cur.ref \in 1..MaxRefs
           /\ task[t].cur \in Copies(t) /\ task[t].todo \subseteq Copy
           /\ Current(t) \in task[t].sigs /\ Current(t) \in Signatures
           /\ Current(t) \in DOMAIN chain
           /\ chain[Current(t)].q = task[t].cur.q
           /\ chain[Current(t)].ref = task[t].cur.ref
           /\ Others(t) \in SUBSET Signatures /\ Others(t) \subseteq task[t].sigs
<1>1. ScanKnows(t) /\ task[t] \in Task
  BY DEF IInv, TypeOK
<1>2. task[t].sigs \subseteq Signatures /\ task[t].sigs # {}
  BY <1>1 DEF Task, ScanKnows
<1>3. Current(t) \in task[t].sigs
  BY <1>2, CurrentIsOne
<1>4. task[t].cur \in Copy /\ task[t].cur # NoCopy
  BY <1>1, NullsAreNone DEF ScanKnows
<1>5. task[t].todo \subseteq Copy
  BY <1>1 DEF Task
<1> QED BY <1>1, <1>2, <1>3, <1>4, <1>5 DEF ScanKnows, Copy, Copies, Others

\* While a payment is announced by nobody new, what was announced stays so.
LEMMA AnnouncementsKept ==
    ASSUME IInv, Grows, UNCHANGED sent, missed' \subseteq DOMAIN chain',
           \A u \in Slots : Announcing(u)' =>
              /\ Announcing(u) /\ Current(u)' = Current(u)
              /\ task'[u].cur = task[u].cur
    PROVE  AnnouncedRecorded'
<1>1. ASSUME NEW e \in sent
      PROVE  /\ e.s \in DOMAIN chain'
             /\ chain'[e.s].q = e.q /\ chain'[e.s].ref = e.ref
             /\ e.q \notin removed' => record'[e.s].q = e.q
  <2>1. e.s \in Signatures /\ e.q \in Qrs
    BY DEF IInv, TypeOK
  <2> QED BY <2>1 DEF IInv, AnnouncedRecorded, Grows
<1>2. ASSUME NEW u \in Slots, Announcing(u)', task'[u].cur.q \notin removed'
      PROVE  /\ \A e \in sent : e.s # Current(u)'
             /\ \A v \in Slots \ {u} : Announcing(v)' => Current(v)' # Current(u)'
  <2>1. Announcing(u) /\ task[u].cur.q \notin removed
    BY <1>2 DEF Grows
  <2>2. /\ \A e \in sent : e.s # Current(u)
        /\ \A v \in Slots \ {u} : Announcing(v) => Current(v) # Current(u)
    BY <2>1 DEF IInv, AnnouncedRecorded
  <2> QED BY <1>2, <2>2
<1> QED BY <1>1, <1>2 DEF AnnouncedRecorded

LEMMA AnnouncedKept ==
    ASSUME IInv, Grows, UNCHANGED sent, NEW t \in Slots,
           \A u \in Slots \ {t} : task'[u] = task[u],
           missed' \subseteq DOMAIN chain',
           Announcing(t)' => /\ Announcing(t) /\ Current(t)' = Current(t)
                             /\ task'[t].cur = task[t].cur
    PROVE  AnnouncedRecorded'
<1>1. \A u \in Slots : Announcing(u)' =>
        /\ Announcing(u) /\ Current(u)' = Current(u)
        /\ task'[u].cur = task[u].cur
  <2>1. ASSUME NEW u \in Slots \ {t}
        PROVE  /\ Announcing(u)' <=> Announcing(u)
               /\ Current(u)' = Current(u)
               /\ task'[u].cur = task[u].cur
    <3>1. task'[u] = task[u]
      OBVIOUS
    <3> QED BY <3>1 DEF Announcing, Current
  <2> QED BY <2>1
<1> QED BY <1>1, AnnouncementsKept

\* What was told of a QR remains told as long as it keeps its reference and
\* nobody leaves an announcement unsaid.
LEMMA ToldKept ==
    ASSUME IInv, Grows, NEW q \in Qrs, Told(q),
           qr'[q].ref = qr[q].ref, sent \subseteq sent', missed \subseteq missed',
           q \in overtaken => q \in overtaken',
           \A t \in Slots : /\ Announcing(t)
                            /\ task[t].cur.q = q /\ task[t].cur.ref = qr[q].ref
                => \/ /\ Announcing(t)' /\ task'[t].cur = task[t].cur
                   \/ Current(t) \in missed'
                   \/ q \in overtaken'
                   \/ \E e \in sent' : e.q = q /\ e.ref = qr[q].ref
    PROVE  Told(q)'
<1>1. CASE \E e \in sent : e.q = q /\ e.ref = qr[q].ref
  BY <1>1 DEF Told
<1>2. CASE \E s \in missed : chain[s].q = q
  BY <1>2 DEF Told, IInv, AnnouncedRecorded, Grows
<1>3. CASE q \in overtaken
  BY <1>3 DEF Told
<1>4. ASSUME NEW t \in Slots, Announcing(t), task[t].cur.q = q,
             task[t].cur.ref = qr[q].ref
      PROVE  Told(q)'
  <2>1. CASE Announcing(t)' /\ task'[t].cur = task[t].cur
    BY <1>4, <2>1 DEF Told
  <2>2. CASE Current(t) \in missed'
    <3>1. Current(t) \in DOMAIN chain /\ chain[Current(t)].q = q
      BY <1>4, InHand DEF Announcing
    <3>2. chain'[Current(t)].q = q
      BY <3>1 DEF Grows
    <3> QED BY <2>2, <3>2 DEF Told
  <2>3. CASE q \in overtaken'
    BY <2>3 DEF Told
  <2>4. CASE \E e \in sent' : e.q = q /\ e.ref = qr[q].ref
    BY <2>4 DEF Told
  <2> QED BY <1>4, <2>1, <2>2, <2>3, <2>4
<1> QED BY <1>1, <1>2, <1>3, <1>4 DEF Told

\* A step of one scan that leaves the tables and the world alone.
QuietStep(t, r) ==
    /\ r \in Task /\ task' = [task EXCEPT ![t] = r]
    /\ UNCHANGED <<qr, older, record, refs, updating, chain, sent, removed,
                   overtaken>>
    /\ missed \subseteq missed' /\ missed' \subseteq DOMAIN chain
    /\ contended \subseteq contended' /\ contended' \subseteq Qrs
    /\ ScanKnows(t)'
    \* what it takes on, or keeps
    /\ r.cur \notin r.todo
    /\ \A c, d \in Copies(t)' : c.q = d.q => c = d
    /\ \A c \in Copies(t)' : c.ref <= refs[c.q]
    /\ \A q \in Copied(t)' \ contended' : \A u \in Slots \ {t} : q \notin Copied(u)
    \* what it says was told, has been told
    /\ \A c \in r.todo :
          \/ c \in task[t].todo
          \/ /\ c.ref = qr[c.q].ref
             /\ c.paid = (qr[c.q].paid # NoSignature)
    /\ r.cur # NoCopy /\ r.cur = task[t].cur => r.handled = task[t].handled
    /\ r.cur # NoCopy /\ r.cur # task[t].cur =>
          r.cur \in task[t].todo /\ r.handled = r.cur.paid
    /\ r.cur = NoCopy => ~r.handled
    \* an announcement left unsaid is missed
    /\ r.pc \notin {"update", "dispatch"}
    /\ Announcing(t) => Current(t) \in missed'

LEMMA QuietStepInv ==
    ASSUME IInv, NEW t \in Slots, NEW r, QuietStep(t, r)
    PROVE  IInv'
<1> USE DEF QuietStep
<1>1. /\ task' \in [Slots -> Task]
      /\ task'[t] = r
      /\ \A u \in Slots \ {t} : task'[u] = task[u]
  BY SlotStep DEF IInv
<1>2. Grows
  BY NothingChanges
<1>3. TypeOK'
  <2>1. missed' \subseteq Signatures
    BY ChainDomain DEF IInv
  <2> QED BY <1>1, <2>1 DEF IInv, TypeOK, Signatures, Row, Payment, Transaction, NoTransaction, Update
<1>4. \A u \in Slots : ScanKnows(u)'
  BY <1>1, <1>2, KnowsKept
<1>5. RecordsTruthful' /\ PaidIsRecorded'
  BY DEF IInv, RecordsTruthful, PaidIsRecorded, Valid
<1>6. OneCopyInScan'
  BY <1>1 DEF IInv, OneCopyInScan, Copies
<1>7. RefsInOrder'
  BY <1>1 DEF IInv, RefsInOrder, Copies
<1>8. ~Announcing(t)'
  BY <1>1 DEF Announcing
<1>9. AnnouncedRecorded'
  BY <1>1, <1>2, <1>8, AnnouncedKept
<1>10. \A q \in Qrs : Told(q) => Told(q)'
  <2>1. \A u \in Slots : Announcing(u) => \/ Announcing(u)' /\ task'[u].cur = task[u].cur
                                          \/ Current(u) \in missed'
    BY <1>1 DEF Announcing
  <2> QED BY <1>2, <2>1, ToldKept
<1>11. FirstPaymentTold'
  BY <1>10 DEF IInv, FirstPaymentTold, RecordedNow
<1>12. TakenIsTold'
  <2> SUFFICES ASSUME NEW q \in Qrs \ removed, TakenForTold(q)'
               PROVE  TakenForTold(q)
    BY <1>10 DEF IInv, TakenIsTold
  <2>1. CASE qr[q].paid # NoSignature
    BY <2>1 DEF TakenForTold
  <2>2. ASSUME NEW u \in Slots, NEW c \in task'[u].todo,
               c.q = q, c.ref = qr[q].ref, c.paid
        PROVE  TakenForTold(q)
    BY <1>1, <2>2 DEF TakenForTold
  <2>3. ASSUME NEW u \in Slots, task'[u].cur.q = q, task'[u].cur.ref = qr[q].ref,
               task'[u].handled
        PROVE  TakenForTold(q)
    <3>1. CASE u # t
      BY <1>1, <2>3, <3>1 DEF TakenForTold
    <3>2. CASE u = t /\ r.cur = task[t].cur
      BY <1>1, <2>3, <3>2 DEF TakenForTold
    <3>3. CASE u = t /\ r.cur # task[t].cur
      BY <1>1, <2>3, <3>3, NullsAreNone DEF TakenForTold
    <3> QED BY <3>1, <3>2, <3>3
  <2> QED BY <2>1, <2>2, <2>3 DEF TakenForTold
<1>13. AnnouncedOnce'
  BY DEF IInv, AnnouncedOnce
<1>14. OneScan'
  <2> SUFFICES ASSUME NEW q \in Qrs \ contended', NEW u \in Slots, NEW v \in Slots,
                      q \in Copied(u)', q \in Copied(v)'
               PROVE  u = v
    BY DEF OneScan
  <2>1. \A w \in Slots \ {t} : Copied(w)' = Copied(w)
    BY <1>1 DEF Copied
  <2> QED BY <2>1 DEF IInv, OneScan
<1>15. MarkedBeforeDispatch'
  BY <1>1 DEF IInv, MarkedBeforeDispatch, SpentRow
<1>16. SentIsSpent'
  <2> SUFFICES ASSUME NEW e \in sent, e.q \notin contended'
               PROVE  SpentRow(e.q, e.ref)' /\ \A u \in Slots : SpentBy(u, e)'
    BY DEF SentIsSpent
  <2>1. SpentRow(e.q, e.ref) /\ \A u \in Slots : SpentBy(u, e)
    BY DEF IInv, SentIsSpent
  <2>2. \A u \in Slots \ {t} : SpentBy(u, e)'
    BY <1>1, <2>1 DEF SpentBy, Announcing
  <2>3. e.q \in Qrs /\ e.ref \in 1..MaxRefs
    BY DEF IInv, TypeOK
  <2>4. \A c \in r.todo : c.q = e.q /\ c.ref = e.ref => c.paid
    BY <2>1 DEF SpentBy, SpentRow
  <2>5. r.cur.q = e.q /\ r.cur.ref = e.ref => r.handled
    BY <2>1, <2>3, NullsAreNone DEF SpentBy
  <2>6. SpentBy(t, e)'
    BY <1>1, <1>8, <2>4, <2>5 DEF SpentBy
  <2> QED BY <2>1, <2>2, <2>6 DEF SpentRow
<1> QED BY <1>3, <1>4, <1>5, <1>6, <1>7, <1>9, <1>11, <1>12, <1>13, <1>14, <1>15, <1>16 DEF IInv

-----------------------------------------------------------------------------
(* Steps of a scan that write nothing.                                     *)

\* The loop moves to the next signature, copy, or its end.
LEMMA GoOnInv ==
    ASSUME IInv, NEW t \in Slots, task[t].pc # "idle",
           NEW cur \in Copies(t) \cup {NoCopy}, NEW todo \in SUBSET task[t].todo,
           NEW sigs \in SUBSET Signatures, NEW handled \in BOOLEAN,
           GoOn(t, cur, todo, sigs, handled), cur \notin todo,
           UNCHANGED <<qr, older, record, refs, updating, chain, sent, removed,
                       missed, overtaken, contended>>,
           ~Announcing(t),
           sigs # {} => /\ cur # NoCopy
                        /\ \A s \in sigs : /\ s \in DOMAIN chain
                                           /\ chain[s].q = cur.q
                                           /\ chain[s].ref = cur.ref,
           cur # NoCopy /\ cur = task[t].cur => handled = task[t].handled,
           cur # NoCopy /\ cur # task[t].cur => handled = cur.paid
    PROVE  IInv'
<1>1. task[t] \in Task /\ task[t].todo \subseteq Copy /\ Copies(t) \subseteq Copy
  BY DEF IInv, TypeOK, Task, Copies
<1> DEFINE r == After(cur, todo, sigs, handled)
<1>2. /\ r \in Task /\ GoneOn(r, cur, todo, sigs, handled)
      /\ task' = [task EXCEPT ![t] = r]
  <2>1. cur \in Copy \cup {NoCopy} /\ todo \in SUBSET Copy
    BY <1>1
  <2>2. r \in Task /\ GoneOn(r, cur, todo, sigs, handled)
    BY <2>1, AfterIsTask
  <2>3. task' = [task EXCEPT ![t] = r]
    BY DEF GoOn, After
  <2> QED BY <2>2, <2>3
<1> HIDE DEF r
<1> USE DEF GoneOn
<1>3. task'[t] = r
  BY <1>2, SlotStep DEF IInv
<1>4. Copies(t)' \subseteq Copies(t)
  BY <1>2, <1>3 DEF Copies
<1>5. Copied(t)' \subseteq Copied(t)
  BY <1>4 DEF Copied, Copies
<1>6. ScanKnows(t)'
  BY <1>1, <1>2, <1>3 DEF ScanKnows
<1>7. QuietStep(t, r)
  <2>1. missed \subseteq DOMAIN chain /\ contended \subseteq Qrs
    BY DEF IInv, AnnouncedRecorded, TypeOK
  <2>2. r.cur \notin r.todo
    BY <1>1, <1>2, NullsAreNone
  <2>3. \A c, d \in Copies(t)' : c.q = d.q => c = d
    BY <1>4 DEF IInv, OneCopyInScan
  <2>4. \A c \in Copies(t)' : c.ref <= refs[c.q]
    BY <1>4 DEF IInv, RefsInOrder
  <2>5. \A q \in Copied(t)' \ contended' : \A u \in Slots \ {t} : q \notin Copied(u)
    <3>1. Copied(t) \subseteq Qrs
      BY <1>1 DEF Copied, Copies, Copy
    <3> QED BY <1>5, <3>1 DEF IInv, OneScan
  <2>6. r.cur # NoCopy => sigs # {} /\ r.cur = cur /\ r.handled = handled
    BY <1>2
  <2>7. cur # NoCopy /\ cur # task[t].cur => cur \in task[t].todo
    BY DEF Copies
  <2> QED BY <1>2, <1>6, <2>1, <2>2, <2>3, <2>4, <2>5, <2>6, <2>7 DEF QuietStep
<1> QED BY <1>7, QuietStepInv

LEMMA SignaturesOfPayments ==
    ASSUME TypeOK, NEW q, NEW ref
    PROVE  /\ SignaturesFor(q, ref) \in SUBSET Signatures
           /\ \A s \in SignaturesFor(q, ref) :
                 s \in DOMAIN chain /\ chain[s].q = q /\ chain[s].ref = ref
  BY ChainDomain DEF SignaturesFor

LEMMA TakeQrInv ==
    ASSUME IInv, NEW t \in Slots, NEW c \in task[t].todo, TakeQr(t, c)
    PROVE  IInv'
<1>1. task[t] \in Task /\ c \in Copy /\ c \in Copies(t) /\ c # NoCopy
  BY NullsAreNone DEF IInv, TypeOK, Task, Copies
<1>2. c # task[t].cur
  BY DEF IInv, OneCopyInScan
<1>3. c.paid \in BOOLEAN
  BY <1>1 DEF Copy
<1>4. SignaturesFor(c.q, c.ref) \in SUBSET Signatures
  BY SignaturesOfPayments DEF IInv
<1>5. \A s \in SignaturesFor(c.q, c.ref) :
          s \in DOMAIN chain /\ chain[s].q = c.q /\ chain[s].ref = c.ref
  BY SignaturesOfPayments DEF IInv
<1> QED BY <1>1, <1>2, <1>3, <1>4, <1>5, GoOnInv
        DEF TakeQr, tables, history, Announcing

LEMMA SkipQrInv ==
    ASSUME IInv, NEW t \in Slots, NEW c \in task[t].todo, SkipQr(t, c)
    PROVE  IInv'
<1>1. NoCopy \notin task[t].todo
  BY NullsAreNone DEF IInv, TypeOK, Task
<1> QED BY <1>1, GoOnInv DEF SkipQr, tables, history, Announcing

LEMMA SkipSignatureInv ==
    ASSUME IInv, NEW t \in Slots, SkipSignature(t)
    PROVE  IInv'
<1>1. task[t].pc = "sig" /\ task[t].handled \in BOOLEAN
  BY DEF SkipSignature, IInv, TypeOK, Task
<1>2. task[t].cur \notin task[t].todo
  BY DEF IInv, OneCopyInScan
<1>3. \A s \in Others(t) : /\ s \in DOMAIN chain
                           /\ chain[s].q = task[t].cur.q
                           /\ chain[s].ref = task[t].cur.ref
  BY <1>1, InHand DEF IInv, ScanKnows
<1> QED BY <1>1, <1>2, <1>3, InHand, GoOnInv
        DEF SkipSignature, NextSignature, tables, history, Announcing

\* A scan starts with copies that say what the rows say.
LEMMA ScanStartInv ==
    ASSUME IInv, NEW t \in Slots, ScanStart(t)
    PROVE  IInv'
<1>1. PICK batch \in OldestBatches :
          /\ task' = [task EXCEPT ![t] =
                [pc |-> "next", cur |-> NoCopy,
                 todo |-> {[q |-> q, ref |-> qr[q].ref,
                            amount |-> qr[q].amount,
                            paid |-> qr[q].paid # NoSignature] : q \in batch},
                 sigs |-> {}, handled |-> FALSE]]
          /\ contended' = contended \cup
                              (batch \cap UNION {Copied(u) : u \in Slots})
  BY DEF ScanStart
<1> DEFINE copy(q) == [q |-> q, ref |-> qr[q].ref, amount |-> qr[q].amount,
                       paid |-> qr[q].paid # NoSignature]
           todo == {copy(q) : q \in batch}
           r == [pc |-> "next", cur |-> NoCopy, todo |-> todo, sigs |-> {},
                 handled |-> FALSE]
<1>2. \A q \in batch : /\ q \in Qrs /\ qr[q].present /\ qr[q] \in Row
                       /\ qr[q].ref = refs[q] /\ qr[q].ref \in 1..MaxRefs
  BY DEF OldestBatches, Present, IInv, TypeOK, RefsInOrder, Row
<1>3. \A q \in batch : copy(q) \in Copy
  BY <1>2 DEF Copy, Row
<1>4. r \in Task /\ task' = [task EXCEPT ![t] = r]
  <2>2. todo \in SUBSET Copy
    BY <1>3
  <2>3. task' = [task EXCEPT ![t] = r]
    BY <1>1
  <2> HIDE DEF todo
  <2> QED BY <2>2, <2>3 DEF Task
<1>5. task'[t] = r
  BY <1>4, SlotStep DEF IInv
<1>6. Copies(t)' = todo
  BY <1>5 DEF Copies
<1>7. Copied(t)' = batch
  <2>1. Copied(t)' = {c.q : c \in todo}
    BY <1>5 DEF Copied
  <2>2. ASSUME NEW q \in batch  PROVE  q \in {c.q : c \in todo}
    <3>1. copy(q) \in todo /\ copy(q).q = q
      OBVIOUS
    <3> HIDE DEF copy, todo
    <3> QED BY <3>1
  <2>3. ASSUME NEW c \in todo  PROVE  c.q \in batch
    OBVIOUS
  <2> HIDE DEF todo
  <2> QED BY <2>1, <2>2, <2>3
<1>8. /\ UNCHANGED <<qr, older, record, refs, updating, chain, sent, removed,
                     missed, overtaken>>
      /\ missed \subseteq DOMAIN chain
      /\ contended \subseteq contended' /\ contended' \subseteq Qrs
  BY <1>1, <1>2 DEF ScanStart, tables, IInv, TypeOK, AnnouncedRecorded
<1>9. ScanKnows(t)'
  BY <1>5 DEF ScanKnows
<1>10. \A c \in todo : \E q \in batch : c = copy(q)
  OBVIOUS
<1>11. \A c \in todo : /\ c \in Copy /\ c.ref = refs[c.q] /\ c.ref = qr[c.q].ref
                       /\ c.paid = (qr[c.q].paid # NoSignature)
  BY <1>2, <1>3, <1>10
<1>12. \A c, d \in todo : c.q = d.q => c = d
  BY <1>10
<1>13. \A q \in Copied(t)' \ contended' : \A u \in Slots \ {t} : q \notin Copied(u)
  BY <1>1, <1>7
<1>14. \A c \in todo : c.ref <= refs[c.q]
  <2>1. \A c \in todo : refs[c.q] \in Nat
    BY <1>11, BoundsAssumption DEF Copy, IInv, TypeOK
  <2> QED BY <1>11, <2>1
<1>15. NoCopy \notin todo
  BY <1>11, NullsAreNone
<1>16. ~Announcing(t)
  BY DEF ScanStart, Idle, Announcing
<1> HIDE DEF todo, copy
<1>17. QuietStep(t, r)
  BY <1>4, <1>6, <1>8, <1>9, <1>11, <1>12, <1>13, <1>14, <1>15, <1>16 DEF QuietStep
<1> HIDE DEF r
<1> QED BY <1>17, QuietStepInv

\* The scan goes on with the signature it has in hand.
LEMMA GoToTask ==
    ASSUME IInv, NEW t \in Slots,
           NEW pc \in {"save", "update", "dispatch"}, GoTo(t, pc)
    PROVE  LET r == [pc |-> pc, cur |-> task[t].cur, todo |-> task[t].todo,
                     sigs |-> task[t].sigs, handled |-> task[t].handled]
           IN  /\ r \in Task /\ task' = [task EXCEPT ![t] = r] /\ task'[t] = r
               /\ Current(t)' = Current(t)
<1> DEFINE r == [pc |-> pc, cur |-> task[t].cur, todo |-> task[t].todo,
                 sigs |-> task[t].sigs, handled |-> task[t].handled]
<1>1. task[t] \in Task /\ task \in [Slots -> Task]
  BY DEF IInv, TypeOK
<1>2. r \in Task
  BY <1>1 DEF Task
<1>3. [task[t] EXCEPT !.pc = pc] = r
  BY <1>1 DEF Task
<1>4. task' = [task EXCEPT ![t] = [task[t] EXCEPT !.pc = pc]]
  BY DEF GoTo
<1>5. task'[t] = r
  BY <1>1, <1>3, <1>4
<1>6. Current(t)' = Current(t)
  BY <1>5 DEF Current
<1> QED BY <1>2, <1>3, <1>4, <1>5, <1>6

LEMMA ValidateInv ==
    ASSUME IInv, NEW t \in Slots, Validate(t)
    PROVE  IInv'
<1> DEFINE r == [pc |-> "save", cur |-> task[t].cur, todo |-> task[t].todo,
                 sigs |-> task[t].sigs, handled |-> task[t].handled]
<1>1. /\ r \in Task /\ task' = [task EXCEPT ![t] = r] /\ task'[t] = r
      /\ Current(t)' = Current(t)
  BY GoToTask DEF Validate
<1>2. UNCHANGED <<qr, older, record, refs, updating, chain, sent, removed,
                  missed, overtaken, contended>>
  BY DEF Validate, tables, history
<1>3. task[t].pc = "sig" /\ Valid(chain[Current(t)], task[t].cur.amount)
  BY DEF Validate
<1>4. ScanKnows(t)'
  BY <1>1, <1>2, <1>3 DEF IInv, ScanKnows, Valid
<1>5. Copies(t)' = Copies(t) /\ Copied(t)' = Copied(t)
  BY <1>1 DEF Copies, Copied
<1>6. missed \subseteq DOMAIN chain /\ contended \subseteq Qrs
  BY DEF IInv, AnnouncedRecorded, TypeOK
<1>7. /\ r.cur \notin r.todo /\ \A c, d \in Copies(t) : c.q = d.q => c = d
      /\ \A c \in Copies(t) : c.ref <= refs[c.q]
  BY DEF IInv, OneCopyInScan, RefsInOrder
<1>8. \A q \in Copied(t) \ contended : \A u \in Slots \ {t} : q \notin Copied(u)
  <2>1. Copied(t) \subseteq Qrs
    BY DEF IInv, TypeOK, Task, Copied, Copy
  <2> QED BY <2>1 DEF IInv, OneScan
<1>9. r.cur # NoCopy
  BY <1>3, InHand
<1>10. QuietStep(t, r)
  BY <1>1, <1>2, <1>3, <1>4, <1>5, <1>6, <1>7, <1>8, <1>9
     DEF QuietStep, Announcing
<1> HIDE DEF r
<1> QED BY <1>10, QuietStepInv

\* A scan that fails forgets everything, and leaves what it had not announced.
LEMMA AtRiskOnChain ==
    ASSUME IInv
    PROVE  \A t \in Slots : AtRisk(t) \subseteq DOMAIN chain
  BY InHand DEF AtRisk

LEMMA ScanFailsInv ==
    ASSUME IInv, NEW t \in Slots, ScanFails(t)
    PROVE  IInv'
<1>1. Idle \in Task /\ task' = [task EXCEPT ![t] = Idle] /\ task'[t] = Idle
  BY DEF ScanFails, Task, Idle, IInv, TypeOK
<1>2. /\ UNCHANGED <<qr, older, record, refs, updating, chain, sent, removed,
                     overtaken, contended>>
      /\ missed' = missed \cup AtRisk(t)
  BY DEF ScanFails, tables
<1>3. Copies(t)' = {} /\ Copied(t)' = {}
  BY <1>1 DEF Copies, Copied, Idle
<1>4. missed' \subseteq DOMAIN chain /\ contended \subseteq Qrs
  BY <1>2, AtRiskOnChain DEF IInv, AnnouncedRecorded, TypeOK
<1>5. ScanKnows(t)'
  BY <1>1 DEF ScanKnows, Idle
<1>6. Announcing(t) => Current(t) \in missed'
  BY <1>2 DEF Announcing, AtRisk
<1>7. /\ Idle.cur = NoCopy /\ Idle.todo = {} /\ Idle.handled = FALSE
      /\ Idle.pc = "idle"
  BY DEF Idle
<1>8. QuietStep(t, Idle)
  BY <1>1, <1>2, <1>3, <1>4, <1>5, <1>6, <1>7 DEF QuietStep
<1> QED BY <1>8, QuietStepInv

-----------------------------------------------------------------------------
(* Steps of a scan that write.                                             *)

\* A signature in hand is left for the others.
LEMMA NextSignatureTask ==
    ASSUME IInv, NEW t \in Slots,
           task[t].pc \in {"save", "update", "dispatch"},
           NEW handled \in BOOLEAN, NextSignature(t, Others(t), handled)
    PROVE  \E r \in Task :
              /\ task' = [task EXCEPT ![t] = r]
              /\ GoneOn(r, task[t].cur, task[t].todo, Others(t), handled)
<1> DEFINE r == After(task[t].cur, task[t].todo, Others(t), handled)
<1>1. task' = [task EXCEPT ![t] = r]
  BY DEF NextSignature, GoOn, After
<1>2. /\ r \in Task
      /\ GoneOn(r, task[t].cur, task[t].todo, Others(t), handled)
  BY AfterIsTask, InHand
<1> QED BY <1>1, <1>2

\* The copies a scan is left with are some of those it had.
Fewer(t, r) ==
    /\ r \in Task /\ task' = [task EXCEPT ![t] = r]
    /\ r.todo = task[t].todo /\ r.cur \in {task[t].cur, NoCopy}
    /\ r.sigs \subseteq task[t].sigs
    /\ r.pc \in {"sig", "save", "update", "dispatch"} => r.cur = task[t].cur

LEMMA FewerCopies ==
    ASSUME IInv, NEW t \in Slots, NEW r, Fewer(t, r)
    PROVE  /\ task' \in [Slots -> Task] /\ task'[t] = r
           /\ \A u \in Slots \ {t} : task'[u] = task[u]
           /\ OneCopyInScan'
           /\ UNCHANGED refs => \A u \in Slots : \A c \in Copies(u)' : c.ref <= refs'[c.q]
           /\ contended' = contended => OneScan'
<1>1. /\ task' \in [Slots -> Task] /\ task'[t] = r
      /\ \A u \in Slots \ {t} : task'[u] = task[u]
  BY SlotStep DEF IInv, Fewer
<1>2. \A u \in Slots : Copies(u)' \subseteq Copies(u)
  BY <1>1 DEF Copies, Fewer
<1>3. \A u \in Slots : Copied(u)' \subseteq Copied(u)
  BY <1>2 DEF Copied, Copies
<1>4. OneCopyInScan'
  <2>1. \A u \in Slots : task'[u].cur \notin task'[u].todo
    BY <1>1, NullsAreNone DEF IInv, TypeOK, OneCopyInScan, Fewer, Task
  <2> QED BY <1>2, <2>1 DEF IInv, OneCopyInScan
<1>5. UNCHANGED refs => \A u \in Slots : \A c \in Copies(u)' : c.ref <= refs'[c.q]
  BY <1>2 DEF IInv, RefsInOrder
<1>6. contended' = contended => OneScan'
  BY <1>3 DEF IInv, OneScan
<1> QED BY <1>1, <1>4, <1>5, <1>6

\* The insert of a payment, by a scan that goes on to the update of the QR, or
\* to the next payment if its QR was handled.
LEMMA InsertInv ==
    ASSUME IInv, NEW t \in Slots, NEW r, Fewer(t, r),
           task[t].pc = "save", record[Current(t)] = NoTransaction,
           record' = [record EXCEPT ![Current(t)] =
                         [q |-> task[t].cur.q, ref |-> task[t].cur.ref,
                          amount |-> task[t].cur.amount]],
           UNCHANGED <<qr, older, refs, updating, chain, sent, history>>,
           r.cur # NoCopy => r.handled = task[t].handled,
           r.cur = NoCopy => ~r.handled,
           \/ /\ task[t].handled /\ r.pc \in {"sig", "next", "idle"}
              /\ ScanKnows(t)'
           \/ /\ ~task[t].handled /\ r.pc = "update" /\ r.sigs = task[t].sigs
    PROVE  IInv'
<1> DEFINE s == Current(t)
           c == task[t].cur
<1>1. /\ task' \in [Slots -> Task] /\ task'[t] = r
      /\ \A u \in Slots \ {t} : task'[u] = task[u]
      /\ OneCopyInScan' /\ OneScan'
      /\ \A u \in Slots : \A d \in Copies(u)' : d.ref <= refs'[d.q]
  BY FewerCopies DEF history
<1>2. /\ c \in Copy /\ c.q \in Qrs /\ c # NoCopy
      /\ s \in Signatures /\ s \in DOMAIN chain
      /\ chain[s].q = c.q /\ chain[s].ref = c.ref
      /\ Valid(chain[s], c.amount)
  BY InHand DEF IInv, ScanKnows
<1>3. /\ record \in [Signatures -> Transaction \cup {NoTransaction}]
      /\ [q |-> c.q, ref |-> c.ref, amount |-> c.amount] \in Transaction
  BY <1>2 DEF IInv, TypeOK, Copy, Transaction
<1>4. /\ record'[s] = [q |-> c.q, ref |-> c.ref, amount |-> c.amount]
      /\ record' \in [Signatures -> Transaction \cup {NoTransaction}]
      /\ \A x \in Signatures \ {s} : record'[x] = record[x]
  BY <1>2, <1>3
<1>5. Grows
  BY <1>2, <1>4, NullsAreNone DEF Grows, history
<1>6. TypeOK'
  BY <1>1, <1>4 DEF IInv, TypeOK, history, Row, Payment, Update
<1>7. r.pc = "update" => Current(t)' = s
  BY <1>1 DEF Current
<1>8. ScanKnows(t)'
  <2>1. CASE r.pc = "update" /\ r.sigs = task[t].sigs
    <3>1. r.cur = c /\ Current(t)' = s
      BY <2>1, <1>7 DEF Fewer
    <3>2. \A x \in task[t].sigs : x \in DOMAIN chain /\ chain[x].q = c.q /\ chain[x].ref = c.ref
      BY DEF IInv, ScanKnows
    <3>3. task[t].sigs # {}
      BY DEF IInv, ScanKnows
    <3> QED BY <1>1, <1>2, <1>4, <2>1, <3>1, <3>2, <3>3 DEF ScanKnows, Valid
  <2> QED BY <2>1
<1>9. \A u \in Slots : ScanKnows(u)'
  BY <1>1, <1>5, <1>8, KnowsKept
<1>10. RecordsTruthful'
  BY <1>2, <1>4 DEF IInv, RecordsTruthful, Valid
<1>11. PaidIsRecorded'
  <2>1. \A q \in Qrs : qr[q].paid # NoSignature => qr[q].paid \in Signatures
    BY DEF IInv, TypeOK, Row
  <2> QED BY <1>5, <2>1 DEF IInv, PaidIsRecorded, Grows, history
<1>12. RefsInOrder'
  BY <1>1 DEF IInv, RefsInOrder, history
<1>13. AnnouncedRecorded'
  <2>1. CASE r.pc # "update"
    <3>1. ~Announcing(t)'
      BY <1>1, <2>1 DEF Announcing
    <3> QED BY <1>1, <1>5, <3>1, AnnouncedKept DEF history, IInv, AnnouncedRecorded
  <2>2. CASE r.pc = "update"
    <3>1. \A e \in sent : /\ e.s \in DOMAIN chain /\ chain[e.s].q = e.q
                          /\ chain[e.s].ref = e.ref
                          /\ e.q \notin removed => record'[e.s].q = e.q
      BY <1>5 DEF IInv, TypeOK, AnnouncedRecorded, Grows, history
    <3>2. c.q \notin removed => \A e \in sent : e.s # s
      BY <1>2, NullsAreNone DEF IInv, TypeOK, AnnouncedRecorded
    <3>3. ASSUME NEW u \in Slots \ {t}, Announcing(u)', c.q \notin removed
          PROVE  Current(u)' # s
      <4>1. Announcing(u) /\ Current(u)' = Current(u) /\ ScanKnows(u)
        BY <1>1, <3>3 DEF Announcing, Current, IInv
      <4>2. task[u].cur.q \in Qrs /\ chain[Current(u)].q = task[u].cur.q
        BY <4>1, InHand DEF Announcing
      <4>3. task[u].cur.q \notin removed => record[Current(u)].q = task[u].cur.q
        BY <4>1 DEF ScanKnows, Announcing
      <4> QED BY <1>2, <3>3, <4>1, <4>2, <4>3, NullsAreNone
    <3>4. ASSUME NEW u \in Slots, Announcing(u)', task'[u].cur.q \notin removed
          PROVE  /\ \A e \in sent : e.s # Current(u)'
                 /\ \A v \in Slots \ {u} :
                       Announcing(v)' => Current(v)' # Current(u)'
      <4>1. CASE u = t
        BY <1>1, <1>7, <2>2, <3>2, <3>3, <3>4, <4>1 DEF Fewer
      <4>2. CASE u # t
        <5>1. Announcing(u) /\ task[u].cur.q \notin removed
          BY <1>1, <3>4, <4>2 DEF Announcing
        <5>2. \A v \in Slots \ {t} : Current(v)' = Current(v) /\ (Announcing(v)' <=> Announcing(v))
          BY <1>1 DEF Announcing, Current
        <5>3. /\ \A e \in sent : e.s # Current(u)
              /\ \A v \in Slots \ {u} : Announcing(v) => Current(v) # Current(u)
          BY <5>1 DEF IInv, AnnouncedRecorded
        <5>4. Current(u) # s
          <6>1. record[Current(u)].q = task[u].cur.q /\ task[u].cur.q \in Qrs
            BY <5>1, InHand DEF IInv, ScanKnows, Announcing
          <6> QED BY <6>1, NullsAreNone
        <5> QED BY <1>7, <2>2, <4>2, <5>2, <5>3, <5>4
      <4> QED BY <4>1, <4>2
    <3> QED BY <3>1, <3>4 DEF AnnouncedRecorded, history, IInv
  <2> QED BY <2>1, <2>2
<1>14. \A q \in Qrs : Told(q) => Told(q)'
  <2>1. \A u \in Slots : Announcing(u) => Announcing(u)' /\ task'[u].cur = task[u].cur
    BY <1>1 DEF Announcing
  <2> QED BY <1>5, <2>1, ToldKept DEF history
<1>15. FirstPaymentTold'
  <2> SUFFICES ASSUME NEW q \in Qrs \ removed, RecordedNow(q)'
               PROVE  Told(q)'
    BY DEF FirstPaymentTold, history
  <2>1. CASE RecordedNow(q)
    BY <1>14, <2>1 DEF IInv, FirstPaymentTold
  <2>2. CASE ~RecordedNow(q)
    <3>1. c.q = q /\ c.ref = qr[q].ref
      BY <1>4, <2>2 DEF RecordedNow
    <3>2. CASE task[t].handled
      BY <1>14, <3>1, <3>2 DEF IInv, TakenIsTold, TakenForTold
    <3>3. CASE ~task[t].handled
      <4>1. Announcing(t)' /\ task'[t].cur = c
        BY <1>1, <3>3 DEF Announcing, Fewer
      <4> QED BY <3>1, <4>1 DEF Told
    <3> QED BY <3>2, <3>3
  <2> QED BY <2>1, <2>2
<1>16. TakenIsTold'
  <2>1. \A q \in Qrs : TakenForTold(q)' => TakenForTold(q)
    <3> SUFFICES ASSUME NEW q \in Qrs, TakenForTold(q)'
                 PROVE  TakenForTold(q)
      OBVIOUS
    <3>1. \A u \in Slots : task'[u].todo = task[u].todo
      BY <1>1 DEF Fewer
    <3>2. \A u \in Slots : task'[u].cur.q = q /\ task'[u].handled =>
                              task[u].cur = task'[u].cur /\ task[u].handled
      BY <1>1, NullsAreNone DEF Fewer
    <3> QED BY <3>1, <3>2 DEF TakenForTold
  <2> QED BY <1>14, <2>1 DEF IInv, TakenIsTold, history
<1>17. AnnouncedOnce' /\ MarkedBeforeDispatch'
  BY <1>1 DEF IInv, AnnouncedOnce, MarkedBeforeDispatch, SpentRow, history
<1>18. SentIsSpent'
  <2> SUFFICES ASSUME NEW e \in sent, e.q \notin contended
               PROVE  SpentRow(e.q, e.ref)' /\ \A u \in Slots : SpentBy(u, e)'
    BY DEF SentIsSpent, history
  <2>1. SpentRow(e.q, e.ref) /\ \A u \in Slots : SpentBy(u, e)
    BY DEF IInv, SentIsSpent
  <2>2. \A u \in Slots \ {t} : SpentBy(u, e)'
    BY <1>1, <2>1 DEF SpentBy, Announcing
  <2>3. SpentBy(t, e)'
    <3>1. e.q \in Qrs
      BY DEF IInv, TypeOK
    <3> QED BY <1>1, <2>1, <3>1, NullsAreNone DEF SpentBy, Announcing, Fewer
  <2> QED BY <2>1, <2>2, <2>3 DEF SpentRow
<1> QED BY <1>1, <1>6, <1>9, <1>10, <1>11, <1>12, <1>13, <1>15, <1>16, <1>17, <1>18 DEF IInv

LEMMA LoopIsFewer ==
    ASSUME IInv, NEW t \in Slots,
           task[t].pc \in {"save", "update", "dispatch"},
           NEW handled, NEW r \in Task, task' = [task EXCEPT ![t] = r],
           GoneOn(r, task[t].cur, task[t].todo, Others(t), handled),
           UNCHANGED chain
    PROVE  Fewer(t, r) /\ ScanKnows(t)'
<1>1. Fewer(t, r)
  BY InHand DEF Fewer, GoneOn
<1>2. task'[t] = r
  BY SlotStep DEF IInv
<1>3. /\ task[t].cur \in Copy
      /\ \A s \in Others(t) : /\ s \in DOMAIN chain
                              /\ chain[s].q = task[t].cur.q
                              /\ chain[s].ref = task[t].cur.ref
  BY InHand DEF IInv, ScanKnows
<1>4. ScanKnows(t)'
  BY <1>2, <1>3 DEF ScanKnows, GoneOn
<1> QED BY <1>1, <1>4

LEMMA SaveTransactionInv ==
    ASSUME IInv, NEW t \in Slots, SaveTransaction(t)
    PROVE  IInv'
<1>1. task[t].pc = "save" /\ task[t].handled \in BOOLEAN /\ TRUE \in BOOLEAN
  BY DEF SaveTransaction, IInv, TypeOK, Task
<1>2. UNCHANGED <<qr, older, refs, updating, chain, sent, history>>
  BY DEF SaveTransaction
<1>3. CASE record[Current(t)] # NoTransaction
  <2>1. NextSignature(t, Others(t), task[t].handled) /\ UNCHANGED record
    BY <1>3 DEF SaveTransaction
  <2>2. task[t].cur \notin task[t].todo
    BY DEF IInv, OneCopyInScan
  <2>3. \A s \in Others(t) : /\ s \in DOMAIN chain
                             /\ chain[s].q = task[t].cur.q
                             /\ chain[s].ref = task[t].cur.ref
    BY <1>1, InHand DEF IInv, ScanKnows
  <2> QED BY <1>1, <1>2, <2>1, <2>2, <2>3, InHand, GoOnInv
          DEF NextSignature, history, Announcing
<1>4. CASE record[Current(t)] = NoTransaction
  <2>1. record' = [record EXCEPT ![Current(t)] =
                      [q |-> task[t].cur.q, ref |-> task[t].cur.ref,
                       amount |-> task[t].cur.amount]]
    BY <1>4 DEF SaveTransaction
  <2>2. CASE task[t].handled
    <3>1. NextSignature(t, Others(t), TRUE)
      BY <1>4, <2>2 DEF SaveTransaction
    <3>2. PICK r \in Task :
             /\ task' = [task EXCEPT ![t] = r]
             /\ GoneOn(r, task[t].cur, task[t].todo, Others(t), TRUE)
      BY <1>1, <3>1, NextSignatureTask
    <3>3. Fewer(t, r) /\ ScanKnows(t)'
      BY <1>1, <1>2, <3>2, LoopIsFewer
    <3>4. /\ r.cur # NoCopy => r.handled = task[t].handled
          /\ r.cur = NoCopy => ~r.handled
          /\ r.pc \in {"sig", "next", "idle"}
      <4>1. task[t].cur # NoCopy
        BY <1>1, InHand
      <4>2. task[t].handled = TRUE
        BY <1>1, <2>2
      <4>3. CASE Others(t) = {}
        BY <3>2, <4>3 DEF GoneOn
      <4>4. CASE Others(t) # {}
        BY <3>2, <4>1, <4>2, <4>4 DEF GoneOn
      <4> QED BY <4>3, <4>4
    <3> QED BY <1>1, <1>2, <1>4, <2>1, <2>2, <3>3, <3>4, InsertInv
  <2>3. CASE ~task[t].handled
    <3> DEFINE r == [pc |-> "update", cur |-> task[t].cur, todo |-> task[t].todo,
                     sigs |-> task[t].sigs, handled |-> task[t].handled]
    <3>1. GoTo(t, "update")
      BY <1>4, <2>3 DEF SaveTransaction
    <3>2. r \in Task /\ task' = [task EXCEPT ![t] = r]
      BY <3>1, GoToTask
    <3>3. /\ r.pc = "update" /\ r.cur = task[t].cur /\ r.todo = task[t].todo
          /\ r.sigs = task[t].sigs /\ r.handled = task[t].handled
      OBVIOUS
    <3> HIDE DEF r
    <3>4. Fewer(t, r)
      BY <3>2, <3>3 DEF Fewer
    <3> QED BY <1>1, <1>2, <1>4, <2>1, <2>3, <3>3, <3>4, InHand, InsertInv
  <2> QED BY <2>2, <2>3
<1> QED BY <1>3, <1>4

LEMMA TouchKeepsType ==
    ASSUME TypeOK, NEW q \in Qrs, Touch(q)
    PROVE  older' \subseteq Qrs \X Qrs
  BY DEF TypeOK, Touch

\* The update of a QR that is still there, about to announce the payment.
LEMMA MarkInv ==
    ASSUME IInv, NEW t \in Slots, UpdateQr(t), qr[task[t].cur.q].present
    PROVE  IInv'
<1>0. PICK q \in Qrs : q = task[t].cur.q
  BY InHand DEF UpdateQr
<1> USE <1>0
<1> DEFINE r == [pc |-> "dispatch", cur |-> task[t].cur, todo |-> task[t].todo,
                 sigs |-> task[t].sigs, handled |-> TRUE]
<1>1. /\ task[t].pc = "update" /\ Announcing(t)
      /\ qr' = [qr EXCEPT ![q].paid = Current(t)]
      /\ Touch(q)
      /\ task' = [task EXCEPT ![t].pc = "dispatch", ![t].handled = TRUE]
      /\ overtaken' = IF task[t].cur.ref = qr[q].ref THEN overtaken
                      ELSE overtaken \cup {q}
      /\ UNCHANGED <<refs, updating, chain, record, sent, removed, missed,
                     contended>>
  BY DEF UpdateQr, Announcing
<1>2. /\ task[t].cur \in Copy /\ q \in Qrs /\ task[t].cur # NoCopy
      /\ Current(t) \in Signatures /\ Current(t) # NoSignature
  BY <1>1, InHand, NullsAreNone
<1>3. task' \in [Slots -> Task] /\ task'[t] = r
      /\ \A u \in Slots \ {t} : task'[u] = task[u]
  <2>1. task \in [Slots -> Task] /\ task[t] \in Task
    BY DEF IInv, TypeOK
  <2>2. r \in Task
    BY <2>1 DEF Task
  <2>3. task'[t] = [task[t] EXCEPT !.pc = "dispatch", !.handled = TRUE]
    BY <1>1, <2>1
  <2>4. task'[t] = r
    BY <2>1, <2>3 DEF Task
  <2>5. /\ task' \in [Slots -> Task]
        /\ \A u \in Slots \ {t} : task'[u] = task[u]
    BY <1>1, <2>1, <2>2, <2>4
  <2> QED BY <2>4, <2>5
<1>4. task' = [task EXCEPT ![t] = r]
  BY <1>3 DEF IInv, TypeOK
<1>5. /\ task'[t].pc = "dispatch" /\ task'[t].cur = task[t].cur
      /\ task'[t].todo = task[t].todo /\ task'[t].sigs = task[t].sigs
      /\ task'[t].handled = TRUE
  BY <1>3
<1>6. r \in Task
  BY <1>3
<1> HIDE DEF r
<1>7. Fewer(t, r)
  BY <1>3, <1>4, <1>5, <1>6 DEF Fewer
<1>8. /\ OneCopyInScan' /\ OneScan'
      /\ \A u \in Slots : \A d \in Copies(u)' : d.ref <= refs'[d.q]
  BY <1>1, <1>7, FewerCopies
<1>9. /\ qr' \in [Qrs -> Row]
      /\ qr'[q].present = qr[q].present /\ qr'[q].ref = qr[q].ref
      /\ qr'[q].paid = Current(t)
      /\ \A p \in Qrs \ {q} : qr'[p] = qr[p]
  <2>1. qr \in [Qrs -> Row] /\ qr[q] \in Row
    BY DEF IInv, TypeOK
  <2>2. /\ qr'[q] = [qr[q] EXCEPT !.paid = Current(t)]
        /\ \A p \in Qrs \ {q} : qr'[p] = qr[p]
    BY <1>1, <2>1
  <2>3. /\ qr'[q] \in Row /\ qr'[q].present = qr[q].present
        /\ qr'[q].ref = qr[q].ref /\ qr'[q].paid = Current(t)
    BY <1>2, <2>1, <2>2 DEF Row
  <2>4. qr' \in [Qrs -> Row]
    BY <1>1, <2>1, <2>2, <2>3
  <2> QED BY <2>2, <2>3, <2>4
<1>10. \A p \in Qrs : /\ qr'[p].ref = qr[p].ref
                      /\ qr'[p].present = qr[p].present
                      /\ qr[p].paid # NoSignature => qr'[p].paid # NoSignature
  BY <1>2, <1>9
<1>11. TypeOK'
  BY <1>1, <1>2, <1>3, <1>9, TouchKeepsType DEF IInv, TypeOK
<1>12. Grows
  BY <1>1, NothingChanges
<1>13. Current(t)' = Current(t)
  BY <1>5 DEF Current
<1>14. \A u \in Slots : ScanKnows(u)'
  <2>1. ScanKnows(t)'
    BY <1>1, <1>3, <1>5, <1>13 DEF IInv, ScanKnows, Valid
  <2> QED BY <1>3, <1>12, <2>1, KnowsKept
<1>15. RecordsTruthful'
  BY <1>1 DEF IInv, RecordsTruthful, Valid
<1>16. PaidIsRecorded'
  <2>1. q \notin removed => record[Current(t)].q = q
    BY <1>1 DEF IInv, ScanKnows
  <2> QED BY <1>1, <1>9, <2>1 DEF IInv, PaidIsRecorded
<1>17. RefsInOrder'
  <2>1. \A p \in Qrs : IF qr'[p].present
                       THEN qr'[p].ref = refs[p] /\ refs[p] > 0
                       ELSE qr'[p] = AbsentRow /\ (p \in removed \/ refs[p] = 0)
    <3>1. \A p \in Qrs : IF qr[p].present
                         THEN qr[p].ref = refs[p] /\ refs[p] > 0
                         ELSE qr[p] = AbsentRow /\ (p \in removed \/ refs[p] = 0)
      BY DEF IInv, RefsInOrder
    <3>2. qr[q].present /\ \A p \in Qrs : ~qr[p].present => qr'[p] = qr[p]
      BY <1>9
    <3> QED BY <1>10, <3>1, <3>2
  <2>2. \A s \in DOMAIN chain : chain[s].ref <= refs[chain[s].q]
    BY DEF IInv, RefsInOrder
  <2>3. AbsentRow' = AbsentRow
    BY DEF AbsentRow
  <2> QED BY <1>1, <1>8, <2>1, <2>2, <2>3 DEF RefsInOrder
<1>18. AnnouncedRecorded'
  BY <1>1, <1>3, <1>5, <1>12, <1>13, AnnouncedKept DEF IInv, AnnouncedRecorded
<1>19. \A p \in Qrs : Told(p) => Told(p)'
  <2>1. \A u \in Slots : Announcing(u) => Announcing(u)' /\ task'[u].cur = task[u].cur
    BY <1>3, <1>5 DEF Announcing
  <2> QED BY <1>1, <1>10, <1>12, <2>1, ToldKept
<1>20. Told(q)'
  <2>1. CASE task[t].cur.ref = qr[q].ref
    <3>1. Announcing(t)' /\ task'[t].cur.q = q /\ task'[t].cur.ref = qr'[q].ref
      BY <1>5, <1>9, <2>1 DEF Announcing
    <3> QED BY <3>1 DEF Told
  <2>2. CASE task[t].cur.ref # qr[q].ref
    BY <1>1, <2>2 DEF Told
  <2> QED BY <2>1, <2>2
<1>21. FirstPaymentTold'
  BY <1>1, <1>10, <1>19 DEF IInv, FirstPaymentTold, RecordedNow
<1>22. TakenIsTold'
  <2>1. \A p \in Qrs \ {q} : TakenForTold(p)' => TakenForTold(p)
    BY <1>3, <1>5, <1>9 DEF TakenForTold
  <2> QED BY <1>1, <1>19, <1>20, <2>1 DEF IInv, TakenIsTold
<1>23. AnnouncedOnce'
  BY <1>1 DEF IInv, AnnouncedOnce
<1>24. MarkedBeforeDispatch'
  <2>1. \A u \in Slots : task'[u].pc = "dispatch" => task'[u].cur.q \in Qrs
    BY <1>2, <1>3, <1>5, InHand
  <2>2. ASSUME NEW u \in Slots, u # t, task'[u].pc = "dispatch",
               task'[u].cur.q \notin contended
        PROVE  SpentRow(task[u].cur.q, task[u].cur.ref) /\ task'[u] = task[u]
    BY <1>3, <2>2 DEF IInv, MarkedBeforeDispatch
  <2>3. ASSUME NEW u \in Slots, task'[u].pc = "dispatch",
               task'[u].cur.q \notin contended
        PROVE  qr'[task'[u].cur.q].ref = task'[u].cur.ref =>
                   qr'[task'[u].cur.q].paid # NoSignature
    <3>1. CASE u = t
      BY <1>2, <1>5, <1>9, <3>1
    <3>2. CASE u # t
      BY <1>10, <2>1, <2>2, <2>3, <3>2 DEF SpentRow
    <3> QED BY <3>1, <3>2
  <2> QED BY <1>1, <2>3 DEF MarkedBeforeDispatch, SpentRow
<1>25. SentIsSpent'
  <2> SUFFICES ASSUME NEW e \in sent, e.q \notin contended
               PROVE  SpentRow(e.q, e.ref)' /\ \A u \in Slots : SpentBy(u, e)'
    BY <1>1 DEF SentIsSpent
  <2>1. SpentRow(e.q, e.ref) /\ \A u \in Slots : SpentBy(u, e)
    BY DEF IInv, SentIsSpent
  <2>2. e.q \in Qrs
    BY DEF IInv, TypeOK
  <2>3. \A u \in Slots \ {t} : SpentBy(u, e)'
    BY <1>3, <2>1 DEF SpentBy, Announcing
  <2>4. SpentBy(t, e)'
    BY <1>1, <1>5, <2>1 DEF SpentBy
  <2> QED BY <1>10, <2>1, <2>2, <2>3, <2>4 DEF SpentRow
<1> QED BY <1>8, <1>11, <1>14, <1>15, <1>16, <1>17, <1>18, <1>21, <1>22, <1>23, <1>24, <1>25 DEF IInv

\* The update of a QR that was removed: its payment is announced to nobody.
LEMMA UnmarkedInv ==
    ASSUME IInv, NEW t \in Slots, UpdateQr(t), ~qr[task[t].cur.q].present
    PROVE  IInv'
<1>1. /\ task[t].pc = "update" /\ Announcing(t)
      /\ NextSignature(t, Others(t), FALSE)
      /\ UNCHANGED <<qr, older, record, refs, updating, chain, sent, removed,
                     missed, overtaken, contended>>
  BY DEF UpdateQr, Announcing
<1>2. PICK r \in Task :
          /\ task' = [task EXCEPT ![t] = r]
          /\ GoneOn(r, task[t].cur, task[t].todo, Others(t), FALSE)
  BY <1>1, NextSignatureTask
<1>3. Fewer(t, r) /\ ScanKnows(t)'
  BY <1>1, <1>2, LoopIsFewer
<1>4. /\ task' \in [Slots -> Task] /\ task'[t] = r
      /\ \A u \in Slots \ {t} : task'[u] = task[u]
      /\ OneCopyInScan' /\ OneScan'
      /\ \A u \in Slots : \A d \in Copies(u)' : d.ref <= refs'[d.q]
  BY <1>1, <1>3, FewerCopies
<1>5. ~Announcing(t)' /\ r.pc # "dispatch" /\ ~r.handled
  BY <1>2, <1>4 DEF Announcing, GoneOn
<1>6. task[t].cur.q \in removed
  <2>1. task[t].cur.ref <= refs[task[t].cur.q] /\ task[t].cur.ref \in 1..MaxRefs
        /\ task[t].cur.q \in Qrs
    BY <1>1, InHand DEF IInv, RefsInOrder
  <2>2. refs[task[t].cur.q] # 0
    BY <2>1, BoundsAssumption
  <2> QED BY <2>1, <2>2 DEF IInv, RefsInOrder
<1>7. Grows
  BY <1>1, NothingChanges
<1>8. TypeOK'
  BY <1>1, <1>4 DEF IInv, TypeOK
<1>9. \A u \in Slots : ScanKnows(u)'
  BY <1>3, <1>4, <1>7, KnowsKept
<1>10. RecordsTruthful' /\ PaidIsRecorded' /\ AnnouncedOnce'
  BY <1>1 DEF IInv, RecordsTruthful, PaidIsRecorded, Valid, AnnouncedOnce
<1>11. RefsInOrder'
  BY <1>1, <1>4 DEF IInv, RefsInOrder
<1>12. AnnouncedRecorded'
  BY <1>1, <1>4, <1>5, <1>7, AnnouncedKept DEF IInv, AnnouncedRecorded
<1>13. \A q \in Qrs \ removed : Told(q) => Told(q)'
  <2>1. \A u \in Slots : Announcing(u) /\ u # t =>
                            Announcing(u)' /\ task'[u].cur = task[u].cur
    BY <1>4 DEF Announcing
  <2> QED BY <1>1, <1>6, <1>7, <2>1, ToldKept
<1>14. FirstPaymentTold'
  BY <1>1, <1>13 DEF IInv, FirstPaymentTold, RecordedNow
<1>15. TakenIsTold'
  <2>1. \A q \in Qrs : TakenForTold(q)' => TakenForTold(q)
    BY <1>1, <1>3, <1>4, <1>5 DEF TakenForTold, Fewer
  <2> QED BY <1>1, <1>13, <2>1 DEF IInv, TakenIsTold
<1>16. MarkedBeforeDispatch'
  BY <1>1, <1>4, <1>5 DEF IInv, MarkedBeforeDispatch, SpentRow
<1>17. SentIsSpent'
  <2> SUFFICES ASSUME NEW e \in sent, e.q \notin contended
               PROVE  SpentRow(e.q, e.ref)' /\ \A u \in Slots : SpentBy(u, e)'
    BY <1>1 DEF SentIsSpent
  <2>1. SpentRow(e.q, e.ref) /\ \A u \in Slots : SpentBy(u, e)
    BY DEF IInv, SentIsSpent
  <2>2. \A u \in Slots \ {t} : SpentBy(u, e)'
    BY <1>4, <2>1 DEF SpentBy, Announcing
  <2>3. SpentBy(t, e)'
    <3>1. e.q \in Qrs
      BY DEF IInv, TypeOK
    <3> QED BY <1>1, <1>3, <1>4, <2>1, <3>1, NullsAreNone DEF SpentBy, Fewer
  <2> QED BY <1>1, <2>1, <2>2, <2>3 DEF SpentRow
<1> QED BY <1>4, <1>8, <1>9, <1>10, <1>11, <1>12, <1>14, <1>15, <1>16, <1>17 DEF IInv

LEMMA DispatchInv ==
    ASSUME IInv, NEW t \in Slots, Dispatch(t)
    PROVE  IInv'
<1>0. PICK s, c : s = Current(t) /\ c = task[t].cur
  OBVIOUS
<1> USE <1>0
<1> DEFINE a == [q |-> c.q, ref |-> c.ref, s |-> s]
<1>1. /\ task[t].pc = "dispatch" /\ Announcing(t)
      /\ sent' = sent \cup {a}
      /\ NextSignature(t, Others(t), TRUE)
      /\ UNCHANGED <<qr, older, record, refs, updating, chain, removed,
                     missed, overtaken, contended>>
  BY DEF Dispatch, Announcing, tables, history
<1>2. PICK r \in Task :
          /\ task' = [task EXCEPT ![t] = r]
          /\ GoneOn(r, c, task[t].todo, Others(t), TRUE)
  BY <1>1, NextSignatureTask
<1>3. Fewer(t, r) /\ ScanKnows(t)'
  BY <1>1, <1>2, LoopIsFewer
<1>4. /\ task' \in [Slots -> Task] /\ task'[t] = r
      /\ \A u \in Slots \ {t} : task'[u] = task[u]
      /\ OneCopyInScan' /\ OneScan'
      /\ \A u \in Slots : \A d \in Copies(u)' : d.ref <= refs'[d.q]
  BY <1>1, <1>3, FewerCopies
<1>5. /\ c \in Copy /\ c.q \in Qrs /\ c.ref \in 1..MaxRefs /\ c # NoCopy
      /\ s \in Signatures /\ s \in DOMAIN chain
      /\ chain[s].q = c.q /\ chain[s].ref = c.ref
  BY <1>1, InHand
<1>6. /\ ~Announcing(t)' /\ r.pc # "dispatch"
      /\ r.cur # NoCopy => r.cur = c /\ r.handled
  BY <1>2, <1>3, <1>4, <1>5 DEF Announcing, GoneOn, Fewer
<1>7. Grows
  BY <1>1, NothingChanges
<1>8. TypeOK'
  BY <1>1, <1>4, <1>5 DEF IInv, TypeOK
<1>9. \A u \in Slots : ScanKnows(u)'
  BY <1>3, <1>4, <1>7, KnowsKept
<1>10. RecordsTruthful' /\ PaidIsRecorded'
  BY <1>1 DEF IInv, RecordsTruthful, PaidIsRecorded, Valid
<1>11. RefsInOrder'
  BY <1>1, <1>4 DEF IInv, RefsInOrder
<1> DEFINE KeepAnnouncing == \A u \in Slots : Announcing(u)' =>
                         /\ u # t /\ Announcing(u) /\ Current(u)' = Current(u)
                         /\ task'[u].cur = task[u].cur
<1>12. KeepAnnouncing
  BY <1>4, <1>6 DEF Announcing, Current
<1>13. AnnouncedRecorded'
  <2>1. \A e \in sent' : /\ e.s \in DOMAIN chain /\ chain[e.s].q = e.q
                         /\ chain[e.s].ref = e.ref
                         /\ e.q \notin removed => record[e.s].q = e.q
    <3>1. c.q \notin removed => record[s].q = c.q
      BY <1>1 DEF IInv, ScanKnows
    <3> QED BY <1>1, <1>5, <3>1 DEF IInv, AnnouncedRecorded
  <2>2. ASSUME NEW u \in Slots, Announcing(u)', task'[u].cur.q \notin removed
        PROVE  /\ \A e \in sent' : e.s # Current(u)'
               /\ \A v \in Slots \ {u} : Announcing(v)' => Current(v)' # Current(u)'
    <3>1. /\ u # t /\ Announcing(u) /\ Current(u)' = Current(u)
          /\ task[u].cur.q \notin removed
      BY <1>12, <2>2
    <3>2. /\ \A e \in sent : e.s # Current(u)
          /\ \A v \in Slots \ {u} : Announcing(v) => Current(v) # Current(u)
      BY <3>1 DEF IInv, AnnouncedRecorded
    <3> QED BY <1>1, <1>12, <3>1, <3>2
  <2> QED BY <1>1, <2>1, <2>2 DEF AnnouncedRecorded, IInv
<1>14. \A q \in Qrs : Told(q) => Told(q)'
  <2>1. \A u \in Slots : Announcing(u) /\ u # t =>
                            Announcing(u)' /\ task'[u].cur = task[u].cur
    BY <1>4 DEF Announcing
  <2>2. a \in sent' /\ a.q = c.q /\ a.ref = c.ref
    BY <1>1
  <2> HIDE DEF a
  <2> QED BY <1>1, <1>7, <2>1, <2>2, ToldKept
<1>15. FirstPaymentTold'
  BY <1>1, <1>14 DEF IInv, FirstPaymentTold, RecordedNow
<1>16. TakenIsTold'
  <2>1. ASSUME NEW q \in Qrs, TakenForTold(q)'
        PROVE  TakenForTold(q) \/ Told(q)'
    <3>1. CASE task'[t].cur.q = q /\ task'[t].cur.ref = qr[q].ref
      <4>1. a \in sent' /\ a.q = q /\ a.ref = qr'[q].ref
        BY <1>1, <1>4, <1>6, <3>1, NullsAreNone
      <4> HIDE DEF a
      <4> QED BY <4>1 DEF Told
    <3>2. CASE ~(task'[t].cur.q = q /\ task'[t].cur.ref = qr[q].ref)
      BY <1>1, <1>3, <1>4, <2>1, <3>2 DEF TakenForTold, Fewer
    <3> QED BY <3>1, <3>2
  <2> QED BY <1>1, <1>14, <2>1 DEF IInv, TakenIsTold
<1>17. \A e \in sent : e.q \notin contended => ~(c.q = e.q /\ c.ref = e.ref)
  BY <1>1 DEF IInv, SentIsSpent, SpentBy
<1>18. AnnouncedOnce'
  BY <1>1, <1>17 DEF IInv, AnnouncedOnce
<1>19. MarkedBeforeDispatch'
  BY <1>1, <1>4, <1>6 DEF IInv, MarkedBeforeDispatch, SpentRow
<1>20. SentIsSpent'
  <2>1. ASSUME NEW e \in sent, e.q \notin contended
        PROVE  SpentRow(e.q, e.ref)' /\ \A u \in Slots : SpentBy(u, e)'
    <3>1. SpentRow(e.q, e.ref) /\ \A u \in Slots : SpentBy(u, e)
      BY <2>1 DEF IInv, SentIsSpent
    <3>2. \A u \in Slots \ {t} : SpentBy(u, e)'
      BY <1>4, <3>1 DEF SpentBy, Announcing
    <3>3. SpentBy(t, e)'
      <4>1. e.q \in Qrs
        BY DEF IInv, TypeOK
      <4> QED BY <1>3, <1>4, <1>17, <2>1, <3>1, <4>1, NullsAreNone DEF SpentBy, Fewer
    <3> QED BY <1>1, <3>1, <3>2, <3>3 DEF SpentRow
  <2>2. ASSUME c.q \notin contended
        PROVE  SpentRow(c.q, c.ref) /\ \A u \in Slots : SpentBy(u, a)'
    <3>1. SpentRow(c.q, c.ref)
      BY <1>1, <2>2 DEF IInv, MarkedBeforeDispatch
    <3>2. c.q \in Copied(t)
      BY <1>5 DEF Copied
    <3>3. ASSUME NEW u \in Slots \ {t}
          PROVE  SpentBy(u, a)'
      <4>1. c.q \notin Copied(u)
        BY <1>5, <2>2, <3>2 DEF IInv, OneScan
      <4>2. /\ \A d \in task[u].todo : d.q # c.q
            /\ task[u].cur.q # c.q
        BY <1>5, <4>1, NullsAreNone DEF Copied
      <4> QED BY <1>4, <4>2 DEF SpentBy
    <3>4. SpentBy(t, a)'
      <4>1. \A d \in task[t].todo : d.q # c.q
        <5>1. c \in Copies(t) /\ c \notin task[t].todo
          BY <1>5 DEF Copies, IInv, OneCopyInScan
        <5>2. \A d \in task[t].todo : d \in Copies(t)
          BY DEF Copies
        <5> QED BY <5>1, <5>2 DEF IInv, OneCopyInScan
      <4> QED BY <1>3, <1>4, <1>5, <1>6, <4>1, NullsAreNone DEF SpentBy, Fewer
    <3> QED BY <3>1, <3>3, <3>4
  <2> QED BY <1>1, <2>1, <2>2 DEF SentIsSpent, SpentRow
<1> QED BY <1>4, <1>8, <1>9, <1>10, <1>11, <1>13, <1>15, <1>16, <1>18, <1>19, <1>20 DEF IInv

-----------------------------------------------------------------------------
(* Steps of the others.                                                    *)

\* While the scans stand still, what they hold does too.
LEMMA ScansStandStill ==
    ASSUME IInv, Grows, UNCHANGED <<task, sent, missed, contended>>
    PROVE  /\ \A t \in Slots : ScanKnows(t)'
           /\ \A t \in Slots : Copies(t)' = Copies(t) /\ (Announcing(t)' <=> Announcing(t))
           /\ OneCopyInScan' /\ AnnouncedRecorded' /\ AnnouncedOnce' /\ OneScan'
<1>1. \A t \in Slots : ScanKnows(t)'
  BY KnowsKept
<1>2. \A t \in Slots : /\ Copies(t)' = Copies(t) /\ Copied(t)' = Copied(t)
                       /\ Announcing(t)' <=> Announcing(t)
                       /\ Current(t)' = Current(t)
  BY DEF Copies, Copied, Announcing, Current
<1>3. OneCopyInScan' /\ AnnouncedOnce' /\ OneScan'
  BY <1>2 DEF IInv, OneCopyInScan, AnnouncedOnce, OneScan
<1>4. AnnouncedRecorded'
  <2>1. missed' \subseteq DOMAIN chain'
    BY DEF IInv, AnnouncedRecorded, Grows
  <2> QED BY <1>2, <2>1, AnnouncementsKept
<1> QED BY <1>1, <1>2, <1>3, <1>4

\* A QR gets a reference that no copy, payment or announcement has.
LEMMA NewReferenceInv ==
    ASSUME IInv, NEW q \in Qrs, NEW amount \in Amounts, refs[q] < MaxRefs,
           qr' = [qr EXCEPT ![q] = [present |-> TRUE, ref |-> refs[q] + 1,
                                    amount |-> amount, paid |-> NoSignature]],
           refs' = [refs EXCEPT ![q] = @ + 1], Touch(q),
           updating' \subseteq updating,
           overtaken \ {q} \subseteq overtaken', overtaken' \subseteq overtaken,
           UNCHANGED <<chain, record, task, sent, removed, missed, contended>>
    PROVE  IInv'
<1>1. /\ refs[q] \in Nat /\ refs[q] + 1 \in 1..MaxRefs
      /\ \A p \in Qrs : refs[p] \in Nat
  BY BoundsAssumption DEF IInv, TypeOK
<1>2. /\ qr' \in [Qrs -> Row] /\ refs' \in [Qrs -> 0..MaxRefs]
      /\ qr'[q] = [present |-> TRUE, ref |-> refs[q] + 1, amount |-> amount,
                   paid |-> NoSignature]
      /\ refs'[q] = refs[q] + 1
      /\ \A p \in Qrs \ {q} : qr'[p] = qr[p] /\ refs'[p] = refs[p]
  <2>1. [present |-> TRUE, ref |-> refs[q] + 1, amount |-> amount,
         paid |-> NoSignature] \in Row
    BY <1>1 DEF Row
  <2>2. qr \in [Qrs -> Row] /\ refs \in [Qrs -> 0..MaxRefs]
    BY DEF IInv, TypeOK
  <2> QED BY <1>1, <2>1, <2>2
<1>3. TypeOK'
  BY <1>2, TouchKeepsType DEF IInv, TypeOK
<1>4. Grows
  BY NothingChanges
<1>5. /\ \A t \in Slots : ScanKnows(t)'
      /\ \A t \in Slots : Copies(t)' = Copies(t) /\ (Announcing(t)' <=> Announcing(t))
      /\ OneCopyInScan' /\ AnnouncedRecorded' /\ AnnouncedOnce' /\ OneScan'
  BY <1>4, ScansStandStill
<1>6. RecordsTruthful'
  BY DEF IInv, RecordsTruthful, Valid
<1>7. PaidIsRecorded'
  BY <1>2 DEF IInv, PaidIsRecorded
<1>8. \A s \in DOMAIN chain : /\ chain[s].q \in Qrs /\ chain[s].ref \in Nat
                              /\ chain[s].ref <= refs[chain[s].q]
  BY ChainDomain DEF IInv, RefsInOrder, Payment
<1>9. \A t \in Slots : \A c \in Copies(t) : c \in Copy /\ c.ref <= refs[c.q]
  BY DEF IInv, TypeOK, Task, Copies, RefsInOrder
<1>10. RefsInOrder'
  <2>1. \A p \in Qrs : refs[p] <= refs'[p]
    BY <1>1, <1>2
  <2>2. \A s \in DOMAIN chain : chain[s].ref <= refs'[chain[s].q]
    <3>1. \A s \in DOMAIN chain : refs[chain[s].q] <= refs'[chain[s].q]
      BY <1>8, <2>1
    <3>2. \A s \in DOMAIN chain : refs[chain[s].q] \in Nat /\ refs'[chain[s].q] \in Nat
      BY <1>1, <1>2, <1>8
    <3> QED BY <1>8, <3>1, <3>2
  <2>3. ASSUME NEW t \in Slots, NEW c \in Copies(t)'
        PROVE  c.ref <= refs'[c.q]
    <3>1. c.q \in Qrs /\ c.ref \in Nat /\ c.ref <= refs[c.q]
      BY <1>5, <1>9 DEF Copy
    <3>2. refs[c.q] \in Nat /\ refs'[c.q] \in Nat /\ refs[c.q] <= refs'[c.q]
      BY <1>1, <1>2, <2>1, <3>1
    <3> QED BY <3>1, <3>2
  <2>4. \A p \in Qrs : IF qr'[p].present
                       THEN qr'[p].ref = refs'[p] /\ refs'[p] > 0
                       ELSE qr'[p] = AbsentRow /\ (p \in removed \/ refs'[p] = 0)
    <3>1. \A p \in Qrs \ {q} : IF qr[p].present
                       THEN qr[p].ref = refs[p] /\ refs[p] > 0
                       ELSE qr[p] = AbsentRow /\ (p \in removed \/ refs[p] = 0)
      BY DEF IInv, RefsInOrder
    <3> QED BY <1>1, <1>2, <3>1
  <2>5. AbsentRow' = AbsentRow
    BY DEF AbsentRow
  <2> QED BY <2>2, <2>3, <2>4, <2>5 DEF RefsInOrder
\* nothing has the new reference
<1>11. \A s \in DOMAIN chain : chain[s].q = q => chain[s].ref # refs[q] + 1
  BY <1>1, <1>8
<1>12. \A t \in Slots : \A c \in Copies(t) : c.q = q => c.ref # refs[q] + 1
  <2>1. \A t \in Slots : \A c \in Copies(t) : c.ref \in Nat
    BY <1>9 DEF Copy
  <2> QED BY <1>1, <1>9, <2>1
<1>13. \A e \in sent : e.q = q => e.ref # refs[q] + 1
  BY <1>11 DEF IInv, AnnouncedRecorded
<1>14. \A t \in Slots : task[t].cur.q \in Qrs => task[t].cur \in Copies(t)
  BY NullsAreNone DEF Copies
<1>15. \A p \in Qrs \ {q} : Told(p) => Told(p)'
  BY <1>2, <1>4, <1>5, ToldKept
<1>16. FirstPaymentTold'
  <2>1. ~RecordedNow(q)'
    <3>1. \A s \in Signatures : record[s].q = q => /\ s \in DOMAIN chain
                                                    /\ chain[s].q = q
                                                    /\ chain[s].ref = record[s].ref
      BY NullsAreNone DEF IInv, RecordsTruthful
    <3> QED BY <1>2, <1>11, <3>1 DEF RecordedNow
  <2>2. \A p \in Qrs \ {q} : RecordedNow(p)' => RecordedNow(p)
    BY <1>2 DEF RecordedNow
  <2> QED BY <1>15, <2>1, <2>2 DEF IInv, FirstPaymentTold
<1>17. TakenIsTold'
  <2>1. ~TakenForTold(q)'
    <3>1. \A t \in Slots : \A c \in task[t].todo : c.q = q => c.ref # refs[q] + 1
      BY <1>12 DEF Copies
    <3>2. \A t \in Slots : task[t].cur.q = q => task[t].cur.ref # refs[q] + 1
      BY <1>12, <1>14
    <3> QED BY <1>2, <3>1, <3>2 DEF TakenForTold
  <2>2. \A p \in Qrs \ {q} : TakenForTold(p)' => TakenForTold(p)
    BY <1>2 DEF TakenForTold
  <2> QED BY <1>15, <2>1, <2>2 DEF IInv, TakenIsTold
<1>18. MarkedBeforeDispatch'
  <2> SUFFICES ASSUME NEW t \in Slots, task[t].pc = "dispatch",
                      task[t].cur.q \notin contended
               PROVE  SpentRow(task[t].cur.q, task[t].cur.ref)'
    BY DEF MarkedBeforeDispatch
  <2>1. SpentRow(task[t].cur.q, task[t].cur.ref) /\ task[t].cur.q \in Qrs
    BY InHand DEF IInv, MarkedBeforeDispatch
  <2> QED BY <1>2, <1>12, <1>14, <2>1 DEF SpentRow
<1>19. SentIsSpent'
  <2> SUFFICES ASSUME NEW e \in sent, e.q \notin contended
               PROVE  SpentRow(e.q, e.ref)' /\ \A t \in Slots : SpentBy(t, e)'
    BY DEF SentIsSpent
  <2>1. /\ SpentRow(e.q, e.ref) /\ \A t \in Slots : SpentBy(t, e)
        /\ e.q \in Qrs
    BY DEF IInv, SentIsSpent, TypeOK
  <2>2. SpentRow(e.q, e.ref)'
    BY <1>2, <1>13, <2>1 DEF SpentRow
  <2> QED BY <1>5, <2>1, <2>2 DEF SpentBy
<1> QED BY <1>3, <1>5, <1>6, <1>7, <1>10, <1>16, <1>17, <1>18, <1>19 DEF IInv

LEMMA CreateQrInv ==
    ASSUME IInv, NEW q \in Qrs, NEW amount \in Amounts, CreateQr(q, amount)
    PROVE  IInv'
<1>1. refs[q] = 0 /\ refs[q] < MaxRefs /\ refs[q] + 1 = 1
  BY BoundsAssumption DEF CreateQr
<1>2. refs' = [refs EXCEPT ![q] = @ + 1]
  BY <1>1 DEF CreateQr
<1>3. qr' = [qr EXCEPT ![q] = [present |-> TRUE, ref |-> refs[q] + 1,
                               amount |-> amount, paid |-> NoSignature]]
  BY <1>1 DEF CreateQr
<1> QED BY <1>1, <1>2, <1>3, NewReferenceInv DEF CreateQr, history

LEMMA UpdateFinishInv ==
    ASSUME IInv, NEW u \in updating, UpdateFinish(u)
    PROVE  IInv'
<1>1. u.q \in Qrs /\ u.amount \in Amounts
  BY DEF IInv, TypeOK, Update
<1>2. PICK q \in Qrs, amount \in Amounts : q = u.q /\ amount = u.amount
  BY <1>1
<1>3. /\ qr' = [qr EXCEPT ![q] = [present |-> TRUE, ref |-> refs[q] + 1,
                                  amount |-> amount, paid |-> NoSignature]]
      /\ refs' = [refs EXCEPT ![q] = @ + 1] /\ Touch(q) /\ refs[q] < MaxRefs
      /\ overtaken' = overtaken \ {q} /\ updating' = updating \ {u}
      /\ UNCHANGED <<chain, record, task, sent, removed, missed, contended>>
  BY <1>2 DEF UpdateFinish
<1> QED BY <1>3, NewReferenceInv

LEMMA UpdateBeginInv ==
    ASSUME IInv, NEW q \in Qrs, NEW payment \in BOOLEAN, NEW amount \in Amounts,
           UpdateBegin(q, payment, amount)
    PROVE  IInv'
<1>1. /\ updating' \subseteq Update
      /\ UNCHANGED <<qr, older, refs, record, chain, task, sent, history>>
  BY DEF UpdateBegin, tables, IInv, TypeOK, Update
<1>2. Grows
  BY <1>1, NothingChanges DEF history
<1>3. TypeOK'
  BY <1>1 DEF IInv, TypeOK, history
<1>4. /\ \A t \in Slots : ScanKnows(t)'
      /\ OneCopyInScan' /\ AnnouncedRecorded' /\ AnnouncedOnce' /\ OneScan'
      /\ \A t \in Slots : Copies(t)' = Copies(t)
  BY <1>1, <1>2, ScansStandStill DEF history
<1>5. RecordsTruthful' /\ PaidIsRecorded' /\ RefsInOrder'
  BY <1>1, <1>4 DEF IInv, RecordsTruthful, PaidIsRecorded, RefsInOrder, Valid,
                    history
<1>6. /\ UNCHANGED <<qr, chain, record, task, sent, removed, missed, overtaken,
                     contended>>
  BY <1>1 DEF history
<1>7. \A p \in Qrs : /\ Told(p)' <=> Told(p)
                     /\ TakenForTold(p)' <=> TakenForTold(p)
                     /\ RecordedNow(p)' <=> RecordedNow(p)
  BY <1>6 DEF Told, TakenForTold, RecordedNow, Announcing
<1>8. FirstPaymentTold' /\ TakenIsTold'
  BY <1>6, <1>7 DEF IInv, FirstPaymentTold, TakenIsTold
<1>9. MarkedBeforeDispatch' /\ SentIsSpent'
  BY <1>6 DEF IInv, MarkedBeforeDispatch, SentIsSpent, SpentRow, SpentBy,
              Announcing
<1> QED BY <1>3, <1>4, <1>5, <1>8, <1>9 DEF IInv

\* A removal takes the row and its records away, and says so.
LEMMA RemoveQrInv ==
    ASSUME IInv, NEW q \in Qrs, RemoveQr(q)
    PROVE  IInv'
<1>1. /\ qr' = [qr EXCEPT ![q] = AbsentRow]
      /\ older' = {p \in older : p[1] # q /\ p[2] # q}
      /\ record' = [s \in Signatures |->
                       IF record[s].q = q THEN NoTransaction ELSE record[s]]
      /\ removed' = removed \cup {q}
      /\ UNCHANGED <<refs, updating, chain, task, sent, missed, overtaken,
                     contended>>
  BY DEF RemoveQr
<1>2. /\ qr' \in [Qrs -> Row] /\ qr'[q] = AbsentRow
      /\ \A p \in Qrs \ {q} : qr'[p] = qr[p]
  BY <1>1, BoundsAssumption DEF IInv, TypeOK, Row, AbsentRow, Amounts
<1>3. /\ record' \in [Signatures -> Transaction \cup {NoTransaction}]
      /\ \A s \in Signatures : record'[s] \in {record[s], NoTransaction}
      /\ \A s \in Signatures : record[s].q # q => record'[s] = record[s]
  BY <1>1 DEF IInv, TypeOK
<1>4. Grows
  BY <1>1, <1>3 DEF Grows
<1>5. TypeOK'
  BY <1>1, <1>2, <1>3 DEF IInv, TypeOK
<1>6. /\ \A t \in Slots : ScanKnows(t)'
      /\ \A t \in Slots : Copies(t)' = Copies(t) /\ (Announcing(t)' <=> Announcing(t))
      /\ OneCopyInScan' /\ AnnouncedRecorded' /\ AnnouncedOnce' /\ OneScan'
  BY <1>1, <1>4, ScansStandStill
<1>7. RecordsTruthful'
  <2>1. NoTransaction' = NoTransaction
    BY DEF NoTransaction
  <2> QED BY <1>1, <1>3, <2>1 DEF IInv, RecordsTruthful, Valid
<1>8. PaidIsRecorded'
  <2>1. \A p \in Qrs : qr[p].paid # NoSignature => qr[p].paid \in Signatures
    BY DEF IInv, TypeOK, Row
  <2> QED BY <1>1, <1>2, <1>3, <2>1 DEF IInv, PaidIsRecorded
<1>9. RefsInOrder'
  <2>1. AbsentRow' = AbsentRow /\ ~AbsentRow.present
    BY DEF AbsentRow
  <2>2. \A p \in Qrs : IF qr'[p].present
                       THEN qr'[p].ref = refs[p] /\ refs[p] > 0
                       ELSE qr'[p] = AbsentRow /\ (p \in removed' \/ refs[p] = 0)
    <3>1. \A p \in Qrs \ {q} : IF qr[p].present
                       THEN qr[p].ref = refs[p] /\ refs[p] > 0
                       ELSE qr[p] = AbsentRow /\ (p \in removed \/ refs[p] = 0)
      BY DEF IInv, RefsInOrder
    <3> QED BY <1>1, <1>2, <2>1, <3>1
  <2>3. \A s \in DOMAIN chain : chain[s].ref <= refs[chain[s].q]
    BY DEF IInv, RefsInOrder
  <2>4. \A t \in Slots : \A c \in Copies(t)' : c.ref <= refs[c.q]
    BY <1>6 DEF IInv, RefsInOrder
  <2> QED BY <1>1, <2>1, <2>2, <2>3, <2>4 DEF RefsInOrder
<1>10. \A p \in Qrs \ {q} : Told(p) => Told(p)'
  BY <1>1, <1>2, <1>4, <1>6, ToldKept
<1>11. FirstPaymentTold'
  <2>1. \A p \in Qrs \ {q} : RecordedNow(p)' => RecordedNow(p)
    BY <1>1, <1>2, <1>3, NullsAreNone DEF RecordedNow
  <2> QED BY <1>1, <1>10, <2>1 DEF IInv, FirstPaymentTold
<1>12. TakenIsTold'
  <2>1. \A p \in Qrs \ {q} : TakenForTold(p)' => TakenForTold(p)
    BY <1>1, <1>2 DEF TakenForTold
  <2> QED BY <1>1, <1>10, <2>1 DEF IInv, TakenIsTold
<1>13. MarkedBeforeDispatch'
  <2> SUFFICES ASSUME NEW t \in Slots, task[t].pc = "dispatch",
                      task[t].cur.q \notin contended
               PROVE  SpentRow(task[t].cur.q, task[t].cur.ref)'
    BY <1>1 DEF MarkedBeforeDispatch
  <2>1. /\ SpentRow(task[t].cur.q, task[t].cur.ref)
        /\ task[t].cur.q \in Qrs /\ task[t].cur.ref # 0
    BY InHand, BoundsAssumption DEF IInv, MarkedBeforeDispatch
  <2> QED BY <1>1, <1>2, <2>1 DEF SpentRow, AbsentRow
<1>14. SentIsSpent'
  <2> SUFFICES ASSUME NEW e \in sent, e.q \notin contended
               PROVE  SpentRow(e.q, e.ref)' /\ \A t \in Slots : SpentBy(t, e)'
    BY <1>1 DEF SentIsSpent
  <2>1. /\ SpentRow(e.q, e.ref) /\ \A t \in Slots : SpentBy(t, e)
        /\ e.q \in Qrs /\ e.ref # 0
    BY BoundsAssumption DEF IInv, SentIsSpent, TypeOK
  <2>2. SpentRow(e.q, e.ref)'
    BY <1>2, <2>1 DEF SpentRow, AbsentRow
  <2> QED BY <1>1, <1>6, <2>1, <2>2 DEF SpentBy
<1> QED BY <1>5, <1>6, <1>7, <1>8, <1>9, <1>11, <1>12, <1>13, <1>14 DEF IInv

LEMMA PayInv ==
    ASSUME IInv, NEW q \in Qrs, NEW ref \in 1..MaxRefs, NEW transfer \in Transfers,
           Pay(q, ref, transfer)
    PROVE  IInv'
<1> DEFINE p == [q |-> q, ref |-> ref, transfer |-> transfer]
<1>1. /\ chain' = Append(chain, p) /\ p \in Payment /\ ref <= refs[q]
      /\ chain \in Seq(Payment) /\ Len(chain) < MaxPayments
      /\ UNCHANGED <<qr, older, record, refs, updating, task, sent, removed,
                     missed, overtaken, contended>>
  BY DEF Pay, tables, history, IInv, TypeOK, Payment
<1>2. /\ chain' \in Seq(Payment) /\ Len(chain') <= MaxPayments
      /\ \A s \in DOMAIN chain : s \in DOMAIN chain' /\ chain'[s] = chain[s]
      /\ \A s \in DOMAIN chain' : s \in DOMAIN chain \/ chain'[s] = p
  <2> HIDE DEF p
  <2> QED BY <1>1, BoundsAssumption
<1>3. Grows
  BY <1>1, <1>2 DEF Grows
<1>4. TypeOK'
  BY <1>1, <1>2 DEF IInv, TypeOK
<1>5. /\ \A t \in Slots : ScanKnows(t)'
      /\ \A t \in Slots : Copies(t)' = Copies(t)
      /\ OneCopyInScan' /\ AnnouncedRecorded' /\ AnnouncedOnce' /\ OneScan'
  BY <1>1, <1>3, ScansStandStill
<1>6. RecordsTruthful'
  BY <1>1, <1>2 DEF IInv, RecordsTruthful, Valid
<1>7. PaidIsRecorded'
  BY <1>1 DEF IInv, PaidIsRecorded
<1>8. RefsInOrder'
  <2>1. \A s \in DOMAIN chain' : chain'[s].ref <= refs[chain'[s].q]
    <3>1. p.q = q /\ p.ref = ref
      OBVIOUS
    <3> HIDE DEF p
    <3> QED BY <1>1, <1>2, <3>1 DEF IInv, RefsInOrder
  <2> QED BY <1>1, <1>5, <2>1 DEF IInv, RefsInOrder
<1>9. \A x \in Qrs : /\ Told(x) => Told(x)'
                     /\ TakenForTold(x)' <=> TakenForTold(x)
                     /\ RecordedNow(x)' <=> RecordedNow(x)
  <2>1. \A x \in Qrs : Told(x) => Told(x)'
    <3>1. \A t \in Slots : Announcing(t) => Announcing(t)' /\ task'[t].cur = task[t].cur
      BY <1>1 DEF Announcing
    <3> QED BY <1>1, <1>3, <3>1, ToldKept
  <2> QED BY <1>1, <2>1 DEF TakenForTold, RecordedNow
<1>10. FirstPaymentTold' /\ TakenIsTold'
  BY <1>1, <1>9 DEF IInv, FirstPaymentTold, TakenIsTold
<1>11. MarkedBeforeDispatch' /\ SentIsSpent'
  BY <1>1 DEF IInv, MarkedBeforeDispatch, SentIsSpent, SpentRow, SpentBy,
              Announcing
<1> QED BY <1>4, <1>5, <1>6, <1>7, <1>8, <1>10, <1>11 DEF IInv

\* A stop ends every scan, and leaves what they had not announced.
LEMMA ProcessStopsInv ==
    ASSUME IInv, ProcessStops
    PROVE  IInv'
<1>1. /\ task' = [t \in Slots |-> Idle] /\ updating' = {}
      /\ missed' = missed \cup UNION {AtRisk(t) : t \in Slots}
      /\ UNCHANGED <<qr, older, record, refs, chain, sent, removed, overtaken,
                     contended>>
  BY DEF ProcessStops, tables
<1>2. /\ Idle \in Task /\ Idle.pc = "idle" /\ Idle.cur = NoCopy
      /\ Idle.todo = {} /\ Idle.handled = FALSE
  BY DEF Idle, Task
<1>3. \A t \in Slots : task'[t] = Idle
  BY <1>1
<1>4. \A t \in Slots : /\ ~Announcing(t)' /\ Copies(t)' = {} /\ Copied(t)' = {}
                       /\ ScanKnows(t)'
  <2>1. Idle' = Idle /\ NoCopy' = NoCopy
    BY DEF Idle, NoCopy
  <2> QED BY <1>2, <1>3, <2>1 DEF Announcing, Copies, Copied, ScanKnows
<1>5. /\ missed \subseteq missed' /\ missed' \subseteq DOMAIN chain
      /\ \A t \in Slots : Announcing(t) => Current(t) \in missed'
  BY <1>1, AtRiskOnChain DEF IInv, AnnouncedRecorded, AtRisk, Announcing
<1>6. Grows
  BY <1>1, NothingChanges
<1>7. TypeOK'
  <2>1. missed' \subseteq Signatures
    BY <1>5, ChainDomain DEF IInv
  <2> QED BY <1>1, <1>2, <2>1 DEF IInv, TypeOK
<1>8. RecordsTruthful' /\ PaidIsRecorded' /\ AnnouncedOnce'
  BY <1>1 DEF IInv, RecordsTruthful, PaidIsRecorded, Valid, AnnouncedOnce
<1>9. OneCopyInScan' /\ OneScan' /\ MarkedBeforeDispatch'
  BY <1>2, <1>3, <1>4 DEF OneCopyInScan, OneScan, MarkedBeforeDispatch
<1>10. RefsInOrder'
  BY <1>1, <1>4 DEF IInv, RefsInOrder
<1>11. AnnouncedRecorded'
  BY <1>1, <1>4, <1>5, <1>6, AnnouncementsKept
<1>12. \A q \in Qrs : Told(q) => Told(q)'
  BY <1>1, <1>5, <1>6, ToldKept
<1>13. FirstPaymentTold'
  BY <1>1, <1>12 DEF IInv, FirstPaymentTold, RecordedNow
<1>14. TakenIsTold'
  <2>1. \A q \in Qrs : TakenForTold(q)' => TakenForTold(q)
    BY <1>1, <1>2, <1>3 DEF TakenForTold
  <2> QED BY <1>1, <1>12, <2>1 DEF IInv, TakenIsTold
<1>15. SentIsSpent'
  <2> SUFFICES ASSUME NEW e \in sent, e.q \notin contended
               PROVE  SpentRow(e.q, e.ref)' /\ \A t \in Slots : SpentBy(t, e)'
    BY <1>1 DEF SentIsSpent
  <2>1. SpentRow(e.q, e.ref) /\ e.q \in Qrs
    BY DEF IInv, SentIsSpent, TypeOK
  <2> QED BY <1>1, <1>2, <1>3, <2>1, NullsAreNone DEF SpentRow, SpentBy
<1> QED BY <1>4, <1>7, <1>8, <1>9, <1>10, <1>11, <1>13, <1>14, <1>15 DEF IInv

LEMMA NothingInv ==
    ASSUME IInv, UNCHANGED vars
    PROVE  IInv'
<1>1. UNCHANGED <<qr, older, record, refs, updating, chain, task, sent, removed,
                  missed, overtaken, contended>>
  BY DEF vars, tables, history
<1>2. \A t \in Slots : ScanKnows(t)'
  BY <1>1, NothingChanges, KnowsKept
<1>3. Grows
  BY <1>1, NothingChanges
<1>4. /\ OneCopyInScan' /\ AnnouncedRecorded' /\ AnnouncedOnce' /\ OneScan'
      /\ \A t \in Slots : Copies(t)' = Copies(t)
  BY <1>1, <1>3, ScansStandStill
<1>5. RecordsTruthful' /\ PaidIsRecorded' /\ RefsInOrder'
  BY <1>1, <1>4 DEF IInv, RecordsTruthful, PaidIsRecorded, RefsInOrder, Valid
<1>6. \A p \in Qrs : /\ Told(p)' <=> Told(p)
                     /\ TakenForTold(p)' <=> TakenForTold(p)
                     /\ RecordedNow(p)' <=> RecordedNow(p)
  BY <1>1 DEF Told, TakenForTold, RecordedNow, Announcing
<1>7. FirstPaymentTold' /\ TakenIsTold'
  BY <1>1, <1>6 DEF IInv, FirstPaymentTold, TakenIsTold
<1>8. MarkedBeforeDispatch' /\ SentIsSpent'
  BY <1>1 DEF IInv, MarkedBeforeDispatch, SentIsSpent, SpentRow, SpentBy,
              Announcing
<1>9. TypeOK'
  BY <1>1 DEF IInv, TypeOK
<1> QED BY <1>2, <1>4, <1>5, <1>7, <1>8, <1>9 DEF IInv

-----------------------------------------------------------------------------
(* The theorems.                                                           *)

LEMMA InitIInv == Init => IInv
<1> SUFFICES ASSUME Init PROVE IInv
  OBVIOUS
<1> USE DEF Init
<1>1. AbsentRow \in Row /\ ~AbsentRow.present /\ AbsentRow.paid = NoSignature
  BY BoundsAssumption DEF AbsentRow, Row, Amounts
<1>2. /\ Idle \in Task /\ Idle.pc = "idle" /\ Idle.cur = NoCopy
      /\ Idle.todo = {} /\ Idle.handled = FALSE
  BY DEF Idle, Task
<1>3. TypeOK
  <2>1. chain \in Seq(Payment) /\ Len(chain) = 0 /\ Len(chain) <= MaxPayments
    BY BoundsAssumption
  <2>2. refs \in [Qrs -> 0..MaxRefs]
    BY BoundsAssumption
  <2> QED BY <1>1, <1>2, <2>1, <2>2 DEF TypeOK
<1>4. \A t \in Slots : ScanKnows(t) /\ Copies(t) = {} /\ Copied(t) = {}
  BY <1>2 DEF ScanKnows, Copies, Copied
<1>5. RecordsTruthful /\ PaidIsRecorded
  BY <1>1 DEF RecordsTruthful, PaidIsRecorded
<1>6. OneCopyInScan /\ OneScan /\ MarkedBeforeDispatch
  BY <1>2, <1>4 DEF OneCopyInScan, OneScan, MarkedBeforeDispatch
<1>7. RefsInOrder
  <2>1. DOMAIN chain = {}
    OBVIOUS
  <2> QED BY <1>1, <1>4, <2>1 DEF RefsInOrder
<1>8. AnnouncedRecorded /\ AnnouncedOnce /\ SentIsSpent
  BY <1>2 DEF AnnouncedRecorded, AnnouncedOnce, SentIsSpent, Announcing
<1>9. FirstPaymentTold
  BY NullsAreNone DEF FirstPaymentTold, RecordedNow
<1>10. TakenIsTold
  BY <1>1, <1>2 DEF TakenIsTold, TakenForTold
<1> QED BY <1>3, <1>4, <1>5, <1>6, <1>7, <1>8, <1>9, <1>10 DEF IInv

LEMMA StepIInv == IInv /\ [Next]_vars => IInv'
<1> SUFFICES ASSUME IInv, [Next]_vars PROVE IInv'
  OBVIOUS
<1>1. CASE UNCHANGED vars
  BY <1>1, NothingInv
<1>2. CASE Merchant
  <2>1. ASSUME NEW q \in Qrs, NEW amount \in Amounts, CreateQr(q, amount)
        PROVE  IInv'
    BY <2>1, CreateQrInv
  <2>2. ASSUME NEW q \in Qrs, NEW amount \in Amounts, NEW payment \in BOOLEAN,
               UpdateBegin(q, payment, amount)
        PROVE  IInv'
    BY <2>2, UpdateBeginInv
  <2>3. ASSUME NEW u \in updating, UpdateFinish(u)
        PROVE  IInv'
    BY <2>3, UpdateFinishInv
  <2>4. ASSUME NEW q \in Qrs, RemoveQr(q)
        PROVE  IInv'
    BY <2>4, RemoveQrInv
  <2> QED BY <1>2, <2>1, <2>2, <2>3, <2>4 DEF Merchant
<1>3. ASSUME NEW q \in Qrs, NEW ref \in 1..MaxRefs, NEW transfer \in Transfers,
             Pay(q, ref, transfer)
      PROVE  IInv'
  BY <1>3, PayInv
<1>4. ASSUME NEW t \in Slots, ScanStart(t)
      PROVE  IInv'
  BY <1>4, ScanStartInv
<1>5. ASSUME NEW t \in Slots, Progress(t)
      PROVE  IInv'
  <2>1. ASSUME NEW c \in task[t].todo, TakeQr(t, c)  PROVE  IInv'
    BY <2>1, TakeQrInv
  <2>2. ASSUME NEW c \in task[t].todo, SkipQr(t, c)  PROVE  IInv'
    BY <2>2, SkipQrInv
  <2>3. CASE SkipSignature(t)
    BY <2>3, SkipSignatureInv
  <2>4. CASE Validate(t)
    BY <2>4, ValidateInv
  <2>5. CASE SaveTransaction(t)
    BY <2>5, SaveTransactionInv
  <2>6. CASE UpdateQr(t)
    BY <2>6, MarkInv, UnmarkedInv
  <2>7. CASE Dispatch(t)
    BY <2>7, DispatchInv
  <2>8. CASE ScanFails(t)
    BY <2>8, ScanFailsInv
  <2> QED BY <1>5, <2>1, <2>2, <2>3, <2>4, <2>5, <2>6, <2>7, <2>8 DEF Progress
<1>6. CASE ProcessStops
  BY <1>6, ProcessStopsInv
<1> QED BY <1>1, <1>2, <1>3, <1>4, <1>5, <1>6 DEF Next

\* Whatever scans overlap, edits, removals and payments come in between, and
\* whatever fails: what the tables, the copies and the scans in flight say of a
\* payment stays true together.
THEOREM Invariant == Spec => []IInv
  BY InitIInv, StepIInv, PTL DEF Spec

\* The first payment recorded for a QR's current reference is told to the
\* merchant, or in hand to be told, or lost to a failure or a late scan that
\* the history names.
THEOREM FirstPaymentsTold == Spec => []FirstPaymentTold
<1>1. IInv => FirstPaymentTold
  BY DEF IInv
<1> QED BY <1>1, Invariant, PTL

\* One announcement for each reference of a QR that two scans never held at
\* the same time, however often the merchant edits it.
THEOREM OneAnnouncement == Spec => []AnnouncedOnce
<1>1. IInv => AnnouncedOnce
  BY DEF IInv
<1> QED BY <1>1, Invariant, PTL

\* Even scans that overlap do not announce a payment twice, and announce only
\* recorded ones.
THEOREM PaymentsAnnouncedOnce == Spec => PaymentAnnouncedOnce
<1>1. ASSUME IInv, NEW t \in Slots, Dispatch(t), task[t].cur.q \notin removed
      PROVE  /\ record[Current(t)].q = task[t].cur.q
             /\ \A e \in sent : e.s # Current(t)
  <2>1. task[t].pc = "dispatch" /\ ScanKnows(t)
    BY <1>1 DEF Dispatch, IInv
  <2> QED BY <1>1, <2>1 DEF IInv, ScanKnows, AnnouncedRecorded, Announcing
<1>2. IInv => \A t \in Slots :
          Dispatch(t) /\ task[t].cur.q \notin removed =>
              /\ record[Current(t)].q = task[t].cur.q
              /\ \A e \in sent : e.s # Current(t)
  BY <1>1
<1> QED BY <1>2, Invariant, PTL DEF PaymentAnnouncedOnce

-----------------------------------------------------------------------------
(* The receipts.                                                           *)

\* A step of one scan leaves the others where they are.
LEMMA OthersStand ==
    ASSUME IInv, NEW t \in Slots, NEW r, task' = [task EXCEPT ![t] = r]
    PROVE  /\ task'[t] = r
           /\ \A u \in Slots \ {t} : /\ Announcing(u)' <=> Announcing(u)
                                     /\ Current(u)' = Current(u)
<1>1. task'[t] = r /\ \A u \in Slots \ {t} : task'[u] = task[u]
  BY DEF IInv, TypeOK
<1> QED
  BY <1>1 DEF Announcing, Current

\* The loops announce nothing.
LEMMA LoopsAnnounceNothing ==
    ASSUME IInv, NEW t \in Slots, NEW cur, NEW todo, NEW sigs, NEW handled,
           GoOn(t, cur, todo, sigs, handled)
    PROVE  /\ ~Announcing(t)'
           /\ \A u \in Slots \ {t} : /\ Announcing(u)' <=> Announcing(u)
                                     /\ Current(u)' = Current(u)
<1> DEFINE r == After(cur, todo, sigs, handled)
<1>1. task' = [task EXCEPT ![t] = r]
  BY DEF GoOn, After
<1>2. r.pc \in {"sig", "next", "idle"}
  BY DEF After, Idle
<1> HIDE DEF r
<1> QED
  BY <1>1, <1>2, OthersStand DEF Announcing

LEMMA OthersStandOnGoTo ==
    ASSUME IInv, NEW t \in Slots,
           NEW pc \in {"save", "update", "dispatch"}, GoTo(t, pc)
    PROVE  /\ Announcing(t)' <=> pc # "save"
           /\ Current(t)' = Current(t)
           /\ \A u \in Slots \ {t} : /\ Announcing(u)' <=> Announcing(u)
                                     /\ Current(u)' = Current(u)
<1> DEFINE r == [pc |-> pc, cur |-> task[t].cur, todo |-> task[t].todo,
                 sigs |-> task[t].sigs, handled |-> task[t].handled]
<1>1. task' = [task EXCEPT ![t] = r] /\ Current(t)' = Current(t) /\ r.pc = pc
  BY GoToTask
<1> HIDE DEF r
<1>2. /\ task'[t] = r
      /\ \A u \in Slots \ {t} : /\ Announcing(u)' <=> Announcing(u)
                                /\ Current(u)' = Current(u)
  BY <1>1, OthersStand
<1> QED
  BY <1>1, <1>2 DEF Announcing

LEMMA TellingStays ==
    ASSUME \A u \in Slots : /\ Announcing(u)' <=> Announcing(u)
                            /\ Announcing(u) => Current(u)' = Current(u)
    PROVE  Telling' = Telling
  BY DEF Telling

LEMMA TellingBegins ==
    ASSUME NEW t \in Slots, ~Announcing(t), Announcing(t)', Current(t)' = Current(t),
           \A u \in Slots \ {t} : /\ Announcing(u)' <=> Announcing(u)
                                  /\ Current(u)' = Current(u)
    PROVE  Telling' = Telling \cup {<<t, Current(t)>>}
  BY DEF Telling

LEMMA TellingEnds ==
    ASSUME NEW t \in Slots, Announcing(t), ~Announcing(t)',
           \A u \in Slots \ {t} : /\ Announcing(u)' <=> Announcing(u)
                                  /\ Current(u)' = Current(u)
    PROVE  /\ <<t, Current(t)>> \in Telling
           /\ Telling' = Telling \ {<<t, Current(t)>>}
  BY DEF Telling

\* What neither pays nor records, removes or announces is no step of theirs.
LEMMA ReceiptsStand ==
    ASSUME UNCHANGED <<chain, record, sent, removed, missed>>, Telling' = Telling
    PROVE  UNCHANGED Receipts!vars
  BY DEF Receipts!vars

\* A scan that is left without its announcement leaves one payment to tell of.
LEMMA OneLeft ==
    ASSUME NEW t \in Slots, Announcing(t), ~Announcing(t)',
           \A u \in Slots \ {t} : /\ Announcing(u)' <=> Announcing(u)
                                  /\ Current(u)' = Current(u),
           UNCHANGED <<chain, record, sent, removed>>,
           missed' \in {missed, missed \cup {Current(t)}},
           \/ Current(t) \in missed'
           \/ Current(t) \in DOMAIN chain /\ chain[Current(t)].q \in removed
    PROVE  Receipts!Next
<1> DEFINE pairs == {<<t, Current(t)>>}
           gone == {s \in DOMAIN chain : chain[s].q \in removed}
<1>1. <<t, Current(t)>> \in Telling /\ Telling' = Telling \ pairs
  BY TellingEnds
<1>2. /\ {pair[2] : pair \in pairs} = {Current(t)}
      /\ \A pair \in pairs : pair[2] \in missed' \cup gone
  OBVIOUS
<1>3. Receipts!Leave(pairs)
  BY <1>1, <1>2 DEF Receipts!Leave
<1> QED
  BY <1>1, <1>3 DEF Receipts!Next

\* A payment is new to the books.
LEMMA PayEnters ==
    ASSUME IInv, NEW q \in Qrs, NEW ref \in 1..MaxRefs, NEW transfer \in Transfers,
           Pay(q, ref, transfer)
    PROVE  Receipts!Next
<1> DEFINE p == [q |-> q, ref |-> ref, transfer |-> transfer]
<1>1. /\ chain' = Append(chain, p) /\ p.q = q /\ p \in Payment
      /\ chain \in Seq(Payment) /\ Len(chain) < MaxPayments
      /\ UNCHANGED <<record, task, sent, removed, missed>>
  BY DEF Pay, tables, history, IInv, TypeOK, Payment
<1> HIDE DEF p
<1>0. PICK s \in Signatures : s = Len(chain) + 1
  BY <1>1, BoundsAssumption DEF Signatures
<1>2. /\ s \notin DOMAIN chain
      /\ DOMAIN chain' = DOMAIN chain \cup {s}
      /\ \A x \in DOMAIN chain : chain'[x] = chain[x]
      /\ chain'[s] = p
  BY <1>1, <1>0
<1> DEFINE gone == {x \in DOMAIN chain : chain[x].q \in removed}
           after == {x \in DOMAIN chain' : chain'[x].q \in removed'}
<1>3. after = IF q \in removed THEN gone \cup {s} ELSE gone
  BY <1>1, <1>2
<1>4. Telling' = Telling
  BY <1>1, TellingStays DEF Announcing, Current
<1>5. after \in {gone, gone \cup {s}}
  BY <1>3
<1>6. Receipts!Pay(s)
  BY <1>1, <1>2, <1>4, <1>5 DEF Receipts!Pay
<1> QED
  BY <1>6 DEF Receipts!Next

\* With a QR go its transactions, which are those of its payments.
LEMMA RemovalDiscards ==
    ASSUME IInv, NEW q \in Qrs, RemoveQr(q)
    PROVE  Receipts!Next
<1>0. PICK S \in SUBSET DOMAIN chain : S = {s \in DOMAIN chain : chain[s].q = q}
  OBVIOUS
<1> DEFINE books == {s \in Signatures : record[s] # NoTransaction}
           after == {s \in Signatures : record'[s] # NoTransaction}
           gone == {s \in DOMAIN chain : chain[s].q \in removed}
<1>1. /\ record' = [s \in Signatures |->
                       IF record[s].q = q THEN NoTransaction ELSE record[s]]
      /\ removed' = removed \cup {q}
      /\ UNCHANGED <<chain, task, sent, missed>>
  BY DEF RemoveQr
<1>2. \A s \in Signatures : record[s].q = q => s \in S
  BY <1>0, NullsAreNone DEF IInv, RecordsTruthful
<1>3. \A s \in books : s \in S => record[s].q = q
  BY <1>0 DEF IInv, RecordsTruthful
<1>4. after = books \ S
  BY <1>1, <1>2, <1>3
<1>5. {s \in DOMAIN chain' : chain'[s].q \in removed'} = gone \cup S
  BY <1>1, <1>0
<1>6. Telling' = Telling
  BY <1>1, TellingStays DEF Announcing, Current
<1>7. Receipts!Discard(S)
  BY <1>1, <1>4, <1>5, <1>6 DEF Receipts!Discard
<1> QED
  BY <1>7 DEF Receipts!Next

\* An insert enters a payment that the books do not have; unless the QR had
\* its first payment, the scan goes on to announce it.
LEMMA InsertRecords ==
    ASSUME IInv, NEW t \in Slots, SaveTransaction(t)
    PROVE  [Receipts!Next]_(Receipts!vars)
<1>1. /\ task[t].pc = "save" /\ ~Announcing(t)
      /\ UNCHANGED <<chain, sent, removed, missed>>
  BY DEF SaveTransaction, history, Announcing
<1>2. PICK s \in Signatures : s = Current(t) /\ s \in DOMAIN chain
  BY <1>1, InHand
<1>3. CASE record[s] # NoTransaction
  <2>1. NextSignature(t, Others(t), task[t].handled) /\ UNCHANGED record
    BY <1>2, <1>3 DEF SaveTransaction
  <2>2. Telling' = Telling
    BY <1>1, <2>1, LoopsAnnounceNothing, TellingStays DEF NextSignature
  <2> QED
    BY <1>1, <2>1, <2>2, ReceiptsStand
<1>4. CASE record[s] = NoTransaction
  <2> DEFINE new == [q |-> task[t].cur.q, ref |-> task[t].cur.ref,
                     amount |-> task[t].cur.amount]
             books == {x \in Signatures : record[x] # NoTransaction}
             after == {x \in Signatures : record'[x] # NoTransaction}
  <2>1. /\ record' = [record EXCEPT ![s] = new]
        /\ IF task[t].handled THEN NextSignature(t, Others(t), TRUE)
                              ELSE GoTo(t, "update")
    BY <1>2, <1>4 DEF SaveTransaction
  <2>2. new # NoTransaction
    BY <1>1, InHand, NullsAreNone
  <2> HIDE DEF new
  <2>3. after = books \cup {s}
    BY <2>1, <2>2 DEF IInv, TypeOK
  <2>4. CASE task[t].handled
    <3>1. Telling' = Telling
      BY <1>1, <2>1, <2>4, LoopsAnnounceNothing, TellingStays DEF NextSignature
    <3>2. Telling \cup ({} \X {s}) = Telling
      OBVIOUS
    <3>3. Receipts!Record(s, {})
      BY <1>1, <1>2, <1>4, <2>3, <3>1, <3>2 DEF Receipts!Record
    <3> QED
      BY <3>3 DEF Receipts!Next
  <2>5. CASE ~task[t].handled
    <3>1. /\ Announcing(t)' /\ Current(t)' = Current(t)
          /\ \A u \in Slots \ {t} : /\ Announcing(u)' <=> Announcing(u)
                                    /\ Current(u)' = Current(u)
      BY <2>1, <2>5, OthersStandOnGoTo
    <3>2. Telling' = Telling \cup {<<t, s>>}
      BY <1>1, <1>2, <3>1, TellingBegins
    <3>3. {t} \X {s} = {<<t, s>>} /\ \A pair \in Telling : pair[1] \notin {t}
      BY <1>1 DEF Telling
    <3>4. Receipts!Record(s, {t})
      BY <1>1, <1>2, <1>4, <2>3, <3>2, <3>3 DEF Receipts!Record
    <3> QED
      BY <3>4 DEF Receipts!Next
  <2> QED
    BY <2>4, <2>5
<1> QED
  BY <1>3, <1>4

\* A QR marked as paid is still to be announced; one that is gone was removed,
\* and its payments are void.
LEMMA MarkLeavesVoid ==
    ASSUME IInv, NEW t \in Slots, UpdateQr(t)
    PROVE  [Receipts!Next]_(Receipts!vars)
<1>1. /\ task[t].pc = "update" /\ Announcing(t)
      /\ UNCHANGED <<chain, record, sent, removed, missed>>
  BY DEF UpdateQr, Announcing
<1>2. PICK q \in Qrs : q = task[t].cur.q
  BY <1>1, InHand
<1>3. CASE qr[q].present
  <2>1. task' = [task EXCEPT ![t].pc = "dispatch", ![t].handled = TRUE]
    BY <1>2, <1>3 DEF UpdateQr
  <2>2. /\ task'[t].pc = "dispatch" /\ task'[t].sigs = task[t].sigs
        /\ \A u \in Slots \ {t} : task'[u] = task[u]
    BY <2>1 DEF IInv, TypeOK, Task
  <2>3. Telling' = Telling
    BY <1>1, <2>2, TellingStays DEF Announcing, Current
  <2> QED
    BY <1>1, <2>3, ReceiptsStand
<1>4. CASE ~qr[q].present
  <2>1. NextSignature(t, Others(t), FALSE)
    BY <1>2, <1>4 DEF UpdateQr
  <2>2. task[t].cur.ref <= refs[q] /\ task[t].cur.ref \in 1..MaxRefs
    BY <1>1, <1>2, InHand DEF IInv, RefsInOrder
  <2>3. refs[q] \in Nat
    BY BoundsAssumption DEF IInv, TypeOK
  <2>4. q \in removed
    BY <1>4, <2>2, <2>3, BoundsAssumption DEF IInv, RefsInOrder
  <2>5. Current(t) \in DOMAIN chain /\ chain[Current(t)].q \in removed
    BY <1>1, <1>2, <2>4, InHand
  <2> QED
    BY <1>1, <2>1, <2>5, LoopsAnnounceNothing, OneLeft DEF NextSignature
<1> QED
  BY <1>3, <1>4

\* The scan that dispatches is one that has something to tell.
LEMMA DispatchTells ==
    ASSUME IInv, NEW t \in Slots, Dispatch(t)
    PROVE  Receipts!Next
<1>1. /\ task[t].pc = "dispatch" /\ Announcing(t)
      /\ NextSignature(t, Others(t), TRUE)
      /\ UNCHANGED <<chain, record, removed, missed>>
  BY DEF Dispatch, tables, history, Announcing
<1>2. PICK s \in Signatures : s = Current(t)
  BY <1>1, InHand
<1> DEFINE e == [q |-> task[t].cur.q, ref |-> task[t].cur.ref, s |-> s]
<1>3. sent' = sent \cup {e} /\ e.s = s
  BY <1>2 DEF Dispatch
<1> HIDE DEF e
<1>4. {x.s : x \in sent'} = {x.s : x \in sent} \cup {s}
  BY <1>3
<1>5. <<t, s>> \in Telling /\ Telling' = Telling \ {<<t, s>>}
  BY <1>1, <1>2, LoopsAnnounceNothing, TellingEnds DEF NextSignature
<1>6. Receipts!Tell(t, s)
  BY <1>1, <1>4, <1>5 DEF Receipts!Tell
<1> QED
  BY <1>2, <1>6 DEF Receipts!Next

\* A scan that fails misses what it had to tell, and a stop what all had.
LEMMA FailureMisses ==
    ASSUME IInv, NEW t \in Slots, ScanFails(t)
    PROVE  [Receipts!Next]_(Receipts!vars)
<1>1. /\ task' = [task EXCEPT ![t] = Idle]
      /\ missed' = missed \cup AtRisk(t)
      /\ UNCHANGED <<chain, record, sent, removed>>
  BY DEF ScanFails, tables
<1>2. /\ ~Announcing(t)'
      /\ \A u \in Slots \ {t} : /\ Announcing(u)' <=> Announcing(u)
                                /\ Current(u)' = Current(u)
  <2>1. /\ task'[t] = Idle
        /\ \A u \in Slots \ {t} : /\ Announcing(u)' <=> Announcing(u)
                                  /\ Current(u)' = Current(u)
    BY <1>1, OthersStand
  <2> QED
    BY <2>1 DEF Announcing, Idle
<1>3. CASE Announcing(t)
  <2>1. AtRisk(t) = {Current(t)}
    BY <1>3 DEF AtRisk, Announcing
  <2> QED
    BY <1>1, <1>2, <1>3, <2>1, OneLeft
<1>4. CASE ~Announcing(t)
  <2>1. AtRisk(t) = {}
    BY <1>4 DEF AtRisk, Announcing
  <2>2. Telling' = Telling
    BY <1>2, <1>4, TellingStays
  <2> QED
    BY <1>1, <2>1, <2>2, ReceiptsStand
<1> QED
  BY <1>3, <1>4

LEMMA StopMisses ==
    ASSUME IInv, ProcessStops
    PROVE  Receipts!Next
<1>1. /\ task' = [t \in Slots |-> Idle]
      /\ missed' = missed \cup UNION {AtRisk(t) : t \in Slots}
      /\ UNCHANGED <<chain, record, sent, removed>>
  BY DEF ProcessStops, tables
<1>2. Telling' = {}
  <2>1. \A t \in Slots : ~Announcing(t)'
    BY <1>1 DEF Announcing, Idle
  <2> QED
    BY <2>1 DEF Telling
<1>3. {pair[2] : pair \in Telling} = UNION {AtRisk(t) : t \in Slots}
  <2>1. ASSUME NEW t \in Slots, Announcing(t)
        PROVE  <<t, Current(t)>> \in Telling /\ AtRisk(t) = {Current(t)}
    BY <2>1 DEF Telling, AtRisk, Announcing
  <2>2. ASSUME NEW t \in Slots, ~Announcing(t)
        PROVE  AtRisk(t) = {}
    BY <2>2 DEF AtRisk, Announcing
  <2>3. \A pair \in Telling : \E t \in Slots : Announcing(t) /\ pair[2] = Current(t)
    BY DEF Telling
  <2>4. ASSUME NEW t \in Slots, Announcing(t)
        PROVE  Current(t) \in {pair[2] : pair \in Telling}
    <3>1. <<t, Current(t)>>[2] = Current(t)
      OBVIOUS
    <3> QED
      BY <2>1, <2>4, <3>1
  <2>5. ASSUME NEW t \in Slots
        PROVE  AtRisk(t) \subseteq {pair[2] : pair \in Telling}
    BY <2>1, <2>2, <2>4
  <2>6. \A s \in {pair[2] : pair \in Telling} : s \in UNION {AtRisk(t) : t \in Slots}
    BY <2>1, <2>3
  <2> QED
    BY <2>5, <2>6
<1>4. \A pair \in Telling : pair[2] \in missed'
  BY <1>1, <1>3
<1>5. Receipts!Leave(Telling)
  BY <1>1, <1>2, <1>3, <1>4 DEF Receipts!Leave
<1> QED
  BY <1>5 DEF Receipts!Next

\* Every step is one of the receipts, or leaves them as they are.
LEMMA ReceiptsStep ==
    ASSUME IInv, [Next]_vars
    PROVE  [Receipts!Next]_(Receipts!vars)
<1>1. ASSUME UNCHANGED <<chain, record, task, sent, removed, missed>>
      PROVE  UNCHANGED Receipts!vars
  <2>1. Telling' = Telling
    BY <1>1, TellingStays DEF Announcing, Current
  <2> QED
    BY <1>1, <2>1, ReceiptsStand
<1>2. CASE UNCHANGED vars
  BY <1>1, <1>2 DEF vars, tables, history
<1>3. CASE Merchant
  <2>1. ASSUME NEW q \in Qrs, RemoveQr(q)
        PROVE  Receipts!Next
    BY <2>1, RemovalDiscards
  <2> QED
    BY <1>1, <1>3, <2>1 DEF Merchant, CreateQr, UpdateBegin, UpdateFinish,
                            tables, history
<1>4. ASSUME NEW q \in Qrs, NEW ref \in 1..MaxRefs, NEW transfer \in Transfers,
             Pay(q, ref, transfer)
      PROVE  Receipts!Next
  BY <1>4, PayEnters
<1>5. ASSUME NEW t \in Slots, ~Announcing(t), ~Announcing(t)',
             UNCHANGED <<chain, record, sent, removed, missed>>,
             \A u \in Slots \ {t} : /\ Announcing(u)' <=> Announcing(u)
                                    /\ Current(u)' = Current(u)
      PROVE  UNCHANGED Receipts!vars
  <2>1. Telling' = Telling
    BY <1>5, TellingStays
  <2> QED
    BY <1>5, <2>1, ReceiptsStand
<1>6. ASSUME NEW t \in Slots, ScanStart(t)
      PROVE  UNCHANGED Receipts!vars
  <2>1. PICK r : r.pc = "next" /\ task' = [task EXCEPT ![t] = r]
    BY <1>6 DEF ScanStart
  <2>2. /\ ~Announcing(t) /\ ~Announcing(t)'
        /\ \A u \in Slots \ {t} : /\ Announcing(u)' <=> Announcing(u)
                                  /\ Current(u)' = Current(u)
    BY <1>6, <2>1, OthersStand DEF ScanStart, Announcing, Idle
  <2> QED
    BY <1>5, <1>6, <2>2 DEF ScanStart, tables
<1>7. ASSUME NEW t \in Slots,
             \/ \E c \in task[t].todo : TakeQr(t, c) \/ SkipQr(t, c)
             \/ SkipSignature(t)
      PROVE  UNCHANGED Receipts!vars
  <2>1. /\ ~Announcing(t) /\ UNCHANGED <<chain, record, sent, removed, missed>>
        /\ \E cur, todo, sigs, handled : GoOn(t, cur, todo, sigs, handled)
    BY <1>7 DEF TakeQr, SkipQr, SkipSignature, NextSignature, Announcing,
                tables, history
  <2> QED
    BY <1>5, <2>1, LoopsAnnounceNothing
<1>8. ASSUME NEW t \in Slots, Validate(t)
      PROVE  UNCHANGED Receipts!vars
  <2>1. GoTo(t, "save") /\ ~Announcing(t)
    BY <1>8 DEF Validate, Announcing
  <2>2. /\ ~Announcing(t)'
        /\ \A u \in Slots \ {t} : /\ Announcing(u)' <=> Announcing(u)
                                  /\ Current(u)' = Current(u)
    BY <2>1, OthersStandOnGoTo
  <2> QED
    BY <1>5, <1>8, <2>1, <2>2 DEF Validate, tables, history
<1>9. ASSUME NEW t \in Slots, SaveTransaction(t) \/ UpdateQr(t)
      PROVE  [Receipts!Next]_(Receipts!vars)
  BY <1>9, InsertRecords, MarkLeavesVoid
<1>10. ASSUME NEW t \in Slots, Dispatch(t) \/ ScanFails(t)
       PROVE  [Receipts!Next]_(Receipts!vars)
  BY <1>10, DispatchTells, FailureMisses
<1>11. CASE ProcessStops
  BY <1>11, StopMisses
<1> QED
  BY <1>2, <1>3, <1>4, <1>6, <1>7, <1>8, <1>9, <1>10, <1>11 DEF Next, Progress

\* At first there is nothing.
LEMMA ReceiptsInit == Init => Receipts!Init
<1> SUFFICES ASSUME Init PROVE Receipts!Init
  OBVIOUS
<1>1. \A t \in Slots : ~Announcing(t)
  BY DEF Init, Announcing, Idle
<1>2. Telling = {}
  BY <1>1 DEF Telling
<1>3. DOMAIN chain = {}
  BY DEF Init
<1> QED
  BY <1>2, <1>3 DEF Init, Receipts!Init

\* ImplementsReceipts of qr-payment-watcher.service.ts and
\* qr-codes.service.ts: overlapping scans, failures, edits and removals keep
\* the promise of PaymentReceipts, for any numbers of QRs, references,
\* payments, scans and edits.
THEOREM ReceiptsImplemented == Spec => ImplementsReceipts
<1>1. IInv /\ [Next]_vars => [Receipts!Next]_(Receipts!vars)
  BY ReceiptsStep
<1> QED
  BY <1>1, Invariant, ReceiptsInit, PTL DEF Spec, ImplementsReceipts, Receipts!Spec
=============================================================================
