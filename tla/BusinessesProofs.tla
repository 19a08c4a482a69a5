-------------------------- MODULE BusinessesProofs --------------------------
(***************************************************************************)
(* Proofs about Businesses for any businesses, wallets and number of       *)
(* requests in flight.                                                     *)
(***************************************************************************)
EXTENDS Businesses, TLAPS

\* What no step undoes on chain; copies of any age rely on it.
AccountsGrow ==
    \A w \in Wallets :
        pda[w] # None => /\ pda'[w] # None
                         /\ pda'[w].business = pda[w].business
                         /\ pda[w].verified => pda'[w].verified

-----------------------------------------------------------------------------
(* What copies keep while the chain grows.                                 *)

LEMMA KeepRegistered ==
    ASSUME AccountsGrow, NEW c \in Row, NEW b, Registered(c, b)
    PROVE  Registered(c, b)'
  BY DEF AccountsGrow, Registered, Row

LEMMA KeepVerification ==
    ASSUME AccountsGrow, NEW c \in Row, VerificationBacked(c)
    PROVE  VerificationBacked(c)'
<1>1. CASE c.verified
  <2>1. c.verifyTx \in Wallets
    BY <1>1 DEF VerificationBacked, Row
  <2> QED BY <1>1, <2>1 DEF VerificationBacked, AccountsGrow
<1>2. CASE ~c.verified
  BY <1>2 DEF VerificationBacked
<1> QED BY <1>1, <1>2 DEF Row

LEMMA KeepRows ==
    ASSUME IInv, AccountsGrow, row' = row
    PROVE  RowsRegistered' /\ VerifiedBacked'
<1> SUFFICES ASSUME NEW b \in Ids, row[b] # None
             PROVE  Registered(row[b], b)' /\ VerificationBacked(row[b])'
  BY DEF RowsRegistered, VerifiedBacked
<1>1. row[b] \in Row /\ Registered(row[b], b) /\ VerificationBacked(row[b])
  BY DEF IInv, TypeOK, RowsRegistered, VerifiedBacked
<1> QED BY <1>1, KeepRegistered, KeepVerification DEF Registered, VerificationBacked

-----------------------------------------------------------------------------
(* Requests.                                                               *)

\* What a step of slot t may do to the tables, for the other requests to
\* stay as they are: it makes rows and accounts of its own business only.
OwnOnly(t) ==
    LET Own(b) == task[t] # None /\ task[t].id = b IN
    /\ \A b \in Ids : row'[b] # None => row[b] # None \/ Own(b)
    /\ \A w \in Wallets :
           pda'[w] # None => \/ /\ pda[w] # None
                                /\ pda[w].business = pda'[w].business
                             \/ Own(pda'[w].business)

\* What slot t holds next: nothing, its request, or one for a business that
\* no registration under way is about.
NextHeld(t, r) ==
    r # None => \/ task[t] # None /\ r.id = task[t].id
                \/ row[r.id] # None
                \/ Fresh(r.id)

LEMMA OthersTruthful ==
    ASSUME IInv, AccountsGrow, NEW t \in Slots, NEW r \in Task \cup {None},
           task' = [task EXCEPT ![t] = r], OwnOnly(t), NextHeld(t, r)
    PROVE  \A u \in Slots \ {t} : TaskTruthful(u)'
<1>0. \A u \in Slots \ {t} : task'[u] = task[u]
  BY DEF IInv, TypeOK
<1> SUFFICES ASSUME NEW u \in Slots \ {t}, task[u] # None
             PROVE  TaskTruthful(u)'
  BY <1>0 DEF TaskTruthful
<1>1. /\ task \in [Slots -> Task \cup {None}]
      /\ task'[u] = task[u] /\ task'[t] = r
      /\ \A v \in Slots \ {t} : task'[v] = task[v]
  BY DEF IInv, TypeOK
<1>2. /\ task[u] \in Task /\ TaskTruthful(u)
      /\ task[u].copy \in Row /\ task[u].id \in Ids
  BY <1>1 DEF IInv, TasksTruthful, Task
<1>3. VerificationBacked(task[u].copy)'
  BY <1>1, <1>2, KeepVerification DEF TaskTruthful, VerificationBacked
<1>4. CASE task[u].pc = "register"
  <2>1. Unheard(u)
    BY <1>2, <1>4 DEF TaskTruthful
  <2>2. row'[task[u].id] = None
    BY <1>2, <2>1 DEF OwnOnly, Unheard
  <2>3. \A w \in Wallets : pda'[w] # None => pda'[w].business # task[u].id
    BY <1>2, <2>1 DEF OwnOnly, Unheard
  <2>4. r # None => r.id # task[u].id
    BY <2>1 DEF NextHeld, Unheard, Fresh
  <2>5. \A v \in Slots \ {u} : task'[v] # None => task'[v].id # task[u].id
    BY <1>1, <2>1, <2>4 DEF Unheard
  <2>6. Unheard(u)'
    BY <1>1, <2>1, <2>2, <2>3, <2>5 DEF Unheard
  <2> QED BY <1>1, <1>2, <1>3, <1>4, <2>6 DEF TaskTruthful
<1>5. CASE task[u].pc # "register"
  <2>1. Registered(task[u].copy, task[u].id)'
    BY <1>1, <1>2, <1>5, KeepRegistered DEF TaskTruthful, Registered
  <2> QED BY <1>1, <1>2, <1>3, <1>5, <2>1 DEF TaskTruthful
<1> QED BY <1>4, <1>5

-----------------------------------------------------------------------------
(* Accounts.                                                               *)

\* After the step of slot t, which holds r next, an account of b is accounted
\* for.
Settled(r, b) ==
    \/ row'[b] # None
    \/ b \in orphaned'
    \/ r # None /\ r.pc = "save" /\ r.id = b

LEMMA AccountedKept ==
    ASSUME IInv, NEW t \in Slots, NEW r \in Task \cup {None},
           task' = [task EXCEPT ![t] = r],
           \A b \in Ids : row[b] # None => row'[b] # None,
           orphaned \subseteq orphaned',
           \A w \in Wallets :
               pda'[w] # None => \/ /\ pda[w] # None
                                    /\ pda'[w].business = pda[w].business
                                 \/ Settled(r, pda'[w].business),
           At(t, "save") => Settled(r, task[t].id)
    PROVE  AccountsAccounted'
<1>1. /\ task'[t] = r
      /\ \A u \in Slots \ {t} : task'[u] = task[u]
      /\ \A w \in Wallets : pda[w] # None => pda[w].business \in Ids
  BY DEF IInv, TypeOK, Account
<1>2. \A b : Settled(r, b) => \/ row'[b] # None
                              \/ b \in orphaned'
                              \/ \E u \in Slots : At(u, "save")' /\ task'[u].id = b
  BY <1>1 DEF Settled, At
<1> SUFFICES ASSUME NEW w \in Wallets, pda[w] # None,
                    pda'[w].business = pda[w].business
             PROVE  \/ row'[pda[w].business] # None
                    \/ pda[w].business \in orphaned'
                    \/ \E u \in Slots : /\ At(u, "save")'
                                        /\ task'[u].id = pda[w].business
  BY <1>2 DEF AccountsAccounted
<1>3. CASE \E u \in Slots : At(u, "save") /\ task[u].id = pda[w].business
  <2>1. PICK u \in Slots : At(u, "save") /\ task[u].id = pda[w].business
    BY <1>3
  <2>2. CASE u = t
    BY <2>1, <2>2, <1>2
  <2>3. CASE u # t
    <3>1. task'[u] = task[u]
      BY <2>3, <1>1
    <3> QED BY <2>1, <3>1 DEF At
  <2> QED BY <2>2, <2>3
<1> QED BY <1>1, <1>3 DEF IInv, AccountsAccounted

\* A request that starts, with nothing else changed.
LEMMA BeginKeeps ==
    ASSUME IInv, NEW t \in Slots, NEW pc, NEW b, NEW copy, NEW role, NEW patch,
           Begin(t, pc, b, copy, role, patch),
           [pc |-> pc, id |-> b, copy |-> copy, role |-> role, patch |-> patch]
               \in Task,
           row[b] # None \/ Fresh(b),
           TaskTruthful(t)'
    PROVE  IInv'
<1> DEFINE r == [pc |-> pc, id |-> b, copy |-> copy, role |-> role,
                 patch |-> patch]
<1>1. /\ task' = [task EXCEPT ![t] = r] /\ r \in Task /\ task[t] = None
      /\ row' = row /\ pda' = pda /\ orphaned' = orphaned
  BY DEF Begin
<1>2. AccountsGrow /\ OwnOnly(t)
  BY <1>1 DEF AccountsGrow, OwnOnly
<1>3. NextHeld(t, r)
  BY DEF NextHeld
<1> HIDE DEF r
<1>4. \A u \in Slots \ {t} : TaskTruthful(u)'
  BY <1>1, <1>2, <1>3, OthersTruthful
<1>5. TasksTruthful'
  BY <1>4 DEF TasksTruthful
<1>6. TypeOK'
  <2>1. contended' \subseteq Ids
    BY DEF Begin, Task, IInv, TypeOK
  <2> QED BY <1>1, <2>1 DEF IInv, TypeOK
<1>7. RowsRegistered' /\ VerifiedBacked'
  BY <1>1, <1>2, KeepRows
<1>8. AccountsAccounted'
  BY <1>1, AccountedKept DEF Settled, At
<1> QED BY <1>5, <1>6, <1>7, <1>8 DEF IInv

-----------------------------------------------------------------------------
(* Requests that end, or go on.                                            *)

\* The step of a request under way that leaves rows alone.
LEMMA StepKeeps ==
    ASSUME IInv, TypeOK', AccountsGrow, row' = row, AccountsAccounted',
           NEW t \in Slots, NEW r \in Task \cup {None}, task[t] # None,
           task' = [task EXCEPT ![t] = r], OwnOnly(t),
           r # None => r.id = task[t].id, TaskTruthful(t)'
    PROVE  IInv'
<1>1. NextHeld(t, r)
  BY DEF NextHeld
<1>2. \A u \in Slots \ {t} : TaskTruthful(u)'
  BY <1>1, OthersTruthful
<1>3. TasksTruthful'
  BY <1>2 DEF TasksTruthful
<1> QED BY <1>3, KeepRows DEF IInv

\* A request that ends without writing a row.
LEMMA EndKeeps ==
    ASSUME IInv, AccountsGrow, row' = row, NEW t \in Slots, task[t] # None,
           End(t), OwnOnly(t), pda' \in [Wallets -> Account \cup {None}],
           orphaned' \subseteq Ids, contended' = contended, AccountsAccounted'
    PROVE  IInv'
<1>1. task' = [task EXCEPT ![t] = None] /\ task'[t] = None
  BY DEF End, IInv, TypeOK
<1>2. TypeOK'
  BY <1>1 DEF IInv, TypeOK
<1>3. TaskTruthful(t)'
  BY <1>1 DEF TaskTruthful
<1> QED BY <1>1, <1>2, <1>3, StepKeeps

LEMMA RegisterConfirmedKeeps ==
    ASSUME IInv, NEW t \in Slots, RegisterConfirmed(t)
    PROVE  IInv'
<1>0. PICK k \in Task \cup {None} : k = task[t]
  BY DEF IInv, TypeOK
<1> DEFINE r == [k EXCEPT !.pc = "save", !.copy = k.copy]
<1>1. /\ k \in Task /\ k # None /\ k.pc = "register"
      /\ k.copy \in Row /\ k.copy.wallet \in Wallets /\ k.id \in Ids
      /\ TaskTruthful(t)
  BY <1>0 DEF IInv, TypeOK, TasksTruthful, RegisterConfirmed, At, Task, Row
<1>2. /\ Unheard(t) /\ ~k.copy.verified /\ VerificationBacked(k.copy)
  BY <1>0, <1>1 DEF TaskTruthful
<1>3. /\ pda[k.copy.wallet] = None
      /\ pda' = [pda EXCEPT ![k.copy.wallet] = [business |-> k.id,
                                                verified |-> FALSE]]
      /\ row' = row /\ orphaned' = orphaned /\ contended' = contended
      /\ task' = [task EXCEPT ![t] = r]
  BY <1>0 DEF RegisterConfirmed, CanRegister, GoOnWith
<1>4. [business |-> k.id, verified |-> FALSE] \in Account
  BY <1>1 DEF Account
<1>5. /\ r \in Task /\ r.id = k.id /\ r.pc = "save" /\ r.copy = k.copy
  BY <1>1 DEF Task
<1>6. r # None /\ [business |-> k.id, verified |-> FALSE] # None
  BY <1>4, <1>5, NoneAssumption
<1>7. /\ task'[t] = r
      /\ pda'[k.copy.wallet] = [business |-> k.id, verified |-> FALSE]
      /\ \A w \in Wallets \ {k.copy.wallet} : pda'[w] = pda[w]
  BY <1>1, <1>3 DEF IInv, TypeOK
<1>8. TypeOK'
  BY <1>3, <1>4, <1>5 DEF IInv, TypeOK
<1>9. AccountsGrow
  BY <1>3, <1>7 DEF AccountsGrow
<1>10. OwnOnly(t)
  BY <1>0, <1>1, <1>3, <1>7 DEF OwnOnly
<1>11. AccountsAccounted'
  <2>1. Settled(r, k.id)
    BY <1>5, <1>6 DEF Settled
  <2>2. \A w \in Wallets :
            pda'[w] # None => \/ /\ pda[w] # None
                                 /\ pda'[w].business = pda[w].business
                              \/ Settled(r, pda'[w].business)
    BY <1>7, <2>1
  <2> HIDE DEF r
  <2> QED BY <1>0, <1>1, <1>3, <1>5, <2>1, <2>2, AccountedKept DEF At
<1>12. TaskTruthful(t)'
  <2>1. Registered(k.copy, k.id)'
    BY <1>0, <1>1, <1>2, <1>6, <1>7 DEF Registered, Unheard
  <2>2. VerificationBacked(k.copy)'
    BY <1>1, <1>2, <1>9, KeepVerification
  <2> QED BY <1>5, <1>7, <2>1, <2>2 DEF TaskTruthful, Registered, VerificationBacked
<1> HIDE DEF r
<1> QED BY <1>0, <1>1, <1>3, <1>5, <1>8, <1>9, <1>10, <1>11, <1>12, StepKeeps

LEMMA RegisterUnconfirmedKeeps ==
    ASSUME IInv, NEW t \in Slots, RegisterUnconfirmed(t)
    PROVE  IInv'
<1> DEFINE k == task[t]
<1>1. /\ k \in Task /\ k # None /\ k.pc = "register"
      /\ k.copy.wallet \in Wallets /\ k.id \in Ids
  BY DEF IInv, TypeOK, RegisterUnconfirmed, At, Task, Row
<1>2. /\ pda[k.copy.wallet] = None
      /\ pda' = [pda EXCEPT ![k.copy.wallet] = [business |-> k.id,
                                                verified |-> FALSE]]
      /\ row' = row /\ orphaned' = orphaned \cup {k.id}
      /\ contended' = contended /\ End(t)
  BY DEF RegisterUnconfirmed, CanRegister
<1>3. [business |-> k.id, verified |-> FALSE] \in Account
  BY <1>1 DEF Account
<1>4. [business |-> k.id, verified |-> FALSE] # None
  BY <1>3, NoneAssumption
<1>5. /\ pda'[k.copy.wallet] = [business |-> k.id, verified |-> FALSE]
      /\ \A w \in Wallets \ {k.copy.wallet} : pda'[w] = pda[w]
  BY <1>1, <1>2 DEF IInv, TypeOK
<1>6. AccountsGrow
  BY <1>2, <1>5 DEF AccountsGrow
<1>7. OwnOnly(t)
  BY <1>1, <1>2, <1>5 DEF OwnOnly
<1>8. pda' \in [Wallets -> Account \cup {None}] /\ orphaned' \subseteq Ids
  BY <1>1, <1>2, <1>3 DEF IInv, TypeOK
<1>9. AccountsAccounted'
  <2>1. \A w \in Wallets :
            pda'[w] # None => \/ /\ pda[w] # None
                                 /\ pda'[w].business = pda[w].business
                              \/ Settled(None, pda'[w].business)
    BY <1>2, <1>5 DEF Settled
  <2> QED BY <1>1, <1>2, <2>1, AccountedKept DEF At, End
<1> QED BY <1>1, <1>2, <1>6, <1>7, <1>8, <1>9, EndKeeps

LEMMA TransactionFailsKeeps ==
    ASSUME IInv, NEW t \in Slots, TransactionFails(t)
    PROVE  IInv'
<1>1. /\ task[t] # None /\ task[t].pc # "save" /\ End(t)
      /\ row' = row /\ pda' = pda /\ orphaned' = orphaned
      /\ contended' = contended
  BY DEF TransactionFails, At
<1>2. AccountsGrow /\ OwnOnly(t)
  BY <1>1 DEF AccountsGrow, OwnOnly
<1>3. AccountsAccounted'
  BY <1>1, AccountedKept DEF At, End
<1>4. pda' \in [Wallets -> Account \cup {None}] /\ orphaned' \subseteq Ids
  BY <1>1 DEF IInv, TypeOK
<1> QED BY <1>1, <1>2, <1>3, <1>4, EndKeeps

\* Both outcomes of verificar_negocio on chain.
LEMMA VerifiedGrow ==
    ASSUME IInv, NEW t \in Slots, NEW w \in Wallets, pda[w] # None,
           pda' = [pda EXCEPT ![w].verified = TRUE], row' = row
    PROVE  /\ AccountsGrow /\ OwnOnly(t)
           /\ pda' \in [Wallets -> Account \cup {None}]
           /\ pda'[w] # None /\ pda'[w].verified
           /\ \A v \in Wallets : pda'[v] # None => /\ pda[v] # None
                                     /\ pda'[v].business = pda[v].business
<1>1. pda[w] \in Account /\ pda \in [Wallets -> Account \cup {None}]
  BY DEF IInv, TypeOK
<1>2. pda' = [pda EXCEPT ![w] = [pda[w] EXCEPT !.verified = TRUE]]
  OBVIOUS
<1>3. [pda[w] EXCEPT !.verified = TRUE] \in Account
  BY <1>1 DEF Account
<1>4. [pda[w] EXCEPT !.verified = TRUE] # None
  BY <1>3, NoneAssumption
<1>5. /\ pda'[w] # None /\ pda'[w].verified
      /\ pda'[w].business = pda[w].business
  BY <1>1, <1>2, <1>4 DEF Account
<1>6. \A v \in Wallets \ {w} : pda'[v] = pda[v]
  BY <1>1, <1>2
<1> QED BY <1>1, <1>2, <1>3, <1>5, <1>6 DEF AccountsGrow, OwnOnly

LEMMA VerifyConfirmedKeeps ==
    ASSUME IInv, NEW t \in Slots, VerifyConfirmed(t)
    PROVE  IInv'
<1>0. PICK k \in Task \cup {None} : k = task[t]
  BY DEF IInv, TypeOK
<1> DEFINE c == [k.copy EXCEPT !.verified = TRUE, !.verifyTx = k.copy.wallet]
           r == [k EXCEPT !.pc = "save", !.copy = c]
<1>1. /\ k \in Task /\ k # None /\ k.pc = "verify"
      /\ k.copy \in Row /\ k.copy.wallet \in Wallets /\ k.id \in Ids
      /\ TaskTruthful(t)
  BY <1>0 DEF IInv, TypeOK, TasksTruthful, VerifyConfirmed, At, Task, Row
<1>2. Registered(k.copy, k.id)
  BY <1>0, <1>1 DEF TaskTruthful
<1>3. /\ pda[k.copy.wallet] # None
      /\ pda' = [pda EXCEPT ![k.copy.wallet].verified = TRUE]
      /\ row' = row /\ orphaned' = orphaned /\ contended' = contended
      /\ task' = [task EXCEPT ![t] = r]
  BY <1>0 DEF VerifyConfirmed, CanVerify, GoOnWith
<1>4. /\ c \in Row /\ c.verified /\ c.verifyTx = k.copy.wallet
      /\ c.registerTx = k.copy.registerTx
  BY <1>1 DEF Row
<1>5. /\ r \in Task /\ r.id = k.id /\ r.pc = "save" /\ r.copy = c
  BY <1>1, <1>4 DEF Task
<1>6. r # None /\ k.copy.wallet # None
  BY <1>1, <1>5, NoneAssumption
<1>7. task'[t] = r
  BY <1>3 DEF IInv, TypeOK
<1>8. /\ AccountsGrow /\ OwnOnly(t)
      /\ pda' \in [Wallets -> Account \cup {None}]
      /\ pda'[k.copy.wallet] # None /\ pda'[k.copy.wallet].verified
      /\ \A v \in Wallets : pda'[v] # None => /\ pda[v] # None
                                /\ pda'[v].business = pda[v].business
  BY <1>1, <1>3, VerifiedGrow
<1>9. TypeOK'
  BY <1>3, <1>5, <1>8 DEF IInv, TypeOK
<1>10. TaskTruthful(t)'
  <2>1. Registered(k.copy, k.id)'
    BY <1>1, <1>2, <1>8, KeepRegistered
  <2>2. Registered(c, k.id)'
    BY <2>1, <1>4 DEF Registered
  <2>3. VerificationBacked(c)'
    BY <1>4, <1>6, <1>8 DEF VerificationBacked
  <2> HIDE DEF c
  <2> QED BY <1>5, <1>7, <2>2, <2>3 DEF TaskTruthful, Registered, VerificationBacked
<1> HIDE DEF r
<1>11. AccountsAccounted'
  BY <1>0, <1>1, <1>3, <1>5, <1>8, AccountedKept DEF At
<1> QED BY <1>0, <1>1, <1>3, <1>5, <1>8, <1>9, <1>10, <1>11, StepKeeps

LEMMA VerifyUnconfirmedKeeps ==
    ASSUME IInv, NEW t \in Slots, VerifyUnconfirmed(t)
    PROVE  IInv'
<1> DEFINE w == task[t].copy.wallet
<1>1. /\ task[t] # None /\ task[t].pc = "verify" /\ w \in Wallets
      /\ pda[w] # None /\ pda' = [pda EXCEPT ![w].verified = TRUE]
      /\ row' = row /\ orphaned' = orphaned /\ contended' = contended
      /\ End(t)
  BY DEF IInv, TypeOK, VerifyUnconfirmed, CanVerify, At, Task, Row
<1>2. /\ AccountsGrow /\ OwnOnly(t)
      /\ pda' \in [Wallets -> Account \cup {None}]
      /\ \A v \in Wallets : pda'[v] # None => /\ pda[v] # None
                                /\ pda'[v].business = pda[v].business
  BY <1>1, VerifiedGrow
<1>3. AccountsAccounted'
  BY <1>1, <1>2, AccountedKept DEF At, End
<1>4. orphaned' \subseteq Ids
  BY <1>1 DEF IInv, TypeOK
<1> QED BY <1>1, <1>2, <1>3, <1>4, EndKeeps

LEMMA LostKeeps ==
    ASSUME IInv, NEW t \in Slots, Lost(t)
    PROVE  IInv'
<1>1. /\ task[t] # None /\ task[t] \in Task /\ task[t].id \in Ids
      /\ End(t) /\ row' = row /\ pda' = pda /\ contended' = contended
      /\ orphaned \subseteq orphaned' /\ orphaned' \subseteq Ids
      /\ At(t, "save") => row'[task[t].id] # None \/ task[t].id \in orphaned'
  BY DEF IInv, TypeOK, Lost, Task
<1>2. AccountsGrow /\ OwnOnly(t)
  BY <1>1 DEF AccountsGrow, OwnOnly
<1>3. AccountsAccounted'
  BY <1>1, AccountedKept DEF Settled, End
<1>4. pda' \in [Wallets -> Account \cup {None}]
  BY <1>1 DEF IInv, TypeOK
<1> QED BY <1>1, <1>2, <1>3, <1>4, EndKeeps

LEMMA SaveKeeps ==
    ASSUME IInv, NEW t \in Slots, Save(t)
    PROVE  IInv'
<1> DEFINE k == task[t]
<1>1. /\ k \in Task /\ k # None /\ k.pc = "save"
      /\ k.copy \in Row /\ k.id \in Ids /\ TaskTruthful(t)
  BY DEF IInv, TypeOK, TasksTruthful, Save, At, Task
<1>2. /\ row' = [row EXCEPT ![k.id] = k.copy]
      /\ task' = [task EXCEPT ![t] = None]
      /\ pda' = pda /\ orphaned' = orphaned /\ contended' = contended
  BY DEF Save, End
<1>3. k.copy # None
  BY <1>1, NoneAssumption
<1>4. /\ row'[k.id] = k.copy
      /\ \A b \in Ids \ {k.id} : row'[b] = row[b]
      /\ task'[t] = None
  BY <1>1, <1>2 DEF IInv, TypeOK
<1>5. TypeOK'
  BY <1>1, <1>2 DEF IInv, TypeOK
<1>6. AccountsGrow /\ OwnOnly(t) /\ NextHeld(t, None)
  BY <1>1, <1>2, <1>4 DEF AccountsGrow, OwnOnly, NextHeld
<1>7. TasksTruthful'
  <2>1. \A u \in Slots \ {t} : TaskTruthful(u)'
    BY <1>2, <1>6, OthersTruthful
  <2>2. TaskTruthful(t)'
    BY <1>4 DEF TaskTruthful
  <2> QED BY <2>1, <2>2 DEF TasksTruthful
<1>8. Registered(k.copy, k.id) /\ VerificationBacked(k.copy)
  BY <1>1 DEF TaskTruthful
<1>9. RowsRegistered'
  BY <1>2, <1>4, <1>8 DEF IInv, RowsRegistered, Registered
<1>10. VerifiedBacked'
  BY <1>2, <1>4, <1>8 DEF IInv, VerifiedBacked, VerificationBacked
<1>11. AccountsAccounted'
  BY <1>2, <1>3, <1>4, AccountedKept DEF Settled
<1> QED BY <1>5, <1>7, <1>9, <1>10, <1>11 DEF IInv

-----------------------------------------------------------------------------
(* Requests that begin.                                                    *)

LEMMA CreateBeginKeeps ==
    ASSUME IInv, NEW t \in Slots, NEW b \in Ids, NEW w \in Wallets,
           NEW logo \in Logos, CreateBegin(t, b, w, logo)
    PROVE  IInv'
<1> DEFINE c == [wallet |-> w, logo |-> logo, active |-> TRUE,
                 verified |-> FALSE, registerTx |-> w, verifyTx |-> None]
           r == [pc |-> "register", id |-> b, copy |-> c,
                 role |-> "merchant", patch |-> Field]
<1>1. Fresh(b) /\ Begin(t, "register", b, c, "merchant", Field)
  BY DEF CreateBegin
<1>2. c \in Row /\ r \in Task
  BY LogosAssumption DEF Row, Task
<1>3. /\ task' = [task EXCEPT ![t] = r] /\ task'[t] = r
      /\ \A u \in Slots \ {t} : task'[u] = task[u]
      /\ row' = row /\ pda' = pda
  BY <1>1 DEF Begin, IInv, TypeOK
<1>4. TaskTruthful(t)'
  <2>1. /\ row'[b] = None
        /\ \A v \in Wallets : pda'[v] # None => pda'[v].business # b
        /\ \A u \in Slots \ {t} : task'[u] # None => task'[u].id # b
    BY <1>1, <1>3 DEF Fresh
  <2>2. Unheard(t)'
    BY <1>3, <2>1 DEF Unheard
  <2>3. VerificationBacked(task[t].copy)'
    BY <1>3 DEF VerificationBacked
  <2> QED BY <1>3, <2>2, <2>3 DEF TaskTruthful
<1> HIDE DEF c
<1> QED BY <1>1, <1>2, <1>4, BeginKeeps

\* A request that begins with a copy of a row.
LEMMA CopyKeeps ==
    ASSUME IInv, NEW t \in Slots, NEW b \in Ids, row[b] # None,
           NEW pc \in {"verify", "save"}, NEW c \in Row,
           NEW role \in Roles, NEW patch \in SUBSET Field,
           c.registerTx = row[b].registerTx, c.verified = row[b].verified,
           c.verifyTx = row[b].verifyTx, pc = "verify" => ~c.verified,
           Begin(t, pc, b, c, role, patch)
    PROVE  IInv'
<1> DEFINE r == [pc |-> pc, id |-> b, copy |-> c, role |-> role,
                 patch |-> patch]
<1>1. r \in Task
  BY DEF Task
<1>2. /\ task'[t] = r /\ pda' = pda
  BY DEF Begin, IInv, TypeOK
<1>3. Registered(c, b)' /\ VerificationBacked(c)'
  BY <1>2 DEF IInv, RowsRegistered, VerifiedBacked, Registered, VerificationBacked
<1>4. TaskTruthful(t)'
  BY <1>2, <1>3 DEF TaskTruthful, Registered, VerificationBacked
<1> HIDE DEF r
<1> QED BY <1>1, <1>4, BeginKeeps DEF r

LEMMA VerifyBeginKeeps ==
    ASSUME IInv, NEW t \in Slots, NEW b \in Ids, NEW role \in Roles,
           VerifyBegin(t, b, role)
    PROVE  IInv'
<1>1. PICK c \in Row : c = row[b]
  BY DEF VerifyBegin, IInv, TypeOK
<1> QED BY <1>1, CopyKeeps DEF VerifyBegin

LEMMA UpdateBeginKeeps ==
    ASSUME IInv, NEW t \in Slots, NEW b \in Ids, NEW role \in Roles,
           NEW patch \in Patches, NEW w \in Wallets, NEW logo \in Logos,
           NEW active \in BOOLEAN,
           UpdateBegin(t, b, role, patch, w, logo, active)
    PROVE  IInv'
<1>1. row[b] \in Row
  BY DEF UpdateBegin, IInv, TypeOK
<1>2. PICK c : c = Patched(row[b], patch, w, logo, active)
  OBVIOUS
<1>3. /\ c \in Row /\ c.registerTx = row[b].registerTx
      /\ c.verified = row[b].verified /\ c.verifyTx = row[b].verifyTx
  BY <1>1, <1>2, LogosAssumption DEF Patched, SentLogo, Row
<1>4. patch \in SUBSET Field
  BY PatchesAssumption
<1> QED BY <1>2, <1>3, <1>4, CopyKeeps DEF UpdateBegin

LEMMA RemoveBeginKeeps ==
    ASSUME IInv, NEW t \in Slots, NEW b \in Ids, NEW role \in Roles,
           RemoveBegin(t, b, role)
    PROVE  IInv'
<1>1. row[b] \in Row
  BY DEF RemoveBegin, IInv, TypeOK
<1>2. PICK c : c = [row[b] EXCEPT !.active = FALSE]
  OBVIOUS
<1>3. /\ c \in Row /\ c.registerTx = row[b].registerTx
      /\ c.verified = row[b].verified /\ c.verifyTx = row[b].verifyTx
  BY <1>1, <1>2 DEF Row
<1>4. {"active"} \in SUBSET Field
  BY DEF Field
<1> QED BY <1>2, <1>3, <1>4, CopyKeeps DEF RemoveBegin

-----------------------------------------------------------------------------
(* The theorems.                                                           *)

LEMMA InitIInv == Init => IInv
<1> SUFFICES ASSUME Init PROVE IInv
  OBVIOUS
<1>1. TypeOK
  BY DEF Init, TypeOK
<1> QED BY <1>1 DEF Init, IInv, TasksTruthful, TaskTruthful, RowsRegistered,
                    VerifiedBacked, AccountsAccounted

LEMMA StutterKeeps == IInv /\ UNCHANGED vars => IInv'
  BY DEF vars, IInv, TypeOK, TasksTruthful, TaskTruthful, Unheard, Registered,
         VerificationBacked, RowsRegistered, VerifiedBacked, AccountsAccounted, At

LEMMA NextIInv == IInv /\ [Next]_vars => IInv'
<1> SUFFICES ASSUME IInv, [Next]_vars PROVE IInv'
  OBVIOUS
<1>1. CASE Requests
  <2>1. PICK t \in Slots, b \in Ids, role \in Roles :
            \/ \E w \in Wallets, logo \in Logos : CreateBegin(t, b, w, logo)
            \/ VerifyBegin(t, b, role)
            \/ \E patch \in Patches, w \in Wallets,
                  logo \in Logos, active \in BOOLEAN :
                   UpdateBegin(t, b, role, patch, w, logo, active)
            \/ RemoveBegin(t, b, role)
    BY <1>1 DEF Requests
  <2> QED BY <2>1, CreateBeginKeeps, VerifyBeginKeeps, UpdateBeginKeeps,
             RemoveBeginKeeps
<1>2. CASE Progress
  BY <1>2, RegisterConfirmedKeeps, RegisterUnconfirmedKeeps,
     VerifyConfirmedKeeps, VerifyUnconfirmedKeeps, TransactionFailsKeeps,
     SaveKeeps, LostKeeps DEF Progress
<1>3. CASE UNCHANGED vars
  BY <1>3, StutterKeeps
<1> QED BY <1>1, <1>2, <1>3 DEF Next

-----------------------------------------------------------------------------
(* The businesses that no two requests hold at the same time.              *)

\* A request begins with an active copy only where it may save one.
LEMMA BeginCopies ==
    ASSUME TypeOK, CopiesInactive, NEW t \in Slots, NEW b \in Ids,
           NEW pc, NEW copy, NEW role, NEW patch,
           Begin(t, pc, b, copy, role, patch),
           role # "admin" /\ row[b] # None => (copy.active => row[b].active)
    PROVE  CopiesInactive'
<1> DEFINE r == [pc |-> pc, id |-> b, copy |-> copy,
                 role |-> role, patch |-> patch]
<1>1. task'[t] = r /\ \A u \in Slots \ {t} : task'[u] = task[u]
  BY DEF Begin, TypeOK
<1>2. /\ UNCHANGED row /\ contended \subseteq contended'
      /\ b \notin contended' =>
             \A u \in Slots : task[u] # None => task[u].id # b
  BY DEF Begin
<1>3. ASSUME NEW u \in Slots, task'[u] # None, task'[u].id \notin contended'
      PROVE  /\ HeldAlone(u)'
             /\ task'[u].role # "admin" /\ row'[task'[u].id] # None =>
                   (task'[u].copy.active => row'[task'[u].id].active)
  <2>1. CASE u = t
    <3>1. task'[u].id = b /\ task'[u].role = role /\ task'[u].copy = copy
      BY <1>1, <2>1
    <3>2. HeldAlone(u)'
      BY <1>1, <1>2, <1>3, <2>1, <3>1 DEF HeldAlone
    <3> QED BY <1>2, <3>1, <3>2
  <2>2. CASE u # t
    <3>1. task'[u] = task[u] /\ task[u].id \notin contended
      BY <1>1, <1>2, <1>3, <2>2
    <3>2. /\ HeldAlone(u)
          /\ task[u].role # "admin" /\ row[task[u].id] # None =>
                (task[u].copy.active => row[task[u].id].active)
      BY <1>3, <3>1 DEF CopiesInactive
    <3>3. task[u].id # b \/ b \in contended'
      BY <1>2, <1>3, <3>1
    <3>4. task'[t].id # task'[u].id
      BY <1>1, <1>3, <3>1, <3>3
    <3>5. HeldAlone(u)'
      BY <1>1, <3>1, <3>2, <3>4 DEF HeldAlone
    <3> QED BY <1>2, <3>1, <3>2, <3>5
  <2> QED BY <2>1, <2>2
<1> QED BY <1>3 DEF CopiesInactive

\* The step of a request writes no row but its own, as its last act.
LEMMA StepCopies ==
    ASSUME TypeOK, CopiesInactive, NEW t \in Slots, task[t] # None,
           NEW r \in Task \cup {None}, task' = [task EXCEPT ![t] = r],
           UNCHANGED contended,
           \A b \in Ids \ {task[t].id} : row'[b] = row[b],
           r # None => /\ UNCHANGED row
                       /\ r.id = task[t].id /\ r.role = task[t].role
                       /\ r.copy.active = task[t].copy.active
    PROVE  CopiesInactive'
<1>1. task'[t] = r /\ \A u \in Slots \ {t} : task'[u] = task[u]
  BY DEF TypeOK
<1>2. ASSUME NEW u \in Slots, task'[u] # None, task'[u].id \notin contended'
      PROVE  /\ HeldAlone(u)'
             /\ task'[u].role # "admin" /\ row'[task'[u].id] # None =>
                   (task'[u].copy.active => row'[task'[u].id].active)
  <2>1. /\ task[u] # None /\ task'[u].id = task[u].id
        /\ task'[u].role = task[u].role
        /\ task'[u].copy.active = task[u].copy.active
        /\ task[u].id \in Ids
    BY <1>1, <1>2 DEF TypeOK, Task
  <2>2. /\ HeldAlone(u)
        /\ task[u].role # "admin" /\ row[task[u].id] # None =>
              (task[u].copy.active => row[task[u].id].active)
    BY <1>2, <2>1 DEF CopiesInactive
  <2>3. row'[task[u].id] = row[task[u].id]
    <3>1. CASE u = t
      BY <1>1, <1>2, <3>1
    <3>2. CASE u # t
      BY <2>1, <2>2, <3>2 DEF HeldAlone
    <3> QED BY <3>1, <3>2
  <2>4. HeldAlone(u)'
    BY <1>1, <2>1, <2>2 DEF HeldAlone
  <2> QED BY <2>1, <2>2, <2>3, <2>4
<1> QED BY <1>2 DEF CopiesInactive

LEMMA RequestsCopies ==
    ASSUME IInv, CopiesInactive, Requests
    PROVE  CopiesInactive'
<1>1. PICK t \in Slots, b \in Ids, role \in Roles :
          \/ \E w \in Wallets, logo \in Logos : CreateBegin(t, b, w, logo)
          \/ VerifyBegin(t, b, role)
          \/ \E patch \in Patches, w \in Wallets,
                logo \in Logos, active \in BOOLEAN :
                 UpdateBegin(t, b, role, patch, w, logo, active)
          \/ RemoveBegin(t, b, role)
  BY DEF Requests
<1>2. TypeOK
  BY DEF IInv
<1>3. ASSUME NEW w \in Wallets, NEW logo \in Logos, CreateBegin(t, b, w, logo)
      PROVE  CopiesInactive'
  BY <1>2, <1>3, BeginCopies DEF CreateBegin, Fresh
<1>4. CASE VerifyBegin(t, b, role)
  BY <1>2, <1>4, BeginCopies DEF VerifyBegin
<1>5. ASSUME NEW patch \in Patches, NEW w \in Wallets, NEW logo \in Logos,
             NEW active \in BOOLEAN,
             UpdateBegin(t, b, role, patch, w, logo, active)
      PROVE  CopiesInactive'
  <2>1. role # "admin" => row[b].active
    BY <1>5 DEF UpdateBegin, MayUpdate
  <2> QED BY <1>2, <1>5, <2>1, BeginCopies DEF UpdateBegin
<1>6. CASE RemoveBegin(t, b, role)
  BY <1>2, <1>6, BeginCopies DEF RemoveBegin
<1> QED BY <1>1, <1>3, <1>4, <1>5, <1>6

LEMMA ProgressCopies ==
    ASSUME IInv, CopiesInactive, Progress
    PROVE  CopiesInactive'
<1>1. PICK t \in Slots :
          \/ RegisterConfirmed(t) \/ RegisterUnconfirmed(t)
          \/ VerifyConfirmed(t) \/ VerifyUnconfirmed(t)
          \/ TransactionFails(t) \/ Save(t) \/ Lost(t)
  BY DEF Progress
<1>2. TypeOK
  BY DEF IInv
<1>3. task[t] \in Task /\ task[t] # None
  BY <1>1, <1>2 DEF RegisterConfirmed, RegisterUnconfirmed, VerifyConfirmed,
     VerifyUnconfirmed, TransactionFails, Save, Lost, At, TypeOK
<1>4. CASE End(t)
  <2>1. /\ task' = [task EXCEPT ![t] = None]
        /\ UNCHANGED contended
        /\ \A b \in Ids \ {task[t].id} : row'[b] = row[b]
    BY <1>1, <1>2, <1>4
       DEF RegisterConfirmed, RegisterUnconfirmed, VerifyConfirmed,
       VerifyUnconfirmed, TransactionFails, Save, Lost, End, TypeOK
  <2> QED BY <1>2, <1>3, <2>1, StepCopies
<1>5. CASE RegisterConfirmed(t) \/ VerifyConfirmed(t)
  <2>1. PICK copy \in Row :
            /\ GoOnWith(t, copy) /\ copy.active = task[t].copy.active
            /\ UNCHANGED <<row, contended>>
    <3>1. task[t].copy \in Row
      BY <1>3 DEF Task
    <3>2. CASE RegisterConfirmed(t)
      BY <3>1, <3>2 DEF RegisterConfirmed
    <3>3. CASE VerifyConfirmed(t)
      BY <3>1, <3>3 DEF VerifyConfirmed, Row
    <3> QED BY <1>5, <3>2, <3>3
  <2> DEFINE r == [task[t] EXCEPT !.pc = "save", !.copy = copy]
  <2>2. /\ task' = [task EXCEPT ![t] = r] /\ r \in Task
        /\ r.id = task[t].id /\ r.role = task[t].role /\ r.copy = copy
    BY <1>2, <1>3, <2>1 DEF GoOnWith, Task
  <2> HIDE DEF r
  <2> QED BY <1>2, <1>3, <2>1, <2>2, StepCopies
<1> QED BY <1>1, <1>4, <1>5
        DEF RegisterUnconfirmed, VerifyUnconfirmed, TransactionFails, Save, Lost

LEMMA StutterCopies ==
    ASSUME CopiesInactive, UNCHANGED vars
    PROVE  CopiesInactive'
  BY DEF vars, CopiesInactive, HeldAlone

LEMMA AlwaysCopiesInactive == Spec => [](IInv /\ CopiesInactive)
<1>1. Init => IInv /\ CopiesInactive
  BY InitIInv DEF Init, CopiesInactive
<1>2. IInv /\ CopiesInactive /\ [Next]_vars => (IInv /\ CopiesInactive)'
  BY NextIInv, RequestsCopies, ProgressCopies, StutterCopies DEF Next
<1> QED BY <1>1, <1>2, PTL DEF Spec

-----------------------------------------------------------------------------
\* However many requests overlap, fail and stop in between, the inductive
\* invariant of businesses.service.ts holds, and with it each part below.
THEOREM Invariant == Spec => []IInv
<1>1. Init => IInv
  BY InitIInv
<1>2. IInv /\ [Next]_vars => IInv'
  BY NextIInv
<1> QED BY <1>1, <1>2, PTL DEF Spec

\* Rows, accounts and requests keep their types.
THEOREM TypeCorrect == Spec => []TypeOK
<1>1. IInv => TypeOK
  BY DEF IInv
<1> QED BY <1>1, Invariant, PTL

\* "La blockchain es la fuente de verdad" (create): every row is that of a
\* business registered on chain, in the account it was created with.
THEOREM RowsAreRegistered == Spec => []RowsRegistered
<1>1. IInv => RowsRegistered
  BY DEF IInv
<1> QED BY <1>1, Invariant, PTL

\* A business is verified in the database only after the account that its
\* signature names was verified on chain (verify).
THEOREM VerificationIsBacked == Spec => []VerifiedBacked
<1>1. IInv => VerifiedBacked
  BY DEF IInv
<1> QED BY <1>1, Invariant, PTL

\* An account on chain without a row is that of a request still running or
\* of one that failed between the two: there is no other way to an orphan.
THEOREM AccountsAreAccounted == Spec => []AccountsAccounted
<1>1. IInv => AccountsAccounted
  BY DEF IInv
<1> QED BY <1>1, Invariant, PTL

\* "Solo administradores pueden cambiar el estado activo del negocio"
\* (update): only a request of an admin reactivates a business that no two
\* requests held at the same time.
THEOREM Reactivation == Spec => OnlyAdminsReactivate
<1>1. ASSUME IInv, CopiesInactive, Next, NEW b \in Ids \ contended,
             row[b] # None, ~row[b].active, row'[b].active
      PROVE  \E t \in Slots : /\ At(t, "save") /\ task[t].id = b
                              /\ task[t].role = "admin" /\ task'[t] = None
  <2>1. row'[b] # row[b]
    BY <1>1
  <2>2. PICK t \in Slots : Save(t)
    <3>1. Requests => UNCHANGED row
      BY DEF Requests, CreateBegin, VerifyBegin, UpdateBegin, RemoveBegin, Begin
    <3>2. Progress => UNCHANGED row \/ \E t \in Slots : Save(t)
      BY DEF Progress, RegisterConfirmed, RegisterUnconfirmed,
         VerifyConfirmed, VerifyUnconfirmed, TransactionFails, Lost
    <3> QED BY <1>1, <2>1, <3>1, <3>2 DEF Next
  <2>3. task[t] \in Task /\ task[t] # None /\ TypeOK
    BY <1>1, <2>2 DEF IInv, TypeOK, Save, At
  <2>4. task[t].id = b /\ row'[b] = task[t].copy /\ task'[t] = None
    BY <1>1, <2>1, <2>2, <2>3 DEF Save, End, TypeOK, Task
  <2>5. task[t].role = "admin"
    BY <1>1, <2>3, <2>4 DEF CopiesInactive
  <2> QED BY <2>2, <2>4, <2>5 DEF Save
<1>2. IInv /\ CopiesInactive /\ [Next]_vars =>
          [\A b \in Ids \ contended :
               row[b] # None /\ ~row[b].active /\ row'[b].active =>
                   \E t \in Slots : /\ At(t, "save")
                                    /\ task[t].id = b
                                    /\ task[t].role = "admin"
                                    /\ task'[t] = None]_vars
  BY <1>1
<1> QED BY <1>2, AlwaysCopiesInactive, PTL DEF Spec, OnlyAdminsReactivate
=============================================================================
