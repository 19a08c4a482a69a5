---------------------------- MODULE ApiKeysProofs ----------------------------
(***************************************************************************)
(* Proofs about ApiKeys for any keys and number of requests in flight.     *)
(***************************************************************************)
EXTENDS ApiKeys, TLAPS

Operations == {"validate", "revoke", "disable", "enable"}

\* What a row or a copy says was asked.
Asked(k, r, done) ==
    /\ r.revoked => <<"revoke", k>> \in done
    /\ r.disabled => <<"disable", k>> \in done

LEMMA AskedForm ==
    NothingUnasked <=>
        /\ \A k \in Keys : row[k] # None => Asked(k, row[k], asked)
        /\ \A t \in Slots :
               task[t] # None => /\ row[task[t].key] # None
                                 /\ Asked(task[t].key, task[t].copy, asked)
                                 /\ task[t].op # "validate" =>
                                        <<task[t].op, task[t].key>> \in asked
  BY DEF NothingUnasked, Asked

\* A change touches its own column.
LEMMA ChangedRow ==
    ASSUME NEW r \in Row, NEW op \in Operations
    PROVE  /\ Changed(r, op) \in Row
           /\ op = "revoke" => Changed(r, op).revoked
           /\ r.revoked => Changed(r, op).revoked
           /\ r.disabled /\ ~Changed(r, op).disabled => op = "enable"
           /\ Changed(r, op).revoked => r.revoked \/ op = "revoke"
           /\ Changed(r, op).disabled => r.disabled \/ op = "disable"
<1>1. CASE op = "validate"
  BY <1>1 DEF Changed
<1>2. CASE op = "revoke"
  <2>1. Changed(r, op) = [r EXCEPT !.revoked = TRUE]
    BY <1>2 DEF Changed
  <2> QED BY <1>2, <2>1 DEF Row
<1>3. CASE op = "disable"
  <2>1. Changed(r, op) = [r EXCEPT !.disabled = TRUE]
    BY <1>3 DEF Changed
  <2> QED BY <1>3, <2>1 DEF Row
<1>4. CASE op = "enable"
  <2>1. Changed(r, op) = [r EXCEPT !.disabled = FALSE]
    BY <1>4 DEF Changed
  <2> QED BY <1>4, <2>1 DEF Row
<1> QED BY <1>1, <1>2, <1>3, <1>4 DEF Operations

LEMMA TaskFields ==
    ASSUME TypeOK, NEW t \in Slots, task[t] # None
    PROVE  /\ task[t].op \in Operations /\ task[t].key \in Keys
           /\ task[t].copy \in Row
  BY DEF TypeOK, Task, Operations

-----------------------------------------------------------------------------
\* A request that has read a row holds its change of it.
LEMMA BeginInv ==
    ASSUME IInv, NEW t \in Slots, NEW op \in Operations, NEW k \in Keys,
           row[k] # None, Begin(t, op, k, Changed(row[k], op)),
           \/ op = "validate" /\ UNCHANGED asked
           \/ op # "validate" /\ Ask(op, k)
    PROVE  IInv'
<1> DEFINE copy == Changed(row[k], op)
           r == [op |-> op, key |-> k, copy |-> copy]
<1>1. /\ row \in [Keys -> Row \cup {None}] /\ row[k] \in Row
      /\ task \in [Slots -> Task \cup {None}]
  BY DEF IInv, TypeOK
<1>2. copy \in Row
  BY <1>1, ChangedRow
<1>3. r \in Task /\ r # None
  BY <1>2, NoneAssumption DEF Task, Operations
<1>4. /\ task[t] = None /\ task' = [task EXCEPT ![t] = r]
      /\ UNCHANGED <<active, row, answered>>
      /\ contended' = IF \E u \in Slots : task[u] # None /\ task[u].key = k
                      THEN contended \cup {k} ELSE contended
  BY DEF Begin
<1>5. /\ task'[t] = r /\ task' \in [Slots -> Task \cup {None}]
      /\ \A u \in Slots \ {t} : task'[u] = task[u]
  BY <1>1, <1>3, <1>4
<1>6. asked \subseteq asked' /\ asked' \subseteq {"revoke", "disable", "enable"} \X Keys
  BY DEF Ask, IInv, TypeOK, Operations
<1>7. Asked(k, copy, asked')
  <2>1. Asked(k, row[k], asked)
    BY AskedForm DEF IInv
  <2>2. op # "validate" => <<op, k>> \in asked'
    BY DEF Ask
  <2>3. /\ copy.revoked => row[k].revoked \/ op = "revoke"
        /\ copy.disabled => row[k].disabled \/ op = "disable"
    BY <1>1, ChangedRow
  <2> HIDE DEF copy
  <2> QED BY <1>6, <2>1, <2>2, <2>3 DEF Asked
<1>8. r.op = op /\ r.key = k /\ r.copy = copy
  OBVIOUS
<1> HIDE DEF r, copy
<1>9. TypeOK'
  BY <1>4, <1>5, <1>6 DEF IInv, TypeOK
<1>10. NothingUnasked'
  <2>1. \A j \in Keys : row[j] # None => Asked(j, row[j], asked')
    BY <1>6, AskedForm DEF IInv, Asked
  <2>2. \A u \in Slots : task'[u] # None => /\ row[task'[u].key] # None
                                            /\ Asked(task'[u].key, task'[u].copy, asked')
                                            /\ task'[u].op # "validate" =>
                                                   <<task'[u].op, task'[u].key>> \in asked'
    <3>1. \A u \in Slots \ {t} : task[u] # None =>
              /\ row[task[u].key] # None /\ Asked(task[u].key, task[u].copy, asked')
              /\ task[u].op # "validate" => <<task[u].op, task[u].key>> \in asked'
      BY <1>6, AskedForm DEF IInv, Asked
    <3>2. op # "validate" => <<op, k>> \in asked'
      BY DEF Ask
    <3> QED BY <1>5, <1>7, <1>8, <3>1, <3>2
  <2> QED BY <1>4, <2>1, <2>2 DEF NothingUnasked, Asked
<1>11. CopiesCurrent'
  <2> SUFFICES ASSUME NEW u \in Slots, task'[u] # None,
                      task'[u].key \notin contended'
               PROVE  /\ task'[u].copy = Changed(row[task'[u].key], task'[u].op)
                      /\ \A v \in Slots \ {u} :
                             task'[v] # None => task'[v].key # task'[u].key
    BY <1>4 DEF CopiesCurrent, Changed
  <2>1. contended \subseteq contended'
    BY <1>4
  <2>2. CASE u = t
    <3>1. \A v \in Slots : task[v] # None => task[v].key # k
      BY <1>4, <1>5, <1>8, <2>2
    <3> QED BY <1>5, <1>8, <2>2, <3>1 DEF copy
  <2>3. CASE u # t
    <3>1. /\ task[u].copy = Changed(row[task[u].key], task[u].op)
          /\ \A v \in Slots \ {u} : task[v] # None => task[v].key # task[u].key
      BY <1>5, <2>1, <2>3 DEF IInv, CopiesCurrent
    <3>2. task[u].key # k
      BY <1>4, <1>5, <2>3
    <3> QED BY <1>5, <1>8, <2>3, <3>1, <3>2
  <2> QED BY <2>2, <2>3
<1>12. RevocationsHold'
  BY <1>4 DEF IInv, RevocationsHold
<1> QED BY <1>9, <1>10, <1>11, <1>12 DEF IInv

LEMMA ValidateBeginInv ==
    ASSUME IInv, NEW t \in Slots, NEW k \in Keys, ValidateBegin(t, k)
    PROVE  IInv'
<1>1. row[k] = Changed(row[k], "validate")
  BY DEF Changed
<1> QED BY <1>1, BeginInv DEF ValidateBegin, Operations

LEMMA RevokeBeginInv ==
    ASSUME IInv, NEW t \in Slots, NEW k \in Keys, NEW role \in Role,
           RevokeBegin(t, k, role)
    PROVE  IInv'
<1>1. [row[k] EXCEPT !.revoked = TRUE] = Changed(row[k], "revoke")
  BY DEF Changed
<1> QED BY <1>1, BeginInv DEF RevokeBegin, Operations

LEMMA SetDisabledBeginInv ==
    ASSUME IInv, NEW t \in Slots, NEW k \in Keys, NEW disabled \in BOOLEAN,
           SetDisabledBegin(t, k, disabled)
    PROVE  IInv'
<1>1. CASE disabled = TRUE
  <2>1. [row[k] EXCEPT !.disabled = TRUE] = Changed(row[k], "disable")
    BY DEF Changed
  <2>2. Begin(t, "disable", k, [row[k] EXCEPT !.disabled = TRUE]) /\ Ask("disable", k)
    BY <1>1 DEF SetDisabledBegin
  <2>3. row[k] # None
    BY DEF SetDisabledBegin
  <2> QED BY <2>1, <2>2, <2>3, BeginInv DEF Operations
<1>2. CASE disabled = FALSE
  <2>1. [row[k] EXCEPT !.disabled = FALSE] = Changed(row[k], "enable")
    BY DEF Changed
  <2>2. Begin(t, "enable", k, [row[k] EXCEPT !.disabled = FALSE]) /\ Ask("enable", k)
    BY <1>2 DEF SetDisabledBegin
  <2>3. row[k] # None
    BY DEF SetDisabledBegin
  <2> QED BY <2>1, <2>2, <2>3, BeginInv DEF Operations
<1> QED BY <1>1, <1>2

-----------------------------------------------------------------------------
\* The copy that a save writes.
LEMMA SavedCopy ==
    ASSUME IInv, NEW t \in Slots, Save(t),
           NEW k, NEW op, NEW copy,
           k = task[t].key, op = task[t].op, copy = task[t].copy
    PROVE  /\ k \in Keys /\ op \in Operations /\ copy \in Row /\ copy # None
           /\ row[k] \in Row /\ row' = [row EXCEPT ![k] = copy]
           /\ row'[k] = copy
           /\ \A j \in Keys \ {k} : row'[j] = row[j]
           /\ task'[t] = None /\ task' \in [Slots -> Task \cup {None}]
           /\ \A u \in Slots \ {t} : task'[u] = task[u]
           /\ Asked(k, copy, asked)
           /\ k \notin contended =>
                 /\ copy = Changed(row[k], op)
                 /\ \A u \in Slots \ {t} : task[u] # None => task[u].key # k
<1>1. task[t] # None /\ task' = [task EXCEPT ![t] = None]
      /\ row' = [row EXCEPT ![k] = copy]
  BY DEF Save
<1>2. k \in Keys /\ op \in Operations /\ copy \in Row /\ copy # None
  BY <1>1, TaskFields, NoneAssumption DEF IInv
<1>3. /\ row \in [Keys -> Row \cup {None}] /\ task \in [Slots -> Task \cup {None}]
  BY DEF IInv, TypeOK
<1>4. row[k] # None /\ Asked(k, copy, asked)
  BY <1>1, AskedForm DEF IInv
<1>5. k \notin contended =>
                 /\ copy = Changed(row[k], op)
                 /\ \A u \in Slots \ {t} : task[u] # None => task[u].key # k
  BY <1>1 DEF IInv, CopiesCurrent
<1> QED BY <1>1, <1>2, <1>3, <1>4, <1>5

LEMMA SaveInv ==
    ASSUME IInv, NEW t \in Slots, Save(t)
    PROVE  IInv'
<1>0. PICK k, op, copy :
          k = task[t].key /\ op = task[t].op /\ copy = task[t].copy
  OBVIOUS
<1>1. /\ answered' = IF op = "validate" THEN answered
                     ELSE answered \cup {<<op, k>>}
      /\ UNCHANGED <<active, asked, contended>>
      /\ task[t] # None
  BY <1>0 DEF Save
<1>2. /\ k \in Keys /\ op \in Operations /\ copy \in Row /\ copy # None
      /\ row[k] \in Row /\ row' = [row EXCEPT ![k] = copy]
      /\ row'[k] = copy
      /\ \A j \in Keys \ {k} : row'[j] = row[j]
      /\ task'[t] = None /\ task' \in [Slots -> Task \cup {None}]
      /\ \A u \in Slots \ {t} : task'[u] = task[u]
      /\ Asked(k, copy, asked)
      /\ k \notin contended =>
            /\ copy = Changed(row[k], op)
            /\ \A u \in Slots \ {t} : task[u] # None => task[u].key # k
  BY <1>0, SavedCopy
<1>3. answered' \subseteq asked
  <2>1. op # "validate" => <<op, k>> \in asked
    BY <1>0, <1>1, AskedForm DEF IInv
  <2> QED BY <1>1, <2>1 DEF IInv, TypeOK
<1>4. TypeOK'
  <2>1. row' \in [Keys -> Row \cup {None}]
    BY <1>2 DEF IInv, TypeOK
  <2> QED BY <1>1, <1>2, <1>3, <2>1 DEF IInv, TypeOK
<1>5. \A j \in Keys : row[j] # None => row'[j] # None
  BY <1>2
<1>6. NothingUnasked'
  <2>1. \A j \in Keys : row'[j] # None => Asked(j, row'[j], asked)
    BY <1>2, AskedForm DEF IInv
  <2>2. \A u \in Slots : task'[u] # None =>
            /\ row'[task'[u].key] # None
            /\ Asked(task'[u].key, task'[u].copy, asked)
            /\ task'[u].op # "validate" => <<task'[u].op, task'[u].key>> \in asked
    <3>1. \A u \in Slots \ {t} : task[u] # None =>
              /\ row[task[u].key] # None /\ Asked(task[u].key, task[u].copy, asked)
              /\ task[u].op # "validate" => <<task[u].op, task[u].key>> \in asked
              /\ task[u].key \in Keys
      BY AskedForm, TaskFields DEF IInv
    <3> QED BY <1>2, <1>5, <3>1
  <2> QED BY <1>1, <2>1, <2>2 DEF NothingUnasked, Asked
<1>7. CopiesCurrent'
  <2> SUFFICES ASSUME NEW u \in Slots, task'[u] # None,
                      task'[u].key \notin contended
               PROVE  /\ task'[u].copy = Changed(row'[task'[u].key], task'[u].op)
                      /\ \A v \in Slots \ {u} :
                             task'[v] # None => task'[v].key # task'[u].key
    BY <1>1 DEF CopiesCurrent, Changed
  <2>1. u # t /\ task'[u] = task[u]
    BY <1>2
  <2>2. /\ task[u].copy = Changed(row[task[u].key], task[u].op)
        /\ \A v \in Slots \ {u} : task[v] # None => task[v].key # task[u].key
        /\ task[u].key \in Keys
    BY <2>1, TaskFields DEF IInv, CopiesCurrent
  <2>3. task[u].key # k
    BY <1>0, <1>1, <2>1, <2>2
  <2> QED BY <1>2, <2>1, <2>2, <2>3
<1>8. RevocationsHold'
  <2> SUFFICES ASSUME NEW j \in Keys \ contended, <<"revoke", j>> \in answered'
               PROVE  row'[j] # None /\ row'[j].revoked
    BY <1>1 DEF RevocationsHold
  <2>1. CASE j # k
    BY <1>1, <1>2, <2>1 DEF IInv, RevocationsHold
  <2>2. CASE j = k
    <3>1. op = "revoke" \/ row[k].revoked
      BY <1>1, <2>2 DEF IInv, RevocationsHold
    <3> QED BY <1>2, <2>2, <3>1, ChangedRow
  <2> QED BY <2>1, <2>2
<1> QED BY <1>4, <1>6, <1>7, <1>8 DEF IInv

LEMMA LostInv ==
    ASSUME IInv, NEW t \in Slots, Lost(t)
    PROVE  IInv'
<1>1. /\ UNCHANGED <<active, row, asked, answered, contended>>
      /\ task'[t] = None /\ task' \in [Slots -> Task \cup {None}]
      /\ \A u \in Slots \ {t} : task'[u] = task[u]
  BY DEF Lost, IInv, TypeOK
<1>2. TypeOK' /\ RevocationsHold'
  BY <1>1 DEF IInv, TypeOK, RevocationsHold
<1>3. NothingUnasked'
  BY <1>1, AskedForm DEF IInv, NothingUnasked, Asked
<1>4. CopiesCurrent'
  <2> SUFFICES ASSUME NEW u \in Slots, task'[u] # None,
                      task'[u].key \notin contended
               PROVE  /\ task'[u].copy = Changed(row[task'[u].key], task'[u].op)
                      /\ \A v \in Slots \ {u} :
                             task'[v] # None => task'[v].key # task'[u].key
    BY <1>1 DEF CopiesCurrent, Changed
  <2> QED BY <1>1 DEF IInv, CopiesCurrent
<1> QED BY <1>2, <1>3, <1>4 DEF IInv

\* No request has a key that does not exist yet.
LEMMA AddInv ==
    ASSUME IInv, NEW k \in Keys, NEW kind \in {"business", "account"}, Add(k, kind)
    PROVE  IInv'
<1>0. PICK r \in Row : r = [kind |-> kind, revoked |-> FALSE, disabled |-> FALSE]
  BY DEF Row
<1>1. /\ row[k] = None /\ row' = [row EXCEPT ![k] = r]
      /\ UNCHANGED <<active, task, asked, answered, contended>>
      /\ ~r.revoked /\ ~r.disabled
  BY <1>0 DEF Add
<1>2. /\ row' \in [Keys -> Row \cup {None}] /\ row'[k] = r
      /\ \A j \in Keys \ {k} : row'[j] = row[j]
  BY <1>1 DEF IInv, TypeOK
<1>3. \A t \in Slots : task[t] # None => /\ task[t].key \in Keys \ {k}
                                         /\ row'[task[t].key] = row[task[t].key]
  BY <1>1, <1>2, AskedForm, TaskFields DEF IInv
<1>4. TypeOK'
  BY <1>1, <1>2 DEF IInv, TypeOK
<1>5. NothingUnasked'
  <2>1. \A j \in Keys : row'[j] # None => Asked(j, row'[j], asked)
    BY <1>1, <1>2, AskedForm DEF IInv, Asked
  <2>2. \A u \in Slots : task[u] # None =>
            /\ row'[task[u].key] # None
            /\ Asked(task[u].key, task[u].copy, asked)
            /\ task[u].op # "validate" => <<task[u].op, task[u].key>> \in asked
    BY <1>3, AskedForm DEF IInv
  <2> QED BY <1>1, <2>1, <2>2 DEF NothingUnasked, Asked
<1>6. CopiesCurrent'
  <2> SUFFICES ASSUME NEW u \in Slots, task[u] # None,
                      task[u].key \notin contended
               PROVE  /\ task[u].copy = Changed(row'[task[u].key], task[u].op)
                      /\ \A v \in Slots \ {u} :
                             task[v] # None => task[v].key # task[u].key
    BY <1>1 DEF CopiesCurrent, Changed
  <2> QED BY <1>3 DEF IInv, CopiesCurrent
<1>7. RevocationsHold'
  BY <1>1, <1>2 DEF IInv, RevocationsHold
<1> QED BY <1>4, <1>5, <1>6, <1>7 DEF IInv

LEMMA KeysStandStill ==
    ASSUME IInv, UNCHANGED <<row, task, asked, answered, contended>>,
           active' \in BOOLEAN
    PROVE  IInv'
  BY DEF IInv, TypeOK, NothingUnasked, CopiesCurrent, Changed, RevocationsHold

-----------------------------------------------------------------------------
(* The theorems.                                                           *)

LEMMA InitIInv == Init => IInv
  BY DEF Init, IInv, TypeOK, NothingUnasked, CopiesCurrent, RevocationsHold

LEMMA StepIInv == IInv /\ [Next]_vars => IInv'
<1> SUFFICES ASSUME IInv, [Next]_vars PROVE IInv'
  OBVIOUS
<1>1. CASE UNCHANGED vars
  BY <1>1, KeysStandStill DEF vars, IInv, TypeOK
<1>2. ASSUME NEW k \in Keys, NEW role \in Role, CreateForBusiness(k, role)
      PROVE  IInv'
  BY <1>2, AddInv DEF CreateForBusiness
<1>3. ASSUME NEW k \in Keys, CreateForMerchant(k)
      PROVE  IInv'
  BY <1>3, AddInv DEF CreateForMerchant
<1>4. ASSUME NEW t \in Slots, NEW k \in Keys, ValidateBegin(t, k)
      PROVE  IInv'
  BY <1>4, ValidateBeginInv
<1>5. ASSUME NEW t \in Slots, NEW k \in Keys, NEW role \in Role,
             RevokeBegin(t, k, role)
      PROVE  IInv'
  BY <1>5, RevokeBeginInv
<1>6. ASSUME NEW t \in Slots, NEW k \in Keys, NEW disabled \in BOOLEAN,
             SetDisabledBegin(t, k, disabled)
      PROVE  IInv'
  BY <1>6, SetDisabledBeginInv
<1>7. ASSUME NEW t \in Slots, Save(t)
      PROVE  IInv'
  BY <1>7, SaveInv
<1>8. ASSUME NEW t \in Slots, Lost(t)
      PROVE  IInv'
  BY <1>8, LostInv
<1>9. CASE SetActive
  BY <1>9, KeysStandStill DEF SetActive
<1> QED BY <1>1, <1>2, <1>3, <1>4, <1>5, <1>6, <1>7, <1>8, <1>9 DEF Next

\* However validations, revocations and disablings overlap and fail, rows and
\* copies show only what was asked, and the copy of a key that one request
\* alone holds is its row.
THEOREM Invariant == Spec => []IInv
  BY InitIInv, StepIInv, PTL DEF Spec

\* Once a revocation is answered no call is let in with the key, if no other
\* request held a copy of it meanwhile.
THEOREM RevocationsAreFinal == Spec => []RevokedRejected
<1>1. IInv => RevokedRejected
  BY DEF IInv, RevocationsHold, RevokedRejected, Valid
<1> QED BY <1>1, Invariant, PTL

\* Only the administration's request enables a disabled key, if no other held
\* a copy of it meanwhile.
THEOREM DisabledStays == Spec => DisabledUntilAdmin
<1>1. ASSUME IInv, Next, NEW k \in Keys \ contended,
             row[k] # None, row[k].disabled, ~row'[k].disabled
      PROVE  \E t \in Slots : /\ task[t] # None /\ task[t].op = "enable"
                              /\ task[t].key = k /\ task'[t] = None
  <2>1. ASSUME NEW t \in Slots, Save(t)
        PROVE  task[t] # None /\ task[t].op = "enable" /\ task[t].key = k /\ task'[t] = None
    <3>0. PICK j, op, copy :
              j = task[t].key /\ op = task[t].op /\ copy = task[t].copy
      OBVIOUS
    <3>1. /\ op \in Operations /\ row[j] \in Row /\ row'[j] = copy
          /\ \A i \in Keys \ {j} : row'[i] = row[i]
          /\ task'[t] = None
          /\ j \notin contended => copy = Changed(row[j], op)
      BY <1>1, <2>1, <3>0, SavedCopy
    <3>2. j = k
      BY <1>1, <3>1
    <3>3. op = "enable"
      BY <1>1, <3>1, <3>2, ChangedRow
    <3> QED BY <2>1, <3>0, <3>1, <3>2, <3>3 DEF Save
  <2>2. ASSUME NEW j \in Keys, NEW kind, Add(j, kind)
        PROVE  FALSE
    <3>1. j # k /\ row' = [row EXCEPT ![j] = [kind |-> kind, revoked |-> FALSE,
                                              disabled |-> FALSE]]
      BY <1>1, <2>2 DEF Add
    <3>2. row'[k] = row[k]
      BY <3>1 DEF IInv, TypeOK
    <3> QED BY <1>1, <3>2
  <2>3. UNCHANGED row => FALSE
    BY <1>1
  <2>4. \E t \in Slots : Save(t)
    BY <1>1, <2>2, <2>3 DEF Next, CreateForBusiness, CreateForMerchant,
          ValidateBegin, RevokeBegin, SetDisabledBegin, Begin, Lost, SetActive
  <2> QED BY <2>1, <2>4
<1>2. IInv /\ [Next]_vars =>
        [\A k \in Keys \ contended :
           row[k] # None /\ row[k].disabled /\ ~row'[k].disabled =>
               \E t \in Slots : /\ task[t] # None
                                /\ task[t].op = "enable"
                                /\ task[t].key = k
                                /\ task'[t] = None]_vars
  BY <1>1
<1> QED BY <1>2, Invariant, PTL DEF Spec, DisabledUntilAdmin
=============================================================================
