---------------------------- MODULE AccountsProofs ----------------------------
(***************************************************************************)
(* Proofs about Accounts for any users, addresses, passwords and number of *)
(* requests in flight.                                                     *)
(***************************************************************************)
EXTENDS Accounts, TLAPS

LEMMA TaskFields ==
    ASSUME NEW r \in Task
    PROVE  /\ r # None /\ r.user \in Users
           /\ r.op \in {"register", "profile", "password", "deactivate"}
           /\ r.op = "register" => r.copy \in Row
           /\ r.op = "profile" => r.copy \in Profile /\ r.by \in {"owner", "admin"}
           /\ r.op = "password" => r.copy \in Passwords
  BY NoneAssumption DEF Task

LEMMA RowFields ==
    ASSUME NEW r \in Row
    PROVE  /\ r # None /\ r.profile \in Profile /\ r.password \in Passwords
           /\ r.profile.email \in Email
           /\ r.profile.email = <<r.profile.email[1], r.profile.email[2]>>
<1>1. r # None /\ r.profile \in Profile /\ r.password \in Passwords
  BY NoneAssumption DEF Row
<1>2. r.profile.email \in Email
  BY <1>1 DEF Profile
<1> QED BY <1>1, <1>2 DEF Email

\* A spelling that login finds is one in lower case.
LEMMA LowerSpelling ==
    ASSUME NEW email \in Email
    PROVE  /\ Normalised(email) \in Email /\ Normalised(email)[2] = "lower"
           /\ email = Normalised(email) => email[2] = "lower"
  BY DEF Normalised, Email, Spelling

-----------------------------------------------------------------------------
\* A request begins with a copy of the account as it is.
LEMMA BeginInv ==
    ASSUME IInv, NEW t \in Slots, NEW r \in Task, Begin(t, r),
           r.op # "register" => row[r.user] # None,
           r.op = "register" =>
              /\ row[r.user] = None /\ r.copy.profile.email[2] = "lower"
              /\ \A s \in Slots : task[s] # None => task[s].user # r.user,
           r.op = "profile" => (r.by = "owner" =>
              /\ r.copy.role = row[r.user].profile.role
              /\ r.copy.active = row[r.user].profile.active)
    PROVE  IInv'
<1>1. /\ task[t] = None /\ task' = [task EXCEPT ![t] = r]
      /\ contended' = IF \E s \in Slots : task[s] # None /\ task[s].user = r.user
                      THEN contended \cup {r.user} ELSE contended
      /\ UNCHANGED <<row, tokens, retyped>>
  BY DEF Begin
<1>2. /\ task'[t] = r /\ task' \in [Slots -> Task \cup {None}]
      /\ \A s \in Slots \ {t} : task'[s] = task[s]
  BY <1>1 DEF IInv, TypeOK
<1>3. r # None /\ r.user \in Users
  BY TaskFields
<1>4. TypeOK'
  BY <1>1, <1>2, <1>3 DEF IInv, TypeOK
<1>5. TokensOfAccounts' /\ EmailsUnique' /\ UnretypedLower'
  BY <1>1 DEF IInv, TokensOfAccounts, EmailsUnique, UnretypedLower
<1>6. TasksOfAccounts'
  <2>1. ASSUME NEW s \in Slots \ {t}, task[s] # None
        PROVE  /\ task[s].op # "register" => row[task[s].user] # None
               /\ task[s].op = "register" =>
                     /\ row[task[s].user] = None
                     /\ task[s].copy.profile.email[2] = "lower"
                     /\ \A v \in Slots \ {s} :
                           task[v] # None => task[v].user # task[s].user
                     /\ r.user # task[s].user
    <3>1. task[s].op = "register" => r.user # task[s].user
      BY <2>1 DEF IInv, TasksOfAccounts
    <3> QED BY <2>1, <3>1 DEF IInv, TasksOfAccounts
  <2>2. ASSUME NEW s \in Slots, task'[s] # None
        PROVE  /\ task'[s].op # "register" => row[task'[s].user] # None
               /\ task'[s].op = "register" =>
                     /\ row[task'[s].user] = None
                     /\ task'[s].copy.profile.email[2] = "lower"
                     /\ \A v \in Slots \ {s} :
                           task'[v] # None => task'[v].user # task'[s].user
    <3>1. CASE s = t
      BY <1>2, <3>1
    <3>2. CASE s # t
      BY <1>1, <1>2, <2>1, <2>2, <3>2
    <3> QED BY <3>1, <3>2
  <2> QED BY <1>1, <2>2 DEF TasksOfAccounts
<1>7. OwnersCopies'
  <2> SUFFICES ASSUME NEW s \in Slots, task'[s] # None,
                      task'[s].user \notin contended'
               PROVE  /\ \A v \in Slots \ {s} :
                            task'[v] # None => task'[v].user # task'[s].user
                      /\ task'[s].op = "profile" => (task'[s].by = "owner" =>
                            /\ task'[s].copy.role = row[task'[s].user].profile.role
                            /\ task'[s].copy.active = row[task'[s].user].profile.active)
    BY <1>1 DEF OwnersCopies
  <2>1. CASE s = t
    BY <1>1, <1>2, <2>1
  <2>2. CASE s # t
    <3>1. task[s] # None /\ task[s].user \notin contended /\ task[s].user # r.user
      BY <1>1, <1>2, <2>2
    <3>2. \A v \in Slots \ {s} : task[v] # None => task[v].user # task[s].user
      BY <3>1 DEF IInv, OwnersCopies
    <3>3. task[s].op = "profile" => (task[s].by = "owner" =>
              /\ task[s].copy.role = row[task[s].user].profile.role
              /\ task[s].copy.active = row[task[s].user].profile.active)
      BY <3>1 DEF IInv, OwnersCopies
    <3> QED BY <1>2, <2>2, <3>1, <3>2, <3>3
  <2> QED BY <2>1, <2>2
<1> QED BY <1>4, <1>5, <1>6, <1>7 DEF IInv

\* A request ends with its account written: with an e-mail that no other
\* account has, in the spelling that login finds or retyped.
LEMMA SaveStep ==
    ASSUME IInv, NEW t \in Slots, task[t] # None, NEW u, u = task[t].user,
           NEW r \in Row, row' = [row EXCEPT ![u] = r], End(t),
           UNCHANGED contended, tokens \subseteq tokens', tokens' \subseteq tokens \cup {u},
           \A v \in Users \ {u} :
              row[v] # None => row[v].profile.email # r.profile.email,
           retyped \subseteq retyped', retyped' \subseteq retyped \cup {u},
           u \notin retyped' => r.profile.email[2] = "lower"
    PROVE  IInv'
<1>1. u \in Users /\ r # None
  BY TaskFields, RowFields DEF IInv, TypeOK
<1>2. /\ row' \in [Users -> Row \cup {None}] /\ row'[u] = r
      /\ \A v \in Users \ {u} : row'[v] = row[v]
      /\ task' \in [Slots -> Task \cup {None}] /\ task'[t] = None
      /\ \A s \in Slots \ {t} : task'[s] = task[s]
  BY <1>1 DEF IInv, TypeOK, End
<1>3. TypeOK'
  BY <1>1, <1>2 DEF IInv, TypeOK
<1>4. \A s \in Slots : task'[s] # None =>
          task[s] = task'[s] /\ s # t /\ task[s].user \in Users
  BY <1>2, TaskFields DEF IInv, TypeOK
<1>5. TasksOfAccounts'
  <2>1. ASSUME NEW s \in Slots, task'[s] # None
        PROVE  /\ task[s].op # "register" => row'[task[s].user] # None
               /\ task[s].op = "register" =>
                     /\ row'[task[s].user] = None
                     /\ task[s].copy.profile.email[2] = "lower"
                     /\ \A v \in Slots \ {s} :
                           task[v] # None => task[v].user # task[s].user
    <3>1. /\ task[s].op # "register" => row[task[s].user] # None
          /\ task[s].op = "register" =>
                /\ row[task[s].user] = None
                /\ task[s].copy.profile.email[2] = "lower"
                /\ \A v \in Slots \ {s} :
                      task[v] # None => task[v].user # task[s].user
      BY <1>4, <2>1 DEF IInv, TasksOfAccounts
    <3> QED BY <1>1, <1>2, <1>4, <2>1, <3>1
  <2> QED BY <1>4, <2>1 DEF TasksOfAccounts
<1>6. TokensOfAccounts'
  BY <1>1, <1>2 DEF IInv, TypeOK, TokensOfAccounts
<1>7. EmailsUnique'
  <2> SUFFICES ASSUME NEW v \in Users, NEW w \in Users,
                      row'[v] # None, row'[w] # None, v # w
               PROVE  row'[v].profile.email # row'[w].profile.email
    BY DEF EmailsUnique
  <2> QED BY <1>2 DEF IInv, EmailsUnique
<1>8. UnretypedLower'
  BY <1>2 DEF IInv, UnretypedLower
<1>9. OwnersCopies'
  <2> SUFFICES ASSUME NEW s \in Slots, task'[s] # None,
                      task'[s].user \notin contended
               PROVE  /\ \A v \in Slots \ {s} :
                            task'[v] # None => task'[v].user # task'[s].user
                      /\ task'[s].op = "profile" => (task'[s].by = "owner" =>
                            /\ task'[s].copy.role = row'[task'[s].user].profile.role
                            /\ task'[s].copy.active = row'[task'[s].user].profile.active)
    BY DEF OwnersCopies
  <2>1. /\ \A v \in Slots \ {s} : task[v] # None => task[v].user # task[s].user
        /\ task[s].op = "profile" => (task[s].by = "owner" =>
              /\ task[s].copy.role = row[task[s].user].profile.role
              /\ task[s].copy.active = row[task[s].user].profile.active)
    BY <1>4 DEF IInv, OwnersCopies
  <2>2. row'[task[s].user] = row[task[s].user]
    BY <1>2, <1>4, <2>1
  <2> QED BY <1>4, <2>1, <2>2
<1> QED BY <1>3, <1>5, <1>6, <1>7, <1>8, <1>9 DEF IInv

-----------------------------------------------------------------------------
(* Requests.                                                               *)

LEMMA RegisterBeginInv ==
    ASSUME IInv, NEW t \in Slots, NEW u \in Users, NEW email \in Email,
           NEW password \in Passwords, RegisterBegin(t, u, email, password)
    PROVE  IInv'
<1> DEFINE copy == [profile |-> [email |-> Normalised(email), wallet |-> TRUE,
                                 role |-> "merchant", active |-> TRUE],
                    password |-> password]
           r == [op |-> "register", user |-> u, copy |-> copy]
<1>1. copy \in Row /\ copy.profile.email[2] = "lower"
  BY LowerSpelling DEF Row, Profile
<1>2. r.op = "register" /\ r.user = u /\ r.copy = copy
  OBVIOUS
<1>3. Begin(t, r)
  BY DEF RegisterBegin
<1>4. /\ row[u] = None
      /\ \A s \in Slots : task[s] # None => task[s].user # u
  BY DEF RegisterBegin
<1> HIDE DEF copy
<1>5. r \in Task
  BY <1>1 DEF Task
<1> HIDE DEF r
<1> QED BY <1>1, <1>2, <1>3, <1>4, <1>5, BeginInv

LEMMA ChangePasswordBeginInv ==
    ASSUME IInv, NEW t \in Slots, NEW u \in Users, NEW current \in Passwords,
           NEW new \in Passwords, ChangePasswordBegin(t, u, current, new)
    PROVE  IInv'
<1> DEFINE r == [op |-> "password", user |-> u, copy |-> new]
<1>1. r \in Task /\ r.op = "password" /\ r.user = u
  BY DEF Task
<1>2. Begin(t, r) /\ row[u] # None
  BY DEF ChangePasswordBegin, Authorised
<1> HIDE DEF r
<1> QED BY <1>1, <1>2, BeginInv

LEMMA DeactivateBeginInv ==
    ASSUME IInv, NEW t \in Slots, NEW u \in Users, NEW password \in Passwords,
           DeactivateBegin(t, u, password)
    PROVE  IInv'
<1> DEFINE r == [op |-> "deactivate", user |-> u]
<1>1. r \in Task /\ r.op = "deactivate" /\ r.user = u
  BY DEF Task
<1>2. Begin(t, r) /\ row[u] # None
  BY DEF DeactivateBegin, Authorised
<1> HIDE DEF r
<1> QED BY <1>1, <1>2, BeginInv

LEMMA EditInv ==
    ASSUME IInv, NEW t \in Slots, NEW u \in Users, NEW copy \in Profile,
           NEW by \in {"owner", "admin"}, Edit(t, u, copy, by), row[u] # None,
           by = "owner" => /\ copy.role = row[u].profile.role
                           /\ copy.active = row[u].profile.active
    PROVE  IInv'
<1> DEFINE r == [op |-> "profile", user |-> u, copy |-> copy, by |-> by]
<1>1. r \in Task /\ r.op = "profile" /\ r.user = u /\ r.copy = copy /\ r.by = by
  BY DEF Task
<1>2. Begin(t, r)
  BY DEF Edit
<1> HIDE DEF r
<1> QED BY <1>1, <1>2, BeginInv

LEMMA PatchedEmail ==
    ASSUME NEW a \in Addresses, NEW s \in Patched
    PROVE  <<a, s>> \in Email
  BY PatchedAssumption DEF Email

LEMMA UpdateMineInv ==
    ASSUME IInv, NEW t \in Slots, NEW u \in Users, NEW email \in Email,
           NEW wallet \in Owned, UpdateMine(t, u, email, wallet)
    PROVE  IInv'
<1> DEFINE copy == [row[u].profile EXCEPT !.email = email, !.wallet = wallet]
<1>1. row[u] # None /\ row[u] \in Row /\ row[u].profile \in Profile
  BY RowFields DEF UpdateMine, Authorised, IInv, TypeOK
<1>2. /\ copy \in Profile /\ copy.role = row[u].profile.role
      /\ copy.active = row[u].profile.active
  BY <1>1, OwnedAssumption DEF Profile
<1>3. Edit(t, u, copy, "owner")
  BY DEF UpdateMine
<1> HIDE DEF copy
<1> QED BY <1>1, <1>2, <1>3, EditInv

LEMMA UpdateByAdminInv ==
    ASSUME IInv, NEW t \in Slots, NEW u \in Users, NEW email \in Email,
           NEW wallet \in Owned, NEW role \in {"merchant", "admin"},
           NEW active \in BOOLEAN,
           UpdateByAdmin(t, u, email, wallet, role, active)
    PROVE  IInv'
<1>1. [email |-> email, wallet |-> wallet, role |-> role, active |-> active]
        \in Profile
  BY OwnedAssumption DEF Profile
<1> QED BY <1>1, EditInv DEF UpdateByAdmin

LEMMA ToggleActiveInv ==
    ASSUME IInv, NEW t \in Slots, NEW u \in Users, ToggleActive(t, u)
    PROVE  IInv'
<1> DEFINE copy == [row[u].profile EXCEPT !.active = ~@]
<1>1. row[u] # None /\ row[u] \in Row /\ row[u].profile \in Profile
  BY RowFields DEF ToggleActive, IInv, TypeOK
<1>2. copy \in Profile
  BY <1>1 DEF Profile
<1>3. Edit(t, u, copy, "admin")
  BY DEF ToggleActive
<1> HIDE DEF copy
<1> QED BY <1>1, <1>2, <1>3, EditInv

-----------------------------------------------------------------------------
(* Saves.                                                                  *)

\* The account that a save writes.
LEMMA SavedAccount ==
    ASSUME IInv, NEW t \in Slots, task[t] # None, task[t].op # "register",
           NEW u, u = task[t].user
    PROVE  /\ task[t] \in Task /\ u \in Users /\ row[u] \in Row
           /\ row \in [Users -> Row \cup {None}]
           /\ row[u] = [profile |-> row[u].profile, password |-> row[u].password]
           /\ row[u].profile \in Profile
           /\ \A v \in Users \ {u} :
                 row[v] # None => row[v].profile.email # row[u].profile.email
           /\ u \notin retyped => row[u].profile.email[2] = "lower"
<1>1. task[t] \in Task /\ u \in Users /\ row[u] # None
  BY TaskFields DEF IInv, TypeOK, TasksOfAccounts
<1>2. row[u] \in Row
  BY <1>1 DEF IInv, TypeOK
<1>3. /\ row[u] = [profile |-> row[u].profile, password |-> row[u].password]
      /\ row[u].profile \in Profile
  BY <1>2 DEF Row
<1> QED BY <1>1, <1>2, <1>3 DEF IInv, TypeOK, EmailsUnique, UnretypedLower

LEMMA IndexFree ==
    ASSUME NEW u, NEW email, Free(u, email)
    PROVE  \A v \in Users \ {u} : row[v] # None => row[v].profile.email # email
  BY DEF Free, WithEmail

LEMMA SaveRegisteredInv ==
    ASSUME IInv, NEW t \in Slots, SaveRegistered(t)
    PROVE  IInv'
<1>0. PICK u, r : u = task[t].user /\ r = task[t].copy
  OBVIOUS
<1>1. /\ task[t] # None /\ task[t].op = "register"
      /\ row' = [row EXCEPT ![u] = r] /\ End(t) /\ tokens' = tokens \cup {u}
      /\ UNCHANGED <<retyped, contended>>
  BY <1>0 DEF SaveRegistered, history
<1>2. r \in Row /\ r.profile.email[2] = "lower"
  BY <1>0, <1>1, TaskFields DEF IInv, TypeOK, TasksOfAccounts
<1>3. \A v \in Users \ {u} : row[v] # None => row[v].profile.email # r.profile.email
  BY <1>0, IndexFree DEF SaveRegistered
<1> QED BY <1>0, <1>1, <1>2, <1>3, SaveStep

LEMMA SaveProfileInv ==
    ASSUME IInv, NEW t \in Slots, SaveProfile(t)
    PROVE  IInv'
<1>0. PICK u, copy : u = task[t].user /\ copy = task[t].copy
  OBVIOUS
<1> DEFINE r == [profile |-> copy, password |-> row[u].password]
<1>1. /\ task[t] # None /\ task[t].op = "profile"
      /\ row' = [row EXCEPT ![u].profile = copy] /\ End(t)
      /\ UNCHANGED <<tokens, contended>>
      /\ retyped' = IF copy.email = Normalised(copy.email) THEN retyped
                    ELSE retyped \cup {u}
  BY <1>0 DEF SaveProfile, Retype
<1>2. task[t] \in Task /\ u \in Users /\ row[u] \in Row /\ copy \in Profile
      /\ row \in [Users -> Row \cup {None}] /\ copy.email \in Email
  BY <1>0, <1>1, SavedAccount, TaskFields DEF Profile
<1>3. row' = [row EXCEPT ![u] = r]
  <2>1. [row[u] EXCEPT !.profile = copy] = r
    BY <1>2 DEF Row
  <2> QED BY <1>1, <1>2, <2>1
<1>4. r \in Row /\ r.profile = copy
  BY <1>2 DEF Row
<1>5. \A v \in Users \ {u} : row[v] # None => row[v].profile.email # copy.email
  BY <1>0, IndexFree DEF SaveProfile
<1>6. u \notin retyped' => copy.email[2] = "lower"
  BY <1>1, <1>2, LowerSpelling
<1> HIDE DEF r
<1>7. /\ \A v \in Users \ {u} :
            row[v] # None => row[v].profile.email # r.profile.email
      /\ u \notin retyped' => r.profile.email[2] = "lower"
      /\ retyped \subseteq retyped' /\ retyped' \subseteq retyped \cup {u}
      /\ tokens \subseteq tokens' /\ tokens' \subseteq tokens \cup {u}
  BY <1>1, <1>4, <1>5, <1>6
<1>8. task[t] # None /\ End(t) /\ UNCHANGED contended
  BY <1>1
<1> QED BY ONLY IInv, t \in Slots, <1>0, <1>3, <1>4, <1>7, <1>8, SaveStep

LEMMA SavePasswordInv ==
    ASSUME IInv, NEW t \in Slots, SavePassword(t)
    PROVE  IInv'
<1>0. PICK u, copy : u = task[t].user /\ copy = task[t].copy
  OBVIOUS
<1> DEFINE r == [profile |-> row[u].profile, password |-> copy]
<1>1. /\ task[t] # None /\ task[t].op = "password"
      /\ row' = [row EXCEPT ![u].password = copy] /\ End(t)
      /\ UNCHANGED <<tokens, retyped, contended>>
  BY <1>0 DEF SavePassword, history
<1>2. /\ task[t] \in Task /\ u \in Users /\ row[u] \in Row /\ copy \in Passwords
      /\ row \in [Users -> Row \cup {None}]
      /\ \A v \in Users \ {u} :
            row[v] # None => row[v].profile.email # row[u].profile.email
      /\ u \notin retyped => row[u].profile.email[2] = "lower"
  BY <1>0, <1>1, SavedAccount, TaskFields
<1>3. row' = [row EXCEPT ![u] = r]
  <2>1. [row[u] EXCEPT !.password = copy] = r
    BY <1>2 DEF Row
  <2> QED BY <1>1, <1>2, <2>1
<1>4. r \in Row /\ r.profile = row[u].profile
  BY <1>2 DEF Row
<1> HIDE DEF r
<1>5. /\ \A v \in Users \ {u} :
            row[v] # None => row[v].profile.email # r.profile.email
      /\ u \notin retyped' => r.profile.email[2] = "lower"
      /\ retyped \subseteq retyped' /\ retyped' \subseteq retyped \cup {u}
      /\ tokens \subseteq tokens' /\ tokens' \subseteq tokens \cup {u}
  BY <1>1, <1>2, <1>4
<1>6. task[t] # None /\ End(t) /\ UNCHANGED contended
  BY <1>1
<1> QED BY ONLY IInv, t \in Slots, <1>0, <1>3, <1>4, <1>5, <1>6, SaveStep

LEMMA SaveDeactivatedInv ==
    ASSUME IInv, NEW t \in Slots, SaveDeactivated(t)
    PROVE  IInv'
<1>0. PICK u : u = task[t].user
  OBVIOUS
<1> DEFINE r == [row[u] EXCEPT !.profile.active = FALSE]
<1>1. /\ task[t] # None /\ task[t].op = "deactivate"
      /\ row' = [row EXCEPT ![u].profile.active = FALSE] /\ End(t)
      /\ UNCHANGED <<tokens, retyped, contended>>
  BY <1>0 DEF SaveDeactivated, history
<1>2. /\ u \in Users /\ row[u] \in Row /\ row[u].profile \in Profile
      /\ row \in [Users -> Row \cup {None}]
      /\ \A v \in Users \ {u} :
            row[v] # None => row[v].profile.email # row[u].profile.email
      /\ u \notin retyped => row[u].profile.email[2] = "lower"
  BY <1>0, <1>1, SavedAccount
<1>3. row' = [row EXCEPT ![u] = r]
  BY <1>1, <1>2
<1>4. r \in Row /\ r.profile.email = row[u].profile.email
  BY <1>2 DEF Row, Profile
<1> HIDE DEF r
<1>5. /\ \A v \in Users \ {u} :
            row[v] # None => row[v].profile.email # r.profile.email
      /\ u \notin retyped' => r.profile.email[2] = "lower"
      /\ retyped \subseteq retyped' /\ retyped' \subseteq retyped \cup {u}
      /\ tokens \subseteq tokens' /\ tokens' \subseteq tokens \cup {u}
  BY <1>1, <1>2, <1>4
<1>6. task[t] # None /\ End(t) /\ UNCHANGED contended
  BY <1>1
<1> QED BY ONLY IInv, t \in Slots, <1>0, <1>3, <1>4, <1>5, <1>6, SaveStep

LEMMA LostInv ==
    ASSUME IInv, NEW t \in Slots, Lost(t)
    PROVE  IInv'
<1>1. /\ UNCHANGED <<row, tokens, retyped, contended>>
      /\ task' \in [Slots -> Task \cup {None}] /\ task'[t] = None
      /\ \A s \in Slots \ {t} : task'[s] = task[s]
  BY DEF Lost, End, history, IInv, TypeOK
<1>2. TypeOK' /\ TokensOfAccounts' /\ EmailsUnique' /\ UnretypedLower'
  BY <1>1 DEF IInv, TypeOK, TokensOfAccounts, EmailsUnique, UnretypedLower
<1>3. \A s \in Slots : task'[s] # None => task[s] = task'[s] /\ s # t
  BY <1>1
<1>4. TasksOfAccounts'
  BY <1>1, <1>3 DEF IInv, TasksOfAccounts
<1>5. OwnersCopies'
  BY <1>1, <1>3 DEF IInv, OwnersCopies
<1> QED BY <1>2, <1>4, <1>5 DEF IInv

LEMMA LoginInv ==
    ASSUME IInv, NEW email \in Email, NEW password \in Passwords,
           Login(email, password)
    PROVE  IInv'
<1>1. PICK u \in Users : row[u] # None /\ tokens' = tokens \cup {u}
  BY DEF Login, WithEmail
<1>2. UNCHANGED <<row, task, retyped, contended>>
  BY DEF Login, history
<1> QED BY <1>1, <1>2 DEF IInv, TypeOK, TasksOfAccounts, TokensOfAccounts,
                          EmailsUnique, UnretypedLower, OwnersCopies

-----------------------------------------------------------------------------
(* The theorems.                                                           *)

LEMMA InitIInv == Init => IInv
<1> SUFFICES ASSUME Init PROVE IInv
  OBVIOUS
<1>1. PICK admin \in Users, a \in Addresses, p \in Passwords :
          row = [u \in Users |->
                   IF u = admin
                     THEN [profile |-> [email |-> <<a, "lower">>, wallet |-> TRUE,
                                        role |-> "admin", active |-> TRUE],
                           password |-> p]
                     ELSE None]
  BY DEF Init
<1>2. PICK r \in Row : r.profile.email = <<a, "lower">>
                       /\ row = [u \in Users |-> IF u = admin THEN r ELSE None]
  <2> DEFINE r == [profile |-> [email |-> <<a, "lower">>, wallet |-> TRUE,
                                role |-> "admin", active |-> TRUE],
                   password |-> p]
  <2>1. r \in Row /\ r.profile.email = <<a, "lower">>
    BY DEF Row, Profile, Email, Spelling
  <2> QED BY <1>1, <2>1
<1>3. /\ \A t \in Slots : task[t] = None
      /\ tokens = {} /\ retyped = {} /\ contended = {}
      /\ task \in [Slots -> Task \cup {None}]
  BY DEF Init
<1>4. TypeOK /\ TasksOfAccounts /\ TokensOfAccounts /\ OwnersCopies
  BY <1>2, <1>3 DEF TypeOK, TasksOfAccounts, TokensOfAccounts, OwnersCopies
<1>5. EmailsUnique /\ UnretypedLower
  BY <1>2 DEF EmailsUnique, UnretypedLower
<1> QED BY <1>4, <1>5 DEF IInv

LEMMA StepIInv == IInv /\ [Next]_vars => IInv'
<1> SUFFICES ASSUME IInv, [Next]_vars PROVE IInv'
  OBVIOUS
<1>1. CASE UNCHANGED vars
  BY <1>1 DEF vars, history, IInv, TypeOK, TasksOfAccounts, TokensOfAccounts,
              EmailsUnique, UnretypedLower, OwnersCopies
<1>2. CASE Requests
  <2>1. ASSUME NEW email \in Email, NEW p \in Passwords, Login(email, p)
        PROVE  IInv'
    BY <2>1, LoginInv
  <2>2. ASSUME NEW t \in Slots, NEW u \in Users, NEW email \in Email,
               NEW p \in Passwords, RegisterBegin(t, u, email, p)
        PROVE  IInv'
    BY <2>2, RegisterBeginInv
  <2>3. ASSUME NEW t \in Slots, NEW u \in Users, NEW p \in Passwords,
               NEW new \in Passwords, ChangePasswordBegin(t, u, p, new)
        PROVE  IInv'
    BY <2>3, ChangePasswordBeginInv
  <2>4. ASSUME NEW t \in Slots, NEW u \in Users, NEW p \in Passwords,
               DeactivateBegin(t, u, p)
        PROVE  IInv'
    BY <2>4, DeactivateBeginInv
  <2>5. ASSUME NEW t \in Slots, NEW u \in Users, NEW a \in Addresses,
               NEW s \in Patched, NEW wallet \in Owned,
               UpdateMine(t, u, <<a, s>>, wallet)
        PROVE  IInv'
    BY <2>5, PatchedEmail, UpdateMineInv
  <2>6. ASSUME NEW t \in Slots, NEW u \in Users, NEW a \in Addresses,
               NEW s \in Patched, NEW wallet \in Owned,
               NEW role \in {"merchant", "admin"}, NEW active \in BOOLEAN,
               UpdateByAdmin(t, u, <<a, s>>, wallet, role, active)
        PROVE  IInv'
    BY <2>6, PatchedEmail, UpdateByAdminInv
  <2>7. ASSUME NEW t \in Slots, NEW u \in Users, ToggleActive(t, u)
        PROVE  IInv'
    BY <2>7, ToggleActiveInv
  <2>8. CASE \E email \in Email, p \in Passwords : Login(email, p)
    BY <2>1, <2>8
  <2>9. ASSUME NEW t \in Slots, NEW u \in Users,
               \/ \E email \in Email, p \in Passwords :
                     RegisterBegin(t, u, email, p)
               \/ \E p, new \in Passwords : ChangePasswordBegin(t, u, p, new)
               \/ \E p \in Passwords : DeactivateBegin(t, u, p)
               \/ ToggleActive(t, u)
        PROVE  IInv'
    BY <2>2, <2>3, <2>4, <2>7, <2>9
  <2>10. ASSUME NEW t \in Slots, NEW u \in Users,
                \E a \in Addresses, s \in Patched, wallet \in Owned :
                   \/ UpdateMine(t, u, <<a, s>>, wallet)
                   \/ \E role \in {"merchant", "admin"}, active \in BOOLEAN :
                         UpdateByAdmin(t, u, <<a, s>>, wallet, role, active)
         PROVE  IInv'
    BY <2>5, <2>6, <2>10
  <2>11. CASE ~ \E email \in Email, p \in Passwords : Login(email, p)
    <3>1. PICK t \in Slots, u \in Users :
             \/ \E email \in Email, p \in Passwords :
                   RegisterBegin(t, u, email, p)
             \/ \E p, new \in Passwords : ChangePasswordBegin(t, u, p, new)
             \/ \E p \in Passwords : DeactivateBegin(t, u, p)
             \/ \E a \in Addresses, s \in Patched, wallet \in Owned :
                   \/ UpdateMine(t, u, <<a, s>>, wallet)
                   \/ \E role \in {"merchant", "admin"}, active \in BOOLEAN :
                         UpdateByAdmin(t, u, <<a, s>>, wallet, role, active)
             \/ ToggleActive(t, u)
      BY ONLY <1>2, <2>11, Zenon DEF Requests
    <3> QED BY <2>9, <2>10, <3>1
  <2> QED BY <2>8, <2>11
<1>3. CASE Progress
  BY <1>3, SaveRegisteredInv, SaveProfileInv, SavePasswordInv,
     SaveDeactivatedInv, LostInv DEF Progress
<1> QED BY <1>1, <1>2, <1>3 DEF Next

\* However registrations, edits and the administration's actions race, e-mails
\* are unique, tokens and requests belong to accounts, and the copy of an
\* account that one request alone holds has the flags of its row.
THEOREM Invariant == Spec => []IInv
  BY InitIInv, StepIInv, PTL DEF Spec

\* No two accounts have one address, but for those that an edit has put into a
\* spelling that neither login nor register looks up.
THEOREM AddressesUnique == Spec => []OneAccountPerAddress
<1>1. IInv => OneAccountPerAddress
  <2> SUFFICES ASSUME IInv, NEW u \in Users \ retyped, NEW v \in Users \ retyped,
                      row[u] # None, row[v] # None, u # v
               PROVE  row[u].profile.email[1] # row[v].profile.email[1]
    BY DEF OneAccountPerAddress
  <2>1. row[u] \in Row /\ row[v] \in Row
    BY DEF IInv, TypeOK
  <2>2. /\ row[u].profile.email = <<row[u].profile.email[1], row[u].profile.email[2]>>
        /\ row[v].profile.email = <<row[v].profile.email[1], row[v].profile.email[2]>>
    BY <2>1, RowFields
  <2>3. row[u].profile.email[2] = "lower" /\ row[v].profile.email[2] = "lower"
    BY DEF IInv, UnretypedLower
  <2>4. row[u].profile.email # row[v].profile.email
    BY DEF IInv, EmailsUnique
  <2> QED BY <2>2, <2>3, <2>4
<1> QED BY <1>1, Invariant, PTL

\* Only saves write accounts, and each writes its own account.
LEMMA OnlySavesWrite ==
    ASSUME IInv, Next, NEW u \in Users, row[u] # None, row'[u] # row[u]
    PROVE  \E t \in Slots :
              /\ task[t] # None /\ task[t].user = u /\ task'[t] = None
              /\ SaveProfile(t) \/ SavePassword(t) \/ SaveDeactivated(t)
<1>1. ASSUME NEW t \in Slots,
             SaveRegistered(t) \/ SaveProfile(t) \/ SavePassword(t) \/ SaveDeactivated(t)
      PROVE  task[t] # None /\ task[t].user = u /\ task'[t] = None
  <2>1. /\ task[t] # None /\ task'[t] = None
        /\ row \in [Users -> Row \cup {None}]
    BY <1>1 DEF SaveRegistered, SaveProfile, SavePassword, SaveDeactivated, End,
                IInv, TypeOK
  <2>2. CASE task[t].user # u
    BY <1>1, <2>1, <2>2 DEF SaveRegistered, SaveProfile, SavePassword,
                            SaveDeactivated
  <2> QED BY <2>1, <2>2
<1>2. ASSUME NEW t \in Slots, SaveRegistered(t)
      PROVE  FALSE
  BY <1>1, <1>2 DEF SaveRegistered, IInv, TasksOfAccounts
<1>3. \E t \in Slots : SaveProfile(t) \/ SavePassword(t) \/ SaveDeactivated(t)
  <2>1. ASSUME NEW t, NEW r, Begin(t, r)  PROVE  UNCHANGED row
    BY <2>1 DEF Begin
  <2>2. Requests => UNCHANGED row
    <3>1. \A email, p : Login(email, p) => UNCHANGED row
      BY DEF Login
    <3>2. \A t, v, email, p : RegisterBegin(t, v, email, p) => UNCHANGED row
      BY <2>1 DEF RegisterBegin
    <3>3. \A t, v, p, new : ChangePasswordBegin(t, v, p, new) => UNCHANGED row
      BY <2>1 DEF ChangePasswordBegin
    <3>4. \A t, v, p : DeactivateBegin(t, v, p) => UNCHANGED row
      BY <2>1 DEF DeactivateBegin
    <3>5. \A t, v, email, wallet : UpdateMine(t, v, email, wallet) => UNCHANGED row
      BY <2>1 DEF UpdateMine, Edit
    <3>6. \A t, v, email, wallet, role, active :
              UpdateByAdmin(t, v, email, wallet, role, active) => UNCHANGED row
      BY <2>1 DEF UpdateByAdmin, Edit
    <3>7. \A t, v : ToggleActive(t, v) => UNCHANGED row
      BY <2>1 DEF ToggleActive, Edit
    <3> QED BY <3>1, <3>2, <3>3, <3>4, <3>5, <3>6, <3>7 DEF Requests
  <2>3. \A t : Lost(t) => UNCHANGED row
    BY DEF Lost
  <2> QED BY <1>2, <2>2, <2>3 DEF Next, Progress
<1> QED BY <1>1, <1>3

\* What each of them writes.
LEMMA WhatSavesWrite ==
    ASSUME IInv, NEW t \in Slots, NEW u \in Users, task[t] # None,
           task[t].user = u, row[u] # None
    PROVE  /\ SaveProfile(t) => /\ row'[u].password = row[u].password
                                /\ row'[u].profile = task[t].copy
           /\ SavePassword(t) => /\ row'[u].password = task[t].copy
                                 /\ row'[u].profile = row[u].profile
           /\ SaveDeactivated(t) => /\ row'[u].password = row[u].password
                                    /\ row'[u].profile.role = row[u].profile.role
                                    /\ ~row'[u].profile.active
<1>1. row \in [Users -> Row \cup {None}] /\ row[u] \in Row /\ row[u].profile \in Profile
  BY RowFields DEF IInv, TypeOK
<1>2. CASE SaveProfile(t)
  <2>1. row'[u] = [row[u] EXCEPT !.profile = task[t].copy]
    BY <1>1, <1>2 DEF SaveProfile
  <2> QED BY <1>1, <1>2, <2>1 DEF Row, SaveProfile, SavePassword, SaveDeactivated
<1>3. CASE SavePassword(t)
  <2>1. row'[u] = [row[u] EXCEPT !.password = task[t].copy]
    BY <1>1, <1>3 DEF SavePassword
  <2> QED BY <1>1, <1>3, <2>1 DEF Row, SaveProfile, SavePassword, SaveDeactivated
<1>4. CASE SaveDeactivated(t)
  <2>1. row'[u] = [row[u] EXCEPT !.profile.active = FALSE]
    BY <1>1, <1>4 DEF SaveDeactivated
  <2> QED BY <1>1, <1>4, <2>1
          DEF Row, Profile, SaveProfile, SavePassword, SaveDeactivated
<1> QED BY <1>2, <1>3, <1>4

\* A password changes only by a changePassword: no stale copy of the rest of
\* the account brings an old one back.
THEOREM PasswordsStay == Spec => PasswordsByChange
<1>1. ASSUME IInv, Next, NEW u \in Users, row[u] # None,
             row'[u].password # row[u].password
      PROVE  \E t \in Slots : /\ task[t] # None
                              /\ task[t].op = "password"
                              /\ task[t].user = u
                              /\ task[t].copy = row'[u].password
                              /\ task'[t] = None
  <2>1. PICK t \in Slots :
            /\ task[t] # None /\ task[t].user = u /\ task'[t] = None
            /\ SaveProfile(t) \/ SavePassword(t) \/ SaveDeactivated(t)
    BY <1>1, OnlySavesWrite
  <2> QED BY <1>1, <2>1, WhatSavesWrite DEF SavePassword
<1>2. IInv /\ [Next]_vars =>
        [\A u \in Users :
           row[u] # None /\ row'[u].password # row[u].password =>
               \E t \in Slots : /\ task[t] # None
                                /\ task[t].op = "password"
                                /\ task[t].user = u
                                /\ task[t].copy = row'[u].password
                                /\ task'[t] = None]_vars
  BY <1>1
<1> QED BY <1>2, Invariant, PTL DEF Spec, PasswordsByChange

\* An account that one request at a time held a copy of is reactivated, or
\* given another role, by the administration only.
THEOREM FlagsByAdmins == Spec => AdminFieldsByAdmins
<1>1. ASSUME IInv, Next, NEW u \in Users \ contended, row[u] # None,
             \/ ~row[u].profile.active /\ row'[u].profile.active
             \/ row'[u].profile.role # row[u].profile.role
      PROVE  \E t \in Slots : /\ task[t] # None
                              /\ task[t].op = "profile"
                              /\ task[t].user = u
                              /\ task[t].by = "admin"
                              /\ task'[t] = None
  <2>1. PICK t \in Slots :
            /\ task[t] # None /\ task[t].user = u /\ task'[t] = None
            /\ SaveProfile(t) \/ SavePassword(t) \/ SaveDeactivated(t)
    BY <1>1, OnlySavesWrite
  <2>2. CASE SaveProfile(t)
    <3>1. row'[u].profile = task[t].copy /\ task[t].op = "profile"
      BY <1>1, <2>1, <2>2, WhatSavesWrite DEF SaveProfile
    <3>2. task[t].by \in {"owner", "admin"}
      BY <1>1, <2>1, <3>1, TaskFields DEF IInv, TypeOK
    <3>3. task[t].by = "owner" =>
              /\ task[t].copy.role = row[u].profile.role
              /\ task[t].copy.active = row[u].profile.active
      BY <1>1, <2>1, <3>1 DEF IInv, OwnersCopies
    <3> QED BY <1>1, <2>1, <3>1, <3>2, <3>3
  <2>3. CASE SavePassword(t) \/ SaveDeactivated(t)
    BY <1>1, <2>1, <2>3, WhatSavesWrite
  <2> QED BY <2>1, <2>2, <2>3
<1>2. IInv /\ [Next]_vars =>
        [\A u \in Users \ contended :
           /\ row[u] # None
           /\ \/ ~row[u].profile.active /\ row'[u].profile.active
              \/ row'[u].profile.role # row[u].profile.role
           => \E t \in Slots : /\ task[t] # None
                               /\ task[t].op = "profile"
                               /\ task[t].user = u
                               /\ task[t].by = "admin"
                               /\ task'[t] = None]_vars
  BY <1>1
<1> QED BY <1>2, Invariant, PTL DEF Spec, AdminFieldsByAdmins
=============================================================================
