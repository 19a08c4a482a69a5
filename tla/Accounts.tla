------------------------------ MODULE Accounts ------------------------------
(***************************************************************************)
(* User accounts: registration, login and passwords (auth.service.ts), the *)
(* profile and the administration's actions (users.service.ts), and the    *)
(* check of every request's token (jwt.strategy.ts).                       *)
(*                                                                         *)
(* The column password is not selected by default: the copies that update  *)
(* and toggleActive save have every column but that one, the copies of     *)
(* changePassword only that one, and deactivate writes is_active alone.    *)
(***************************************************************************)
EXTENDS FiniteSets

CONSTANTS
    Users,          \* accounts that may be created
    Addresses,      \* e-mail addresses, whatever their spelling
    Patched,        \* the spellings that the bodies of a PATCH use
    Owned,          \* whether the wallets they name are the user's own
    Passwords,
    Slots,          \* requests that may be in flight at the same time
    None            \* no account, no request

\* In lower case and trimmed, or not.
Spelling == {"lower", "mixed"}
Email == Addresses \X Spelling

VARIABLES
    row,            \* the users table
    task,           \* the request each slot is running
    tokens,         \* accounts for which login or register signed a token
    retyped,        \* history: accounts whose e-mail an edit has left in
                    \* another spelling than login looks up
    contended       \* history: accounts of which two requests held a copy

history == <<retyped, contended>>
vars == <<row, task, tokens, history>>

-----------------------------------------------------------------------------
\* wallet: whether wallet_address is a Solana address that the user owns;
\* update takes any text for it.
Profile == [email : Email, wallet : BOOLEAN, role : {"merchant", "admin"},
            active : BOOLEAN]
Row == [profile : Profile, password : Passwords]

\* About to save: a new account, a copy of the profile (by: who edits), a new
\* password, or the flag.
Task == [op : {"register"}, user : Users, copy : Row]
        \cup [op : {"profile"}, user : Users, copy : Profile,
              by : {"owner", "admin"}]
        \cup [op : {"password"}, user : Users, copy : Passwords]
        \cup [op : {"deactivate"}, user : Users]

ASSUME PatchedAssumption == Patched \subseteq Spelling
ASSUME OwnedAssumption == Owned \subseteq BOOLEAN
ASSUME NoneAssumption == None \notin Row \cup Task

TypeOK ==
    /\ row \in [Users -> Row \cup {None}]
    /\ task \in [Slots -> Task \cup {None}]
    /\ tokens \subseteq Users
    /\ retyped \subseteq Users
    /\ contended \subseteq Users

\* The seeder creates an admin.
Init ==
    /\ row \in {[u \in Users |->
                   IF u = admin
                     THEN [profile |-> [email |-> <<a, "lower">>, wallet |-> TRUE,
                                        role |-> "admin", active |-> TRUE],
                           password |-> p]
                     ELSE None] : admin \in Users, a \in Addresses, p \in Passwords}
    /\ task = [t \in Slots |-> None]
    /\ tokens = {}
    /\ retyped = {}
    /\ contended = {}

-----------------------------------------------------------------------------
\* email.toLowerCase().trim()
Normalised(email) == <<email[1], "lower">>

\* findOne by e-mail compares the spelling.
WithEmail(email) == {u \in Users : row[u] # None /\ row[u].profile.email = email}

Begin(t, request) ==
    /\ task[t] = None
    /\ task' = [task EXCEPT ![t] = request]
    /\ contended' =
           IF \E s \in Slots : task[s] # None /\ task[s].user = request.user
             THEN contended \cup {request.user} ELSE contended
    /\ UNCHANGED <<row, tokens, retyped>>

\* jwt.strategy validate: the token's account exists and is active now.
Authorised(u) == u \in tokens /\ row[u] # None /\ row[u].profile.active

\* Some admin's token.
AdminAuthorised ==
    \E u \in Users : Authorised(u) /\ row[u].profile.role = "admin"

-----------------------------------------------------------------------------
\* Variant: the spelling of the body is looked up and stored.
RegisterAsTyped(t, u, email, password) ==
    /\ row[u] = None
    /\ \A s \in Slots : task[s] # None => task[s].user # u
    /\ WithEmail(email) = {}
    /\ Begin(t, [op |-> "register", user |-> u,
                 copy |-> [profile |-> [email |-> email, wallet |-> TRUE,
                                        role |-> "merchant", active |-> TRUE],
                           password |-> password]])

\* register, up to its save: the e-mail must be unknown, active or not.
RegisterBegin(t, u, email, password) ==
    /\ row[u] = None
    /\ \A s \in Slots : task[s] # None => task[s].user # u
    /\ WithEmail(Normalised(email)) = {}
    /\ Begin(t, [op |-> "register", user |-> u,
                 copy |-> [profile |-> [email |-> Normalised(email),
                                        wallet |-> TRUE, role |-> "merchant",
                                        active |-> TRUE],
                           password |-> password]])

\* login: by e-mail and password and, but for an admin, with the wallet.
Login(email, password) ==
    \E u \in WithEmail(Normalised(email)) :
        /\ row[u].profile.active
        /\ row[u].password = password
        /\ row[u].profile.role = "admin" \/ row[u].profile.wallet
        /\ tokens' = tokens \cup {u}
        /\ UNCHANGED <<row, task, history>>

\* changePassword, up to its save.
ChangePasswordBegin(t, u, current, new) ==
    /\ Authorised(u)
    /\ row[u].password = current
    /\ Begin(t, [op |-> "password", user |-> u, copy |-> new])

\* deactivate, up to its UPDATE of is_active.
DeactivateBegin(t, u, password) ==
    /\ Authorised(u)
    /\ row[u].password = password
    /\ Begin(t, [op |-> "deactivate", user |-> u])

\* The copy that update and toggleActive go on with.
Edit(t, u, copy, by) ==
    Begin(t, [op |-> "profile", user |-> u, copy |-> copy, by |-> by])

\* Variant: the schema of the profile lets isActive through.
UpdateMineWhole(t, u, email, wallet) ==
    /\ u \in tokens /\ row[u] # None
    /\ Edit(t, u, [row[u].profile EXCEPT !.email = email, !.wallet = wallet,
                                         !.active = TRUE], "owner")

\* update of one's own profile; updateUserSchema has no other columns that
\* matter, and leaves both as they are typed.
UpdateMine(t, u, email, wallet) ==
    /\ Authorised(u)
    /\ Edit(t, u, [row[u].profile EXCEPT !.email = email, !.wallet = wallet],
            "owner")

\* update by the administration.
UpdateByAdmin(t, u, email, wallet, role, active) ==
    /\ AdminAuthorised
    /\ row[u] # None
    /\ Edit(t, u, [email |-> email, wallet |-> wallet, role |-> role,
                   active |-> active], "admin")

\* toggleActive
ToggleActive(t, u) ==
    /\ AdminAuthorised
    /\ row[u] # None
    /\ Edit(t, u, [row[u].profile EXCEPT !.active = ~@], "admin")

-----------------------------------------------------------------------------
\* Variant: no unique index.
Unindexed(u, email) == TRUE

\* The unique index on email.
Free(u, email) == WithEmail(email) \subseteq {u}

End(t) == task' = [task EXCEPT ![t] = None]

\* The save of a new account, and its token.
SaveRegistered(t) ==
    /\ task[t] # None
    /\ task[t].op = "register"
    /\ Free(task[t].user, task[t].copy.profile.email)
    /\ row' = [row EXCEPT ![task[t].user] = task[t].copy]
    /\ tokens' = tokens \cup {task[t].user}
    /\ End(t)
    /\ UNCHANGED history

Retype(u, email) ==
    retyped' = IF email = Normalised(email) THEN retyped ELSE retyped \cup {u}

\* Variant: the schema lets a password through, and it is saved with the copy.
SaveProfileWhole(t) ==
    /\ task[t] # None
    /\ task[t].op = "profile"
    /\ Free(task[t].user, task[t].copy.email)
    /\ \E p \in Passwords :
           row' = [row EXCEPT ![task[t].user] = [profile |-> task[t].copy,
                                                 password |-> p]]
    /\ Retype(task[t].user, task[t].copy.email)
    /\ End(t)
    /\ UNCHANGED <<tokens, contended>>

SaveProfile(t) ==
    /\ task[t] # None
    /\ task[t].op = "profile"
    /\ Free(task[t].user, task[t].copy.email)
    /\ row' = [row EXCEPT ![task[t].user].profile = task[t].copy]
    /\ Retype(task[t].user, task[t].copy.email)
    /\ End(t)
    /\ UNCHANGED <<tokens, contended>>

SavePassword(t) ==
    /\ task[t] # None
    /\ task[t].op = "password"
    /\ row' = [row EXCEPT ![task[t].user].password = task[t].copy]
    /\ End(t)
    /\ UNCHANGED <<tokens, history>>

SaveDeactivated(t) ==
    /\ task[t] # None
    /\ task[t].op = "deactivate"
    /\ row' = [row EXCEPT ![task[t].user].profile.active = FALSE]
    /\ End(t)
    /\ UNCHANGED <<tokens, history>>

\* The save fails (the e-mail is taken, or the database), or the process
\* stops.
Lost(t) ==
    /\ task[t] # None
    /\ End(t)
    /\ UNCHANGED <<row, tokens, history>>

Requests ==
    \/ \E email \in Email, p \in Passwords : Login(email, p)
    \/ \E t \in Slots, u \in Users :
           \/ \E email \in Email, p \in Passwords : RegisterBegin(t, u, email, p)
           \/ \E p, new \in Passwords : ChangePasswordBegin(t, u, p, new)
           \/ \E p \in Passwords : DeactivateBegin(t, u, p)
           \/ \E a \in Addresses, s \in Patched, wallet \in Owned :
                  \/ UpdateMine(t, u, <<a, s>>, wallet)
                  \/ \E role \in {"merchant", "admin"}, active \in BOOLEAN :
                         UpdateByAdmin(t, u, <<a, s>>, wallet, role, active)
           \/ ToggleActive(t, u)

Progress ==
    \E t \in Slots :
        \/ SaveRegistered(t)
        \/ SaveProfile(t)
        \/ SavePassword(t)
        \/ SaveDeactivated(t)
        \/ Lost(t)

Next == Requests \/ Progress

Spec == Init /\ [][Next]_vars

-----------------------------------------------------------------------------
\* No overlap of requests brings an old password back: the password of an
\* account changes only by a changePassword that knew a password of the
\* account when it began (select: false keeps it out of the other copies).
PasswordsByChange ==
    [][\A u \in Users :
           row[u] # None /\ row'[u].password # row[u].password =>
               \E t \in Slots : /\ task[t] # None
                                /\ task[t].op = "password"
                                /\ task[t].user = u
                                /\ task[t].copy = row'[u].password
                                /\ task'[t] = None]_vars

\* What is saved belongs to an account; a new one has its id for itself.
TasksOfAccounts ==
    \A t \in Slots :
        task[t] # None =>
            /\ task[t].op # "register" => row[task[t].user] # None
            /\ task[t].op = "register" =>
                   /\ row[task[t].user] = None
                   /\ task[t].copy.profile.email[2] = "lower"
                   /\ \A s \in Slots \ {t} :
                          task[s] # None => task[s].user # task[t].user
TokensOfAccounts == \A u \in tokens : row[u] # None

\* However registrations and edits overlap, no two accounts have one e-mail
\* with one spelling (the unique index; the look-up of register alone would
\* not do).
EmailsUnique ==
    \A u, v \in Users :
        row[u] # None /\ row[v] # None /\ u # v =>
            row[u].profile.email # row[v].profile.email

\* login finds every account that no edit has put into another spelling.
UnretypedLower ==
    \A u \in Users \ retyped :
        row[u] # None => row[u].profile.email[2] = "lower"

\* An account of which no two requests held a copy is in one request's hands
\* at most, and the owner's copy has the flags of the row.
OwnersCopies ==
    \A t \in Slots :
        task[t] # None /\ task[t].user \notin contended =>
            /\ \A s \in Slots \ {t} :
                   task[s] # None => task[s].user # task[t].user
            /\ task[t].op = "profile" =>
                   (task[t].by = "owner" =>
                      /\ task[t].copy.role = row[task[t].user].profile.role
                      /\ task[t].copy.active = row[task[t].user].profile.active)

\* The inductive invariant.
IInv ==
    /\ TypeOK
    /\ TasksOfAccounts
    /\ TokensOfAccounts
    /\ EmailsUnique
    /\ UnretypedLower
    /\ OwnersCopies

\* "El correo ya está registrado" (register): however registrations of
\* several spellings race, no two accounts have one address, but for those
\* that an edit has put into another spelling.
OneAccountPerAddress ==
    \A u, v \in Users \ retyped :
        row[u] # None /\ row[v] # None /\ u # v =>
            row[u].profile.email[1] # row[v].profile.email[1]

\* "Esta cuenta ha sido desactivada. Contacta al administrador." (login): an
\* account becomes active again, or gets another role, by an admin's request
\* only.  It is lost when two requests hold copies of the account: the
\* owner's edit saves the flags it read.
AdminFieldsByAdmins ==
    [][\A u \in Users \ contended :
           /\ row[u] # None
           /\ \/ ~row[u].profile.active /\ row'[u].profile.active
              \/ row'[u].profile.role # row[u].profile.role
           => \E t \in Slots : /\ task[t] # None
                               /\ task[t].op = "profile"
                               /\ task[t].user = u
                               /\ task[t].by = "admin"
                               /\ task'[t] = None]_vars

=============================================================================
