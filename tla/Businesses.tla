----------------------------- MODULE Businesses -----------------------------
(***************************************************************************)
(* A merchant's businesses: businesses.service.ts with the two             *)
(* instructions of solana.service.ts that mirror a business on chain.      *)
(*                                                                         *)
(* A business has a row in the database and a program account (PDA) on     *)
(* chain, derived from its wallet alone.  create and verify send their     *)
(* transaction first and save afterwards; every save writes the whole copy *)
(* that the request read at its start (or made, for create).               *)
(***************************************************************************)
EXTENDS FiniteSets

CONSTANTS
    Ids,            \* businesses that may be created (random UUIDs)
    Wallets,        \* valid Solana public keys
    Slots,          \* requests that may be in flight at the same time
    Roles,          \* of those who edit: "merchant" (the owner), "admin"
    Patches,        \* the sets of fields that the bodies of a PATCH name
    Logos,          \* whether a body's logoUrl is a text (FALSE: null)
    None            \* no business, row, account or request

VARIABLES
    row,            \* the businesses table
    pda,            \* the Business account on chain of each wallet
    task,           \* the request each slot is running
    orphaned,       \* history: businesses whose request ended, for an error
                    \* or with the process, after the account was made and
                    \* before the row was
    contended       \* history: businesses two requests held at a time

vars == <<row, pda, task, orphaned, contended>>

-----------------------------------------------------------------------------
\* solana_tx_register and solana_tx_verify are the wallets whose accounts
\* those transactions touched.  The other columns do not matter to anyone.
Row == [wallet : Wallets, logo : BOOLEAN, active : BOOLEAN, verified : BOOLEAN,
        registerTx : Wallets, verifyTx : Wallets \cup {None}]

\* registrar_negocio stores the id; verificar_negocio sets is_verified.
Account == [business : Ids, verified : BOOLEAN]

\* The fields of a PATCH that its body may name; the others are plain text.
Field == {"wallet", "logo", "active"}

\* pc: about to send the transaction ("register", "verify") or to save copy.
Task == [pc : {"register", "verify", "save"}, id : Ids, copy : Row,
         role : Roles \cup {"merchant"}, patch : SUBSET Field]

ASSUME RolesAssumption == Roles \subseteq {"merchant", "admin"}
ASSUME PatchesAssumption == Patches \subseteq SUBSET Field
ASSUME LogosAssumption == Logos \subseteq BOOLEAN
ASSUME NoneAssumption == None \notin Row \cup Account \cup Task \cup Wallets

TypeOK ==
    /\ row \in [Ids -> Row \cup {None}]
    /\ pda \in [Wallets -> Account \cup {None}]
    /\ task \in [Slots -> Task \cup {None}]
    /\ orphaned \subseteq Ids
    /\ contended \subseteq Ids

Init ==
    /\ row = [b \in Ids |-> None]
    /\ pda = [w \in Wallets |-> None]
    /\ task = [t \in Slots |-> None]
    /\ orphaned = {}
    /\ contended = {}

-----------------------------------------------------------------------------
Begin(t, pc, b, copy, role, patch) ==
    /\ task[t] = None
    /\ task' = [task EXCEPT ![t] = [pc |-> pc, id |-> b, copy |-> copy,
                                    role |-> role, patch |-> patch]]
    /\ contended' = IF \E u \in Slots : task[u] # None /\ task[u].id = b
                      THEN contended \cup {b} ELSE contended
    /\ UNCHANGED <<row, pda, orphaned>>

At(t, pc) == task[t] # None /\ task[t].pc = pc

End(t) == task' = [task EXCEPT ![t] = None]

\* The copy goes on to be saved.
GoOnWith(t, copy) ==
    task' = [task EXCEPT ![t].pc = "save", ![t].copy = copy]

\* Ids are random: a new one belongs to no row, account or request.
Fresh(b) ==
    /\ row[b] = None
    /\ \A w \in Wallets : pda[w] # None => pda[w].business # b
    /\ \A t \in Slots : task[t] # None => task[t].id # b

-----------------------------------------------------------------------------
\* create, up to its transaction; the schema has validated the wallet.
CreateBegin(t, b, w, logo) ==
    /\ Fresh(b)
    /\ Begin(t, "register", b,
             [wallet |-> w, logo |-> logo, active |-> TRUE, verified |-> FALSE,
              registerTx |-> w, verifyTx |-> None],
             "merchant", Field)

\* registrar_negocio initialises the account, and fails when it exists.
CanRegister(w) == pda[w] = None

\* Variant: an account that exists already is taken for a registration.
RegisterExisting(t) ==
    /\ At(t, "register")
    /\ LET c == task[t].copy IN
       /\ pda' = [pda EXCEPT ![c.wallet] =
                     IF @ = None THEN [business |-> task[t].id, verified |-> FALSE]
                     ELSE @]
       /\ GoOnWith(t, c)
    /\ UNCHANGED <<row, orphaned, contended>>

\* The transaction is confirmed.
RegisterConfirmed(t) ==
    /\ At(t, "register")
    /\ LET c == task[t].copy IN
       /\ CanRegister(c.wallet)
       /\ pda' = [pda EXCEPT ![c.wallet] = [business |-> task[t].id,
                                            verified |-> FALSE]]
       /\ GoOnWith(t, c)
    /\ UNCHANGED <<row, orphaned, contended>>

\* It lands, but its confirmation is not seen in time: create throws.
RegisterUnconfirmed(t) ==
    /\ At(t, "register")
    /\ CanRegister(task[t].copy.wallet)
    /\ pda' = [pda EXCEPT ![task[t].copy.wallet] = [business |-> task[t].id,
                                                    verified |-> FALSE]]
    /\ End(t)
    /\ orphaned' = orphaned \cup {task[t].id}
    /\ UNCHANGED <<row, contended>>

\* The transaction of create or of verify fails, or cannot be sent.
TransactionFails(t) ==
    /\ At(t, "register") \/ At(t, "verify")
    /\ End(t)
    /\ UNCHANGED <<row, pda, orphaned, contended>>

-----------------------------------------------------------------------------
\* verify, up to its transaction (the owner or an admin).
VerifyBegin(t, b, role) ==
    /\ row[b] # None
    /\ ~row[b].verified
    /\ Begin(t, "verify", b, row[b], role, {})

\* verificar_negocio: the account of the wallet in the copy must exist.
CanVerify(w) == pda[w] # None

\* Variant: the row is saved as verified whatever became of the transaction.
VerifyRegardless(t) ==
    /\ At(t, "verify")
    /\ GoOnWith(t, [task[t].copy EXCEPT !.verified = TRUE,
                                        !.verifyTx = task[t].copy.wallet])
    /\ UNCHANGED <<row, pda, orphaned, contended>>

VerifyConfirmed(t) ==
    /\ At(t, "verify")
    /\ LET c == task[t].copy IN
       /\ CanVerify(c.wallet)
       /\ pda' = [pda EXCEPT ![c.wallet].verified = TRUE]
       /\ GoOnWith(t, [c EXCEPT !.verified = TRUE, !.verifyTx = c.wallet])
    /\ UNCHANGED <<row, orphaned, contended>>

\* It lands unconfirmed: verified on chain, not in the database.
VerifyUnconfirmed(t) ==
    /\ At(t, "verify")
    /\ CanVerify(task[t].copy.wallet)
    /\ pda' = [pda EXCEPT ![task[t].copy.wallet].verified = TRUE]
    /\ End(t)
    /\ UNCHANGED <<row, orphaned, contended>>

-----------------------------------------------------------------------------
\* The body after updateBusinessSchema: an absent logoUrl is null and not
\* undefined; absent wallet and isActive stay undefined.
SentLogo(patch, logo) == IF "logo" \in patch THEN logo ELSE FALSE

Patched(c, patch, w, logo, active) ==
    [c EXCEPT !.wallet = IF "wallet" \in patch THEN w ELSE c.wallet,
              !.logo = SentLogo(patch, logo),
              !.active = IF "active" \in patch THEN active ELSE c.active]

\* Variant: the owner, too, may reactivate.
MayReactivate(b, role, patch) ==
    role = "admin" \/ (row[b].active /\ "active" \notin patch)
                   \/ (~row[b].active /\ patch = {"active"})

\* Only an admin edits an inactive business or changes isActive.
MayUpdate(b, role, patch) ==
    role = "admin" \/ (row[b].active /\ "active" \notin patch)

\* update, up to its save.
UpdateBegin(t, b, role, patch, w, logo, active) ==
    /\ row[b] # None
    /\ MayUpdate(b, role, patch)
    /\ Begin(t, "save", b, Patched(row[b], patch, w, logo, active), role, patch)

\* Variant: remove deletes the row.
RemoveHard(t, b, role) ==
    /\ row[b] # None
    /\ row' = [row EXCEPT ![b] = None]
    /\ UNCHANGED <<pda, task, orphaned, contended>>

\* remove (soft), up to its save; an inactive business is returned as it is.
RemoveBegin(t, b, role) ==
    /\ row[b] # None
    /\ row[b].active
    /\ Begin(t, "save", b, [row[b] EXCEPT !.active = FALSE], role, {"active"})

\* The save of create, update, remove or verify.
Save(t) ==
    /\ At(t, "save")
    /\ row' = [row EXCEPT ![task[t].id] = task[t].copy]
    /\ End(t)
    /\ UNCHANGED <<pda, orphaned, contended>>

\* The save fails, or the process stops, after the transaction or before it.
Lost(t) ==
    /\ task[t] # None
    /\ End(t)
    /\ orphaned' = IF At(t, "save") /\ row[task[t].id] = None
                     THEN orphaned \cup {task[t].id} ELSE orphaned
    /\ UNCHANGED <<row, pda, contended>>

-----------------------------------------------------------------------------
Requests ==
    \E t \in Slots, b \in Ids, role \in Roles :
        \/ \E w \in Wallets, logo \in Logos : CreateBegin(t, b, w, logo)
        \/ VerifyBegin(t, b, role)
        \/ \E patch \in Patches, w \in Wallets,
              logo \in Logos, active \in BOOLEAN :
               UpdateBegin(t, b, role, patch, w, logo, active)
        \/ RemoveBegin(t, b, role)

Progress ==
    \E t \in Slots :
        \/ RegisterConfirmed(t)
        \/ RegisterUnconfirmed(t)
        \/ VerifyConfirmed(t)
        \/ VerifyUnconfirmed(t)
        \/ TransactionFails(t)
        \/ Save(t)
        \/ Lost(t)

Next == Requests \/ Progress

Spec == Init /\ [][Next]_vars

-----------------------------------------------------------------------------
\* The account that a copy of business b was registered in is its own.
Registered(c, b) == /\ pda[c.registerTx] # None
                    /\ pda[c.registerTx].business = b

\* The flag of a copy and its signature go together, and the account that
\* the signature is about is verified.
VerificationBacked(c) ==
    /\ c.verified <=> c.verifyTx # None
    /\ c.verified => /\ pda[c.verifyTx] # None
                     /\ pda[c.verifyTx].verified

\* "La blockchain es la fuente de verdad": whatever requests overlap and
\* fail, a row exists only for a business whose registration landed, in the
\* account of the wallet it was created with (create saves second).
RowsRegistered == \A b \in Ids : row[b] # None => Registered(row[b], b)

\* A business is verified in the database only after the account named by
\* its solana_tx_verify was verified on chain (verify saves second), and
\* stale saves never separate the flag from the signature.
VerifiedBacked == \A b \in Ids : row[b] # None => VerificationBacked(row[b])

\* What an account on chain says exists, exists in the database, except for
\* the requests still running and those that died in between: nothing else
\* leaves an account without its row.
AccountsAccounted ==
    \A w \in Wallets :
        pda[w] # None =>
            \/ row[pda[w].business] # None
            \/ pda[w].business \in orphaned
            \/ \E t \in Slots : At(t, "save") /\ task[t].id = pda[w].business

\* A registration under way is the only trace of its business.
Unheard(t) ==
    /\ row[task[t].id] = None
    /\ \A w \in Wallets : pda[w] # None => pda[w].business # task[t].id
    /\ \A u \in Slots \ {t} : task[u] # None => task[u].id # task[t].id
    /\ task[t].copy.registerTx = task[t].copy.wallet

\* What a request holds is as good as the row it will write.
TaskTruthful(t) ==
    task[t] # None =>
        /\ IF task[t].pc = "register" THEN Unheard(t)
                                     ELSE Registered(task[t].copy, task[t].id)
        /\ task[t].pc # "save" => ~task[t].copy.verified
        /\ VerificationBacked(task[t].copy)

TasksTruthful == \A t \in Slots : TaskTruthful(t)

\* The inductive invariant.
IInv ==
    /\ TypeOK
    /\ TasksTruthful
    /\ RowsRegistered
    /\ VerifiedBacked
    /\ AccountsAccounted

-----------------------------------------------------------------------------
(* What holds of a business that no two requests held at the same time, and *)
(* is lost when they do: each save writes all that its request read.        *)

\* No other request holds the business of slot t.
HeldAlone(t) ==
    \A u \in Slots \ {t} : task[u] # None => task[u].id # task[t].id

\* A copy that a merchant's request is going to save is active only if its row
\* is: the row has not been deactivated behind its back.
CopiesInactive ==
    \A t \in Slots :
        task[t] # None /\ task[t].id \notin contended =>
            /\ HeldAlone(t)
            /\ task[t].role # "admin" /\ row[task[t].id] # None =>
                  (task[t].copy.active => row[task[t].id].active)

\* "Solo administradores pueden cambiar el estado activo del negocio"
\* (update): an inactive business becomes active only by the request of an
\* admin.
OnlyAdminsReactivate ==
    [][\A b \in Ids \ contended :
           row[b] # None /\ ~row[b].active /\ row'[b].active =>
               \E t \in Slots : /\ At(t, "save")
                                /\ task[t].id = b
                                /\ task[t].role = "admin"
                                /\ task'[t] = None]_vars

=============================================================================
