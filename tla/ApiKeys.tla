------------------------------ MODULE ApiKeys ------------------------------
(***************************************************************************)
(* The life of an API key: api-keys.service.ts and the guard that          *)
(* validates a key on every call of the public API.                        *)
(*                                                                         *)
(* Validation, revocation and disabling all read the row, await, change    *)
(* one column of the copy and save the whole copy.                         *)
(***************************************************************************)
EXTENDS FiniteSets

CONSTANTS
    Keys,           \* keys that may be created, with their random secrets
    Slots,          \* requests that may be in flight at the same time
    None            \* no key, no request

VARIABLES
    active,         \* whether the business of the keys is active
    row,            \* the api_keys table
    task,           \* the request each slot is running
    asked,          \* history: what was asked of each key, and by whom
    answered,       \* history: revocations and disablings that were answered
    contended       \* history: keys of which two requests held a copy

vars == <<active, row, task, asked, answered, contended>>

-----------------------------------------------------------------------------
\* A key of one business, or of the merchant's account; revoked_at and
\* disabled_at are null or a time.
Row == [kind : {"business", "account"}, revoked : BOOLEAN, disabled : BOOLEAN]

Role == {"merchant", "admin"}

\* A request with its copy, changed and about to be saved.
Task == [op : {"validate", "revoke", "disable", "enable"}, key : Keys, copy : Row]

ASSUME NoneAssumption == None \notin Row \cup Task

TypeOK ==
    /\ active \in BOOLEAN
    /\ row \in [Keys -> Row \cup {None}]
    /\ task \in [Slots -> Task \cup {None}]
    /\ asked \subseteq {"revoke", "disable", "enable"} \X Keys
    /\ answered \subseteq asked
    /\ contended \subseteq Keys

Init ==
    /\ active = TRUE
    /\ row = [k \in Keys |-> None]
    /\ task = [t \in Slots |-> None]
    /\ asked = {}
    /\ answered = {}
    /\ contended = {}

-----------------------------------------------------------------------------
\* assertBusiness: the owner of an inactive business is refused.
MayManage(kind, role) ==
    kind = "business" => active \/ role = "admin"

\* The new publishable key is unique, so that nothing can happen to it
\* before the save.
Add(k, kind) ==
    /\ row[k] = None
    /\ row' = [row EXCEPT ![k] = [kind |-> kind, revoked |-> FALSE,
                                  disabled |-> FALSE]]
    /\ UNCHANGED <<active, task, asked, answered, contended>>

\* create
CreateForBusiness(k, role) ==
    /\ MayManage("business", role)
    /\ Add(k, "business")

\* createForMerchant
CreateForMerchant(k) == Add(k, "account")

Begin(t, op, k, copy) ==
    /\ task[t] = None
    /\ task' = [task EXCEPT ![t] = [op |-> op, key |-> k, copy |-> copy]]
    /\ contended' = IF \E u \in Slots : task[u] # None /\ task[u].key = k
                      THEN contended \cup {k} ELSE contended
    /\ UNCHANGED <<active, row, answered>>

Ask(op, k) == asked' = asked \cup {<<op, k>>}

\* A key that validateKeys accepts, given the right secret.
Valid(r) == ~r.revoked /\ ~r.disabled

\* validateKeys: find and compare (a wrong key or secret changes nothing);
\* last_used_at is written with the rest of the copy.
ValidateBegin(t, k) ==
    /\ row[k] # None
    /\ Valid(row[k])
    /\ Begin(t, "validate", k, row[k])
    /\ UNCHANGED asked

\* Variant: a revoked key also loses the mark of the administration.
RevokeAfresh(t, k, role) ==
    /\ row[k] # None
    /\ MayManage(row[k].kind, role)
    /\ Begin(t, "revoke", k, [row[k] EXCEPT !.revoked = TRUE, !.disabled = FALSE])
    /\ Ask("revoke", k)

\* revoke and revokeForMerchant (whose key belongs to the account).
RevokeBegin(t, k, role) ==
    /\ row[k] # None
    /\ MayManage(row[k].kind, role)
    /\ Begin(t, "revoke", k, [row[k] EXCEPT !.revoked = TRUE])
    /\ Ask("revoke", k)

\* Variant: enabling makes the key valid again, revoked or not.
SetDisabledAny(t, k, disabled) ==
    /\ row[k] # None
    /\ Begin(t, IF disabled THEN "disable" ELSE "enable", k,
             [row[k] EXCEPT !.revoked = FALSE, !.disabled = disabled])
    /\ Ask(IF disabled THEN "disable" ELSE "enable", k)

\* adminSetDisabled: refused for a revoked key.
SetDisabledBegin(t, k, disabled) ==
    /\ row[k] # None
    /\ ~row[k].revoked
    /\ Begin(t, IF disabled THEN "disable" ELSE "enable", k,
             [row[k] EXCEPT !.disabled = disabled])
    /\ Ask(IF disabled THEN "disable" ELSE "enable", k)

\* Variant: what validateKeys saves is a used key, revoked for further use.
SaveOneTime(t) ==
    /\ task[t] # None
    /\ row' = [row EXCEPT ![task[t].key] =
                  [task[t].copy EXCEPT !.revoked = @ \/ task[t].op = "validate"]]
    /\ answered' = IF task[t].op = "validate" THEN answered
                   ELSE answered \cup {<<task[t].op, task[t].key>>}
    /\ task' = [task EXCEPT ![t] = None]
    /\ UNCHANGED <<active, asked, contended>>

\* The save of any of them, and its answer.
Save(t) ==
    /\ task[t] # None
    /\ row' = [row EXCEPT ![task[t].key] = task[t].copy]
    /\ answered' = IF task[t].op = "validate" THEN answered
                   ELSE answered \cup {<<task[t].op, task[t].key>>}
    /\ task' = [task EXCEPT ![t] = None]
    /\ UNCHANGED <<active, asked, contended>>

\* The save fails, or the process stops before it.
Lost(t) ==
    /\ task[t] # None
    /\ task' = [task EXCEPT ![t] = None]
    /\ UNCHANGED <<active, row, asked, answered, contended>>

\* BusinessesService deactivates or reactivates the business.
SetActive ==
    /\ active' = ~active
    /\ UNCHANGED <<row, task, asked, answered, contended>>

Next ==
    \/ \E k \in Keys :
           \/ \E role \in Role : CreateForBusiness(k, role)
           \/ CreateForMerchant(k)
    \/ \E t \in Slots, k \in Keys :
           \/ ValidateBegin(t, k)
           \/ \E role \in Role : RevokeBegin(t, k, role)
           \/ \E disabled \in BOOLEAN : SetDisabledBegin(t, k, disabled)
    \/ \E t \in Slots : Save(t) \/ Lost(t)
    \/ SetActive

Spec == Init /\ [][Next]_vars

-----------------------------------------------------------------------------
\* However the copies overlap, no request invents a revocation or a
\* disabling: a key, or a copy of it, is revoked or disabled only if that
\* was asked of it, and so was what is about to be answered.
NothingUnasked ==
    LET Asked(k, r) == /\ r.revoked => <<"revoke", k>> \in asked
                       /\ r.disabled => <<"disable", k>> \in asked
    IN  /\ \A k \in Keys : row[k] # None => Asked(k, row[k])
        /\ \A t \in Slots :
               task[t] # None =>
                   /\ row[task[t].key] # None
                   /\ Asked(task[t].key, task[t].copy)
                   /\ task[t].op # "validate" =>
                          <<task[t].op, task[t].key>> \in asked

-----------------------------------------------------------------------------
(* What holds of a key of which no two requests held a copy, and is lost    *)
(* when a validation overlaps a revocation.                                 *)

\* The copy that a request is about to save is the row with its own change.
Changed(r, op) ==
    CASE op = "validate" -> r
      [] op = "revoke" -> [r EXCEPT !.revoked = TRUE]
      [] op = "disable" -> [r EXCEPT !.disabled = TRUE]
      [] op = "enable" -> [r EXCEPT !.disabled = FALSE]

CopiesCurrent ==
    \A t \in Slots :
        task[t] # None /\ task[t].key \notin contended =>
            /\ task[t].copy = Changed(row[task[t].key], task[t].op)
            /\ \A u \in Slots \ {t} :
                   task[u] # None => task[u].key # task[t].key

RevocationsHold ==
    \A k \in Keys \ contended :
        <<"revoke", k>> \in answered => row[k] # None /\ row[k].revoked

\* The inductive invariant.
IInv == TypeOK /\ NothingUnasked /\ CopiesCurrent /\ RevocationsHold

\* A disabled key is enabled by the administration only.
DisabledUntilAdmin ==
    [][\A k \in Keys \ contended :
           row[k] # None /\ row[k].disabled /\ ~row'[k].disabled =>
               \E t \in Slots : /\ task[t] # None
                                /\ task[t].op = "enable"
                                /\ task[t].key = k
                                /\ task'[t] = None]_vars

\* An answered revocation holds: no call is let in from then on.
RevokedRejected ==
    \A k \in Keys \ contended :
        <<"revoke", k>> \in answered => ~Valid(row[k])

=============================================================================
