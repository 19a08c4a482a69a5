----------------------------- MODULE LiveUsers -----------------------------
(***************************************************************************)
(* The count of connected users: websocket.gateway.ts and                 *)
(* websocket.service.ts.                                                   *)
(*                                                                         *)
(* handleConnection awaits the user's row when the client sends a valid    *)
(* token; the client may be gone when it goes on.  handleDisconnect runs   *)
(* at once, and finds nothing to remove in that case.                      *)
(***************************************************************************)
EXTENDS FiniteSets

CONSTANTS
    Users,          \* users whose tokens verify
    Sockets,        \* connections (socket ids are never reused)
    None            \* no entry in a map; no user of a guest

VARIABLES
    phase,          \* where each socket and its handler are
    claims,         \* the user each socket's token names
    connectedUsers, \* socket |-> its entry's userId
    socketToUserId, \* the second map of the service
    newest          \* history: the socket each user was added with last

vars == <<phase, claims, connectedUsers, socketToUserId, newest>>

-----------------------------------------------------------------------------
\* "looking": handleConnection awaits the row; "left": the client went away
\* in the meantime; "open", "closed": both are done; "ghost": closed, with an
\* entry made after the client left.
Phase == {"new", "looking", "left", "open", "closed", "ghost"}

\* `guest_${client.id}`
Guest(s) == <<"guest", s>>
UserIds == {<<"user", u>> : u \in Users} \cup {Guest(s) : s \in Sockets}

ASSUME NoneAssumption == None \notin Users \cup Sockets \cup UserIds

TypeOK ==
    /\ phase \in [Sockets -> Phase]
    /\ claims \in [Sockets -> Users \cup {None}]
    /\ connectedUsers \in [Sockets -> UserIds \cup {None}]
    /\ socketToUserId \in [Sockets -> UserIds \cup {None}]
    /\ newest \in [UserIds -> Sockets \cup {None}]

Init ==
    /\ phase = [s \in Sockets |-> "new"]
    /\ claims = [s \in Sockets |-> None]
    /\ connectedUsers = [s \in Sockets |-> None]
    /\ socketToUserId = [s \in Sockets |-> None]
    /\ newest = [id \in UserIds |-> None]

-----------------------------------------------------------------------------
\* Other sockets of the user; addUser replaces the first it finds.
Earlier(id, s) == {o \in Sockets \ {s} : connectedUsers[o] = id}

\* Variant: addUser leaves the entry of the user's other socket.
AddBeside(id, s) ==
    /\ connectedUsers' = [connectedUsers EXCEPT ![s] = id]
    /\ socketToUserId' = [socketToUserId EXCEPT ![s] = id]
    /\ newest' = [newest EXCEPT ![id] = s]

\* Variant: a user who is connected already is left as he is.
AddUnlessThere(id, s) ==
    /\ IF Earlier(id, s) = {}
         THEN /\ connectedUsers' = [connectedUsers EXCEPT ![s] = id]
              /\ socketToUserId' = [socketToUserId EXCEPT ![s] = id]
         ELSE UNCHANGED <<connectedUsers, socketToUserId>>
    /\ newest' = [newest EXCEPT ![id] = s]

AddUser(id, s) ==
    \E old \in IF Earlier(id, s) = {} THEN {s} ELSE Earlier(id, s) :
        LET Added(map) == [map EXCEPT ![old] = None, ![s] = id] IN
        /\ connectedUsers' = Added(connectedUsers)
        /\ socketToUserId' = Added(socketToUserId)
        /\ newest' = [newest EXCEPT ![id] = s]

\* removeUserBySocketId
RemoveBySocketId(s) ==
    LET Removed(map) == IF connectedUsers[s] = None THEN map
                        ELSE [map EXCEPT ![s] = None]
    IN  /\ connectedUsers' = Removed(connectedUsers)
        /\ socketToUserId' = Removed(socketToUserId)

-----------------------------------------------------------------------------
\* No token, or one that does not verify: a guest, without any await.
ConnectGuest(s) ==
    /\ phase[s] = "new"
    /\ phase' = [phase EXCEPT ![s] = "open"]
    /\ AddUser(Guest(s), s)
    /\ UNCHANGED claims

\* A valid token: handleConnection awaits findOneBy.
ConnectUser(s, u) ==
    /\ phase[s] = "new"
    /\ phase' = [phase EXCEPT ![s] = "looking"]
    /\ claims' = [claims EXCEPT ![s] = u]
    /\ UNCHANGED <<connectedUsers, socketToUserId, newest>>

\* The row is there, active and a merchant's: he is added, even when the
\* client has gone.
Found(s) ==
    /\ phase[s] \in {"looking", "left"}
    /\ phase' = [phase EXCEPT ![s] = IF @ = "left" THEN "ghost" ELSE "open"]
    /\ AddUser(<<"user", claims[s]>>, s)
    /\ UNCHANGED claims

\* No such row, or the query fails: a guest after all.
NotFound(s) ==
    /\ phase[s] \in {"looking", "left"}
    /\ phase' = [phase EXCEPT ![s] = IF @ = "left" THEN "ghost" ELSE "open"]
    /\ AddUser(Guest(s), s)
    /\ UNCHANGED claims

\* The row of an inactive user or of an admin: disconnected, never added.
Refused(s) ==
    /\ phase[s] \in {"looking", "left"}
    /\ phase' = [phase EXCEPT ![s] = "closed"]
    /\ UNCHANGED <<claims, connectedUsers, socketToUserId, newest>>

\* handleDisconnect
Disconnect(s) ==
    /\ phase[s] \in {"looking", "open"}
    /\ phase' = [phase EXCEPT ![s] = IF @ = "looking" THEN "left" ELSE "closed"]
    /\ RemoveBySocketId(s)
    /\ UNCHANGED <<claims, newest>>

Next ==
    \E s \in Sockets :
        \/ ConnectGuest(s)
        \/ \E u \in Users : ConnectUser(s, u)
        \/ Found(s)
        \/ NotFound(s)
        \/ Refused(s)
        \/ Disconnect(s)

Spec == Init /\ [][Next]_vars

-----------------------------------------------------------------------------
\* "Si el usuario ya existe con otro socket, remover el anterior" (addUser):
\* a user is counted once, whatever his sockets do and in whatever order his
\* handlers go on.
CountedOnce ==
    \A s, o \in Sockets :
        s # o /\ connectedUsers[s] # None => connectedUsers[s] # connectedUsers[o]

\* The two maps of the service never part.
MapsAgree == connectedUsers = socketToUserId

\* The socket a user was added with last counts for him as long as it is
\* open, and nothing is counted but open sockets and ghosts.
NewestCounted ==
    /\ \A id \in UserIds, s \in Sockets :
           newest[id] = s /\ phase[s] = "open" => connectedUsers[s] = id
    /\ \A s \in Sockets :
           connectedUsers[s] # None => phase[s] \in {"open", "ghost"}

\* A guest who sent no token is counted exactly while he is connected.
GuestsExact ==
    \A s \in Sockets :
        claims[s] = None =>
            (connectedUsers[s] = Guest(s) <=> phase[s] = "open")

\* A user is added by a handler that is done with its socket's connection;
\* only a socket whose token names a user is looked up, or left meanwhile.
AddedWhenDone ==
    /\ \A id \in UserIds, s \in Sockets :
           newest[id] = s => phase[s] \in {"open", "closed", "ghost"}
    /\ \A s \in Sockets :
           phase[s] \in {"looking", "left", "ghost"} => claims[s] # None

\* Nobody is counted as another socket's guest.
OwnGuest == \A s, o \in Sockets : connectedUsers[o] = Guest(s) => o = s

IInv ==
    /\ TypeOK
    /\ CountedOnce
    /\ MapsAgree
    /\ NewestCounted
    /\ GuestsExact
    /\ AddedWhenDone
    /\ OwnGuest

=============================================================================
