-------------------------- MODULE LiveUsersProofs --------------------------
(***************************************************************************)
(* Theorems about LiveUsers, for any number of users and sockets.          *)
(*                                                                         *)
(* Because a user is counted once, the entry addUser replaces is the only  *)
(* one he has; because the sockets looked up and left behind are not       *)
(* counted yet, a late handler adds one entry and takes none but that.     *)
(***************************************************************************)
EXTENDS LiveUsers, TLAPS

\* The identifier of a guest is no user's, and no other guest's.
LEMMA GuestsApart ==
    ASSUME NEW s \in Sockets
    PROVE  /\ Guest(s) \in UserIds
           /\ Guest(s) # None
           /\ \A o \in Sockets : Guest(o) = Guest(s) => o = s
           /\ \A u \in Users : <<"user", u>> # Guest(s)
<1>1. Guest(s) \in UserIds
  BY DEF UserIds
<1> QED
  BY <1>1, NoneAssumption DEF Guest

\* What addUser leaves when a handler whose socket is not counted yet runs
\* it: one entry for the user, on this socket, and all others as they were
\* but for the one that was his.
LEMMA AddUserEffect ==
    ASSUME TypeOK, CountedOnce, MapsAgree,
           NEW id \in UserIds, NEW s \in Sockets, AddUser(id, s)
    PROVE  /\ connectedUsers' \in [Sockets -> UserIds \cup {None}]
           /\ socketToUserId' = connectedUsers'
           /\ newest' = [newest EXCEPT ![id] = s]
           /\ connectedUsers'[s] = id
           /\ \A o \in Sockets \ {s} :
                  connectedUsers'[o] =
                      IF connectedUsers[o] = id THEN None ELSE connectedUsers[o]
<1>1. PICK old \in IF Earlier(id, s) = {} THEN {s} ELSE Earlier(id, s) :
          /\ connectedUsers' = [connectedUsers EXCEPT ![old] = None, ![s] = id]
          /\ socketToUserId' = [socketToUserId EXCEPT ![old] = None, ![s] = id]
          /\ newest' = [newest EXCEPT ![id] = s]
  BY DEF AddUser
<1>2. old \in Sockets
  BY <1>1 DEF Earlier
<1>3. connectedUsers \in [Sockets -> UserIds \cup {None}]
  BY DEF TypeOK
<1>4. /\ connectedUsers' \in [Sockets -> UserIds \cup {None}]
      /\ connectedUsers'[s] = id
  BY <1>1, <1>2, <1>3
<1>5. socketToUserId' = connectedUsers'
  BY <1>1 DEF MapsAgree
<1>6. ASSUME NEW o \in Sockets \ {s}
      PROVE  connectedUsers'[o] =
                 IF connectedUsers[o] = id THEN None ELSE connectedUsers[o]
  <2>1. CASE o = old
    <3>1. connectedUsers[o] = id
      BY <1>1, <2>1 DEF Earlier
    <3>2. connectedUsers'[o] = None
      BY <1>1, <1>2, <1>3, <2>1
    <3> QED
      BY <3>1, <3>2
  <2>2. CASE o # old
    <3>1. connectedUsers'[o] = connectedUsers[o]
      BY <1>1, <1>2, <1>3, <2>2
    <3>2. connectedUsers[o] # id
      <4>1. SUFFICES ASSUME connectedUsers[o] = id
                     PROVE  FALSE
        OBVIOUS
      <4>2. old \in Earlier(id, s)
        BY <1>1, <4>1 DEF Earlier
      <4>3. connectedUsers[old] = id /\ id # None
        BY <4>2, NoneAssumption DEF Earlier
      <4> QED
        BY <1>2, <2>2, <4>1, <4>3 DEF CountedOnce
    <3> QED
      BY <3>1, <3>2
  <2> QED
    BY <2>1, <2>2
<1> QED
  BY <1>1, <1>4, <1>5, <1>6

-----------------------------------------------------------------------------
\* The initial states satisfy the invariant.
LEMMA InitIInv == Init => IInv
<1> SUFFICES ASSUME Init
             PROVE  IInv
  OBVIOUS
<1>1. TypeOK
  BY DEF Init, TypeOK, Phase
<1>2. CountedOnce /\ MapsAgree
  BY DEF Init, CountedOnce, MapsAgree
<1>3. NewestCounted /\ AddedWhenDone
  BY NoneAssumption DEF Init, NewestCounted, AddedWhenDone
<1>4. GuestsExact /\ OwnGuest
  BY GuestsApart DEF Init, GuestsExact, OwnGuest
<1> QED
  BY <1>1, <1>2, <1>3, <1>4 DEF IInv

\* A handler that adds its user keeps the invariant: s was not counted, its
\* client is there or gone, and id is the user of its token or its guest.
LEMMA AddUserIInv ==
    ASSUME IInv, NEW id \in UserIds, NEW s \in Sockets, AddUser(id, s),
           NEW to \in {"open", "ghost"}, claims' = claims,
           phase' = [phase EXCEPT ![s] = to],
           phase[s] \in {"new", "looking", "left"},
           to = "ghost" => claims[s] # None,
           id = Guest(s) \/ \E u \in Users : id = <<"user", u>>,
           claims[s] = None => id = Guest(s)
    PROVE  IInv'
<1>1. /\ TypeOK /\ CountedOnce /\ MapsAgree /\ NewestCounted
      /\ GuestsExact /\ AddedWhenDone /\ OwnGuest
  BY DEF IInv
<1>2. /\ connectedUsers' \in [Sockets -> UserIds \cup {None}]
      /\ socketToUserId' = connectedUsers'
      /\ newest' = [newest EXCEPT ![id] = s]
      /\ connectedUsers'[s] = id
      /\ \A o \in Sockets \ {s} :
             connectedUsers'[o] =
                 IF connectedUsers[o] = id THEN None ELSE connectedUsers[o]
  BY <1>1, AddUserEffect
<1>3. /\ phase \in [Sockets -> Phase]
      /\ newest \in [UserIds -> Sockets \cup {None}]
      /\ claims \in [Sockets -> Users \cup {None}]
  BY <1>1 DEF TypeOK
<1>4. /\ phase'[s] = to
      /\ \A o \in Sockets \ {s} : phase'[o] = phase[o]
  BY <1>3
<1>5. /\ newest'[id] = s
      /\ \A other \in UserIds \ {id} : newest'[other] = newest[other]
  BY <1>2, <1>3
<1>6. TypeOK'
  BY <1>2, <1>3 DEF TypeOK, Phase
<1>7. CountedOnce'
  <2> SUFFICES ASSUME NEW a \in Sockets, NEW b \in Sockets, a # b,
                      connectedUsers'[a] # None
               PROVE  connectedUsers'[a] # connectedUsers'[b]
    BY DEF CountedOnce
  <2>1. id # None
    BY NoneAssumption
  <2>2. CASE a = s
    BY <1>2, <2>1, <2>2
  <2>3. CASE b = s
    BY <1>2, <2>1, <2>3
  <2>4. CASE a # s /\ b # s
    BY <1>1, <1>2, <2>4 DEF CountedOnce
  <2> QED
    BY <2>2, <2>3, <2>4
<1>8. MapsAgree'
  BY <1>2 DEF MapsAgree
<1>9. NewestCounted'
  <2>1. ASSUME NEW other \in UserIds, NEW o \in Sockets,
               newest'[other] = o, phase'[o] = "open"
        PROVE  connectedUsers'[o] = other
    <3>1. CASE other = id
      BY <1>2, <1>5, <2>1, <3>1
    <3>2. CASE other # id
      <4>1. newest[other] = o
        BY <1>5, <2>1, <3>2
      <4>2. o # s
        BY <1>1, <4>1 DEF AddedWhenDone
      <4>3. connectedUsers[o] = other
        BY <1>1, <1>4, <2>1, <4>1, <4>2 DEF NewestCounted
      <4> QED
        BY <1>2, <3>2, <4>2, <4>3
    <3> QED
      BY <3>1, <3>2
  <2>2. ASSUME NEW o \in Sockets, connectedUsers'[o] # None
        PROVE  phase'[o] \in {"open", "ghost"}
    BY <1>1, <1>2, <1>4, <2>2 DEF NewestCounted
  <2> QED
    BY <2>1, <2>2 DEF NewestCounted
<1>10. GuestsExact'
  <2> SUFFICES ASSUME NEW o \in Sockets, claims[o] = None
               PROVE  connectedUsers'[o] = Guest(o) <=> phase'[o] = "open"
    BY DEF GuestsExact, Guest
  <2>1. CASE o = s
    BY <1>2, <1>4, <2>1
  <2>2. CASE o # s
    <3>1. connectedUsers[o] = Guest(o) <=> phase[o] = "open"
      BY <1>1 DEF GuestsExact
    <3>2. id # Guest(o) /\ Guest(o) # None
      BY <2>2, GuestsApart
    <3> QED
      BY <1>2, <1>4, <2>2, <3>1, <3>2
  <2> QED
    BY <2>1, <2>2
<1>11. AddedWhenDone'
  <2>1. ASSUME NEW other \in UserIds, NEW o \in Sockets, newest'[other] = o
        PROVE  phase'[o] \in {"open", "closed", "ghost"}
    BY <1>1, <1>4, <1>5, <2>1 DEF AddedWhenDone
  <2>2. ASSUME NEW o \in Sockets, phase'[o] \in {"looking", "left", "ghost"}
        PROVE  claims'[o] # None
    BY <1>1, <1>4, <2>2 DEF AddedWhenDone
  <2> QED
    BY <2>1, <2>2 DEF AddedWhenDone
<1>12. OwnGuest'
  <2> SUFFICES ASSUME NEW a \in Sockets, NEW o \in Sockets,
                      connectedUsers'[o] = Guest(a)
               PROVE  o = a
    BY DEF OwnGuest, Guest
  <2>1. CASE o = s
    BY <1>2, <2>1, GuestsApart
  <2>2. CASE o # s
    BY <1>1, <1>2, <2>2, GuestsApart DEF OwnGuest
  <2> QED
    BY <2>1, <2>2
<1> QED
  BY <1>6, <1>7, <1>8, <1>9, <1>10, <1>11, <1>12 DEF IInv

\* The connection of a guest.
LEMMA StepConnectGuest ==
    ASSUME IInv, NEW s \in Sockets, ConnectGuest(s)
    PROVE  IInv'
<1>1. /\ phase[s] \in {"new", "looking", "left"}
      /\ phase' = [phase EXCEPT ![s] = "open"]
      /\ AddUser(Guest(s), s)
      /\ claims' = claims
  BY DEF ConnectGuest
<1>2. Guest(s) \in UserIds
  BY GuestsApart
<1> QED
  BY <1>1, <1>2, AddUserIInv

\* The look-up that found a merchant.
LEMMA StepFound ==
    ASSUME IInv, NEW s \in Sockets, Found(s)
    PROVE  IInv'
<1>1. /\ phase[s] \in {"looking", "left"}
      /\ phase' = [phase EXCEPT
                      ![s] = IF phase[s] = "left" THEN "ghost" ELSE "open"]
      /\ AddUser(<<"user", claims[s]>>, s)
      /\ claims' = claims
  BY DEF Found
<1>2. claims[s] # None /\ claims[s] \in Users
  BY <1>1 DEF IInv, TypeOK, AddedWhenDone
<1>3. <<"user", claims[s]>> \in UserIds
  BY <1>2 DEF UserIds
<1>4. PICK to \in {"open", "ghost"} : phase' = [phase EXCEPT ![s] = to]
  BY <1>1
<1> QED
  BY <1>1, <1>2, <1>3, <1>4, AddUserIInv

\* The look-up that found nobody.
LEMMA StepNotFound ==
    ASSUME IInv, NEW s \in Sockets, NotFound(s)
    PROVE  IInv'
<1>1. /\ phase[s] \in {"looking", "left"}
      /\ phase' = [phase EXCEPT
                      ![s] = IF phase[s] = "left" THEN "ghost" ELSE "open"]
      /\ AddUser(Guest(s), s)
      /\ claims' = claims
  BY DEF NotFound
<1>2. claims[s] # None /\ Guest(s) \in UserIds
  BY <1>1, GuestsApart DEF IInv, AddedWhenDone
<1>3. PICK to \in {"open", "ghost"} : phase' = [phase EXCEPT ![s] = to]
  BY <1>1
<1> QED
  BY <1>1, <1>2, <1>3, AddUserIInv

\* The look-up that begins, and the connection that is refused: nothing is
\* counted for the socket, before and after.
LEMMA StepUncounted ==
    ASSUME IInv, NEW s \in Sockets,
           Refused(s) \/ \E u \in Users : ConnectUser(s, u)
    PROVE  IInv'
<1>1. /\ phase[s] \in {"new", "looking", "left"}
      /\ UNCHANGED <<connectedUsers, socketToUserId, newest>>
      /\ \E to \in {"looking", "closed"} :
             /\ phase' = [phase EXCEPT ![s] = to]
             /\ \/ to = "closed" /\ claims' = claims
                \/ \E u \in Users : claims' = [claims EXCEPT ![s] = u]
  BY DEF Refused, ConnectUser
<1>2. PICK to \in {"looking", "closed"} :
          /\ phase' = [phase EXCEPT ![s] = to]
          /\ \/ to = "closed" /\ claims' = claims
             \/ \E u \in Users : claims' = [claims EXCEPT ![s] = u]
  BY <1>1
<1>3. /\ TypeOK /\ CountedOnce /\ MapsAgree /\ NewestCounted
      /\ GuestsExact /\ AddedWhenDone /\ OwnGuest
  BY DEF IInv
<1>4. /\ claims' \in [Sockets -> Users \cup {None}]
      /\ to = "looking" => claims'[s] # None
      /\ \A o \in Sockets \ {s} : claims'[o] = claims[o]
      /\ claims'[s] = None => claims[s] = None \/ to = "looking"
  BY <1>2, <1>3, NoneAssumption DEF TypeOK
<1>5. /\ phase' \in [Sockets -> Phase]
      /\ phase'[s] = to
      /\ \A o \in Sockets \ {s} : phase'[o] = phase[o]
  BY <1>2, <1>3 DEF TypeOK, Phase
<1>6. connectedUsers[s] = None
  BY <1>1, <1>3 DEF NewestCounted
<1>7. TypeOK'
  BY <1>1, <1>3, <1>4, <1>5 DEF TypeOK
<1>8. CountedOnce' /\ MapsAgree' /\ OwnGuest'
  BY <1>1, <1>3 DEF CountedOnce, MapsAgree, OwnGuest, Guest
<1>9. NewestCounted'
  BY <1>1, <1>3, <1>5, <1>6 DEF NewestCounted
<1>10. AddedWhenDone'
  <2>1. ASSUME NEW id \in UserIds, NEW o \in Sockets, newest[id] = o
        PROVE  phase'[o] \in {"open", "closed", "ghost"}
    BY <1>1, <1>3, <1>5, <2>1 DEF AddedWhenDone
  <2>2. ASSUME NEW o \in Sockets, phase'[o] \in {"looking", "left", "ghost"}
        PROVE  claims'[o] # None
    BY <1>3, <1>4, <1>5, <2>2 DEF AddedWhenDone
  <2> QED
    BY <1>1, <2>1, <2>2 DEF AddedWhenDone
<1>11. GuestsExact'
  <2> SUFFICES ASSUME NEW o \in Sockets, claims'[o] = None
               PROVE  connectedUsers'[o] = Guest(o) <=> phase'[o] = "open"
    BY DEF GuestsExact, Guest
  <2>1. CASE o = s
    <3>1. connectedUsers'[o] # Guest(o)
      BY <1>1, <1>6, <2>1, GuestsApart
    <3> QED
      BY <1>5, <2>1, <3>1
  <2>2. CASE o # s
    BY <1>1, <1>3, <1>4, <1>5, <2>2 DEF GuestsExact
  <2> QED
    BY <2>1, <2>2
<1> QED
  BY <1>3, <1>7, <1>8, <1>9, <1>10, <1>11 DEF IInv

\* handleDisconnect.
LEMMA StepDisconnect ==
    ASSUME IInv, NEW s \in Sockets, Disconnect(s)
    PROVE  IInv'
<1>1. PICK to \in {"left", "closed"} :
          /\ phase' = [phase EXCEPT ![s] = to]
          /\ to = "left" => phase[s] = "looking"
          /\ to = "closed" => phase[s] = "open"
  BY DEF Disconnect
<1>2. /\ TypeOK /\ CountedOnce /\ MapsAgree /\ NewestCounted
      /\ GuestsExact /\ AddedWhenDone /\ OwnGuest
  BY DEF IInv
<1>3. claims' = claims /\ newest' = newest
  BY DEF Disconnect
<1>4. /\ phase' \in [Sockets -> Phase]
      /\ phase'[s] = to
      /\ \A o \in Sockets \ {s} : phase'[o] = phase[o]
  BY <1>1, <1>2 DEF TypeOK, Phase
<1>5. connectedUsers \in [Sockets -> UserIds \cup {None}]
  BY <1>2 DEF TypeOK
<1>6. /\ connectedUsers' = IF connectedUsers[s] = None THEN connectedUsers
                           ELSE [connectedUsers EXCEPT ![s] = None]
      /\ socketToUserId' = connectedUsers'
  BY <1>2 DEF Disconnect, RemoveBySocketId, MapsAgree
<1>7. /\ connectedUsers' \in [Sockets -> UserIds \cup {None}]
      /\ connectedUsers'[s] = None
      /\ \A o \in Sockets \ {s} : connectedUsers'[o] = connectedUsers[o]
  BY <1>5, <1>6
<1>8. TypeOK' /\ MapsAgree'
  BY <1>2, <1>3, <1>4, <1>6, <1>7 DEF TypeOK, MapsAgree
<1>9. CountedOnce'
  <2> SUFFICES ASSUME NEW a \in Sockets, NEW b \in Sockets, a # b,
                      connectedUsers'[a] # None
               PROVE  connectedUsers'[a] # connectedUsers'[b]
    BY DEF CountedOnce
  <2>1. a # s
    BY <1>7
  <2>2. CASE b = s
    BY <1>7, <2>2
  <2>3. CASE b # s
    BY <1>2, <1>7, <2>1, <2>3 DEF CountedOnce
  <2> QED
    BY <2>2, <2>3
<1>10. NewestCounted'
  BY <1>2, <1>3, <1>4, <1>7 DEF NewestCounted
<1>11. AddedWhenDone'
  <2>1. ASSUME NEW id \in UserIds, NEW o \in Sockets, newest[id] = o
        PROVE  phase'[o] \in {"open", "closed", "ghost"}
    BY <1>1, <1>2, <1>4, <2>1 DEF AddedWhenDone
  <2>2. ASSUME NEW o \in Sockets, phase'[o] \in {"looking", "left", "ghost"}
        PROVE  claims[o] # None
    BY <1>1, <1>2, <1>4, <2>2 DEF AddedWhenDone
  <2> QED
    BY <1>3, <2>1, <2>2 DEF AddedWhenDone
<1>12. GuestsExact' /\ OwnGuest'
  BY <1>2, <1>3, <1>4, <1>7, GuestsApart DEF GuestsExact, OwnGuest, Guest
<1> QED
  BY <1>8, <1>9, <1>10, <1>11, <1>12 DEF IInv

\* Every step preserves the invariant.
LEMMA StepIInv == IInv /\ [Next]_vars => IInv'
<1> SUFFICES ASSUME IInv, [Next]_vars
             PROVE  IInv'
  OBVIOUS
<1>1. CASE UNCHANGED vars
  <2>1. TypeOK'
    BY <1>1 DEF vars, IInv, TypeOK
  <2>2. CountedOnce'
    BY <1>1 DEF vars, IInv, CountedOnce
  <2>3. MapsAgree'
    BY <1>1 DEF vars, IInv, MapsAgree
  <2>4. NewestCounted'
    BY <1>1 DEF vars, IInv, NewestCounted
  <2>5. GuestsExact' /\ OwnGuest'
    BY <1>1 DEF vars, IInv, GuestsExact, OwnGuest, Guest
  <2>6. AddedWhenDone'
    BY <1>1 DEF vars, IInv, AddedWhenDone
  <2> QED
    BY <2>1, <2>2, <2>3, <2>4, <2>5, <2>6 DEF IInv
<1>2. CASE Next
  <2>1. PICK s \in Sockets :
            \/ ConnectGuest(s)
            \/ \E u \in Users : ConnectUser(s, u)
            \/ Found(s)
            \/ NotFound(s)
            \/ Refused(s)
            \/ Disconnect(s)
    BY <1>2 DEF Next
  <2> QED
    BY <2>1, StepConnectGuest, StepFound, StepNotFound, StepUncounted,
       StepDisconnect
<1> QED
  BY <1>1, <1>2

\* The inductive invariant: a user is counted once, on the socket he was
\* added with last, the two maps of the service agree, and a guest is counted
\* exactly while he is connected, for any number of users and sockets and
\* with look-ups that answer in any order and after the client has left
\* (websocket.gateway.ts handleConnection, websocket.service.ts addUser).
THEOREM Invariant == Spec => []IInv
<1>1. Init => IInv
  BY InitIInv
<1>2. IInv /\ [Next]_vars => IInv'
  BY StepIInv
<1> QED
  BY <1>1, <1>2, PTL DEF Spec

\* The socket a user connected with last counts for him while it is open, and
\* nothing is counted for a socket that is closed, refused or still looked up.
THEOREM NewestOpenCounts == Spec => []NewestCounted
<1>1. IInv => NewestCounted
  BY DEF IInv
<1> QED
  BY <1>1, Invariant, PTL
=============================================================================
