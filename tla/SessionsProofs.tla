---------------------------- MODULE SessionsProofs ----------------------------
(***************************************************************************)
(* What Sessions promises of any number of connections: handlers run one   *)
(* at a time, and each is given a whole request unless its client closed.  *)
(* And what a handler reads of the body of a request, whole or not.        *)
(***************************************************************************)
EXTENDS Sessions, Json, Induction, FiniteSetTheorems, SequenceTheorems

(* A connection that is being read from or handled, as handleClient's      *)
(* local variables have it.                                                *)
Busy ==
  [phase : {"connected", "read", "route", "handle"}, length : Lengths, read : 0 .. 3,
   cut : BOOLEAN]

(* Until recv returns 0 a connection is not cut, and one that has left the *)
(* loop of handleClient without that has got all of its request.           *)
ConnectionOK(r) ==
  \/ r.phase \in {"closed", "send"}
  \/ /\ r \in Busy
     /\ r.phase \in {"connected", "read"} => ~r.cut
     /\ r.phase = "connected" => r.read = 0
     /\ r.phase = "read" => r.read < r.length
     /\ r.phase \in {"route", "handle"} /\ ~r.cut => r.read = r.length

(* A connection in its handler holds routeMutex, and no other holds it.    *)
HandlersAreAlone ==
  /\ \A c \in Connections : conn[c].phase = "handle" <=> routeMutex = c
  /\ \A c, d \in Connections : conn[c].phase = "handle" /\ conn[d].phase = "handle" => c = d

MutexHeld ==
  /\ routeMutex \in Connections \cup {NoConnection}
  /\ \A c \in Connections : conn[c].phase = "handle" <=> routeMutex = c

SessionsInv ==
  /\ conn = [c \in Connections |-> conn[c]]
  /\ \A c \in Connections : ConnectionOK(conn[c])
  /\ MutexHeld

(* A step that changes one connection and leaves routeMutex alone keeps    *)
(* the invariant if it keeps that connection sound and in or out of its    *)
(* handler.                                                                *)
LEMMA OneConnectionMoves ==
  ASSUME SessionsInv, NEW c \in Connections, NEW r,
         conn' = [conn EXCEPT ![c] = r], routeMutex' = routeMutex,
         ConnectionOK(r), r.phase = "handle" <=> conn[c].phase = "handle"
  PROVE  SessionsInv'
BY DEF SessionsInv, MutexHeld

(* Every handler ends in a reply, whatever it does to users and tables.    *)
LEMMA HandlersReply ==
  ASSUME NEW c \in Connections, Handle(c)
  PROVE  /\ conn[c].phase = "handle"
         /\ routeMutex' = NoConnection
         /\ \E answer : conn' = [conn EXCEPT ![c] = [phase |-> "send", answer |-> answer]]
<1>1. (\E answer : Reply(c, answer)) =>
        /\ routeMutex' = NoConnection
        /\ \E answer : conn' = [conn EXCEPT ![c] = [phase |-> "send", answer |-> answer]]
  BY DEF Reply
<1>2. CASE Register(c)
  BY <1>1, <1>2 DEF Handle, Register
<1>3. CASE Login(c)
  BY <1>1, <1>3 DEF Handle, Login
<1>4. CASE PostOrder(c)
  BY <1>1, <1>4 DEF Handle, PostOrder
<1>5. CASE EndSession(c)
  BY <1>1, <1>5 DEF Handle, EndSession
<1>6. CASE GetOrders(c)
  BY <1>1, <1>6 DEF Handle, GetOrders
<1>7. CASE NoSuchRoute(c)
  BY <1>1, <1>7 DEF Handle, NoSuchRoute
<1> QED
  BY <1>2, <1>3, <1>4, <1>5, <1>6, <1>7 DEF Handle

LEMMA SessionsInvInitially == SessionsInit => SessionsInv
<1> SUFFICES ASSUME SessionsInit PROVE SessionsInv
  OBVIOUS
<1>1. \A c \in Connections : conn[c] = Closed
  BY DEF SessionsInit
<1>2. conn = [c \in Connections |-> conn[c]]
  BY <1>1 DEF SessionsInit
<1>3. ConnectionOK(Closed) /\ Closed.phase # "handle"
  BY DEF ConnectionOK, Closed
<1>4. MutexHeld
  BY <1>1, <1>3, SessionsAssumption DEF SessionsInit, MutexHeld
<1> QED
  BY <1>1, <1>2, <1>3, <1>4 DEF SessionsInv

LEMMA ServeKeepsInv ==
  ASSUME SessionsInv, NEW c \in Connections, Serve(c)
  PROVE  SessionsInv'
<1> USE DEF SessionsInv
<1>1. CASE Accept(c)
  <2> DEFINE r == [conn[c] EXCEPT !.phase = "read"]
  <2>1. conn[c] \in Busy /\ ConnectionOK(r)
    BY <1>1 DEF Accept, ConnectionOK, Busy, Lengths
  <2> QED
    BY <1>1, <2>1, OneConnectionMoves DEF Accept, Busy
<1>2. CASE Lock(c)
  <2> DEFINE r == [conn[c] EXCEPT !.phase = "handle"]
  <2>1. conn' = [conn EXCEPT ![c] = r] /\ routeMutex = NoConnection /\ routeMutex' = c
    BY <1>2 DEF Lock
  <2>2. conn[c] \in Busy /\ ConnectionOK(r) /\ r.phase = "handle"
    BY <1>2 DEF Lock, ConnectionOK, Busy
  <2>3. \A d \in Connections : conn[d].phase # "handle"
    BY <2>1, SessionsAssumption DEF MutexHeld
  <2> HIDE DEF r
  <2> QED
    BY <2>1, <2>2, <2>3 DEF MutexHeld
<1>3. CASE Preflight(c)
  <2>1. ConnectionOK([phase |-> "send", answer |-> Plain])
    BY DEF ConnectionOK
  <2> QED
    BY <1>3, <2>1, OneConnectionMoves DEF Preflight
<1>4. CASE Handle(c)
  <2>1. PICK answer : conn' = [conn EXCEPT ![c] = [phase |-> "send", answer |-> answer]]
    BY <1>4, HandlersReply
  <2>2. conn[c].phase = "handle" /\ routeMutex' = NoConnection
    BY <1>4, HandlersReply
  <2>3. \A d \in Connections \ {c} : conn[d].phase # "handle"
    BY <2>2 DEF MutexHeld
  <2>4. ConnectionOK([phase |-> "send", answer |-> answer])
    BY DEF ConnectionOK
  <2> QED
    BY <2>1, <2>2, <2>3, <2>4, SessionsAssumption DEF MutexHeld
<1>5. CASE Send(c)
  <2>1. ConnectionOK(Closed) /\ Closed.phase = "closed"
    BY DEF ConnectionOK, Closed
  <2> QED
    BY <1>5, <2>1, OneConnectionMoves DEF Send
<1> QED
  BY <1>1, <1>2, <1>3, <1>4, <1>5 DEF Serve

LEMMA ClientKeepsInv ==
  ASSUME SessionsInv, NEW c \in Connections,
         Connect(c) \/ Receive(c) \/ ReceiveNothing(c)
  PROVE  SessionsInv'
<1> USE DEF SessionsInv
<1>1. CASE Connect(c)
  <2>1. PICK length \in Lengths :
          conn' = [conn EXCEPT ![c] =
                     [phase |-> "connected", length |-> length, read |-> 0, cut |-> FALSE]]
    BY <1>1 DEF Connect
  <2>2. ConnectionOK([phase |-> "connected", length |-> length, read |-> 0, cut |-> FALSE])
    BY DEF ConnectionOK, Busy, Lengths
  <2> QED
    BY <1>1, <2>1, <2>2, OneConnectionMoves DEF Connect
<1>2. CASE Receive(c)
  <2> DEFINE read == conn[c].read + 1
             r == [conn[c] EXCEPT !.read = read,
                                  !.phase = IF IsComplete(c, read) THEN "route" ELSE "read"]
  <2>1. conn[c] \in Busy /\ read \in 0 .. 3 /\ read <= conn[c].length /\ ~conn[c].cut
    BY <1>2 DEF Receive, ConnectionOK, Busy, Lengths
  <2>2. IsComplete(c, read) => ConnectionOK(r) /\ r.phase = "route"
    BY <2>1 DEF ConnectionOK, Busy, IsComplete
  <2>3. ~IsComplete(c, read) => ConnectionOK(r) /\ r.phase = "read"
    <3>1. ~IsComplete(c, read) => read < conn[c].length
      BY <2>1 DEF Busy, Lengths, IsComplete
    <3>2. r \in Busy /\ r.cut = conn[c].cut /\ r.read = read /\ r.length = conn[c].length
      BY <2>1 DEF Busy
    <3>3. ~IsComplete(c, read) => r.phase = "read"
      BY <2>1 DEF Busy
    <3> HIDE DEF r, read
    <3> QED
      BY <2>1, <3>1, <3>2, <3>3 DEF ConnectionOK
  <2>4. conn' = [conn EXCEPT ![c] = r]
    BY <1>2, <2>1 DEF Receive, Busy, IsComplete
  <2> QED
    BY <1>2, <2>2, <2>3, <2>4, OneConnectionMoves DEF Receive
<1>3. CASE ReceiveNothing(c)
  <2> DEFINE r == [conn[c] EXCEPT !.phase = "route", !.cut = TRUE]
  <2>1. conn[c] \in Busy /\ ConnectionOK(r) /\ ConnectionOK(Closed)
    BY <1>3 DEF ReceiveNothing, ConnectionOK, Busy, Closed
  <2>2. conn' = [conn EXCEPT ![c] = r] \/ conn' = [conn EXCEPT ![c] = Closed]
    BY <1>3, <2>1 DEF ReceiveNothing, Busy
  <2> QED
    BY <1>3, <2>1, <2>2, OneConnectionMoves DEF ReceiveNothing, Busy, Closed
<1> QED
  BY <1>1, <1>2, <1>3

LEMMA SessionsInvKept == SessionsInv /\ [SessionsNext]_sessionVars => SessionsInv'
<1> SUFFICES ASSUME SessionsInv, [SessionsNext]_sessionVars PROVE SessionsInv'
  OBVIOUS
<1>1. CASE Restart
  <2>1. ConnectionOK(Closed) /\ Closed.phase # "handle"
    BY DEF ConnectionOK, Closed
  <2> QED
    BY <1>1, <2>1, SessionsAssumption DEF Restart, SessionsInv, MutexHeld
<1>2. CASE UNCHANGED sessionVars
  BY <1>2 DEF sessionVars, SessionsInv, MutexHeld
<1> QED
  BY <1>1, <1>2, ClientKeepsInv, ServeKeepsInv DEF SessionsNext

LEMMA SessionsInvAlways == SessionsSpec => []SessionsInv
BY SessionsInvInitially, SessionsInvKept, PTL DEF SessionsSpec

-----------------------------------------------------------------------------
(* However many clients there are and however their pieces arrive, what a  *)
(* handler works on is all of a request, or its client closed the          *)
(* connection before sending the rest (handleClient's loop).               *)
THEOREM RequestsAreWhole == SessionsSpec => []WholeRequestsAreHandled
<1>1. SessionsInv => WholeRequestsAreHandled
  BY DEF SessionsInv, ConnectionOK, Busy, WholeRequestsAreHandled
<1> QED
  BY <1>1, SessionsInvAlways, PTL

(* Handlers never run beside one another: the one that runs holds          *)
(* routeMutex from dispatch's lock to its reply.                           *)
THEOREM HandlersRunAlone == SessionsSpec => []HandlersAreAlone
<1>1. SessionsInv => HandlersAreAlone
  BY DEF SessionsInv, MutexHeld, HandlersAreAlone
<1> QED
  BY <1>1, SessionsInvAlways, PTL

-----------------------------------------------------------------------------
(* Accounts.                                                               *)

FindsByName(a) ==
  /\ DOMAIN a.usernameToId = {a.usersById[id].username : id \in DOMAIN a.usersById}
  /\ \A id \in DOMAIN a.usersById : a.usernameToId[a.usersById[id].username] = id

FindsByEmail(a) ==
  /\ DOMAIN a.emailToId = {a.usersById[id].email : id \in DOMAIN a.usersById}
  /\ \A id \in DOMAIN a.usersById : a.emailToId[a.usersById[id].email] = id

TokensOK(a) ==
  /\ a.tokensMade \in Nat
  /\ DOMAIN a.tokenToUserId \subseteq 1 .. a.tokensMade
  /\ \A t \in DOMAIN a.tokenToUserId : a.tokenToUserId[t] \in DOMAIN a.usersById

IdsAreInTurn(a) == \E n \in Nat : DOMAIN a.usersById = 1001 .. 1000 + n

IsAuth(a) ==
  \E users, names, emails, tokens, made :
    a \in [usersById : {users}, usernameToId : {names}, emailToId : {emails},
           tokenToUserId : {tokens}, tokensMade : {made}]

(* What the methods of AuthManager keep true of its maps.                  *)
AuthOK(a) ==
  IsAuth(a) /\ IdsAreInTurn(a) /\ FindsByName(a) /\ FindsByEmail(a) /\ TokensOK(a)

(* What was known stays known.                                             *)
UsersStay(a, b) ==
  /\ DOMAIN a.usersById \subseteq DOMAIN b.usersById
  /\ \A id \in DOMAIN a.usersById : b.usersById[id] = a.usersById[id]

SessionsStay(a, b) ==
  /\ DOMAIN a.tokenToUserId \subseteq DOMAIN b.tokenToUserId
  /\ \A t \in DOMAIN a.tokenToUserId : b.tokenToUserId[t] = a.tokenToUserId[t]

LEMMA NewUserIdIsNew ==
  ASSUME NEW a, IdsAreInTurn(a)
  PROVE  /\ NewUserId(a) \notin DOMAIN a.usersById
         /\ NewUserId(a) \in Nat
         /\ \E n \in Nat : DOMAIN a.usersById \cup {NewUserId(a)} = 1001 .. 1000 + n
<1>1. PICK n \in Nat : DOMAIN a.usersById = 1001 .. 1000 + n
  BY DEF IdsAreInTurn
<1>2. Cardinality(1001 .. 1000 + n) = n
  BY FS_Interval
<1>3. NewUserId(a) = n + 1001
  BY <1>1, <1>2 DEF NewUserId
<1>4. DOMAIN a.usersById \cup {NewUserId(a)} = 1001 .. 1000 + (n + 1)
  BY <1>1, <1>3
<1>5. n + 1 \in Nat /\ NewUserId(a) \in Nat /\ NewUserId(a) \notin DOMAIN a.usersById
  BY <1>1, <1>3
<1> QED BY <1>4, <1>5

(* What is kept of the users by a step that sets none of their maps.       *)
LEMMA SameUsers ==
  ASSUME NEW a, AuthOK(a), NEW b, b.usersById = a.usersById,
         b.usernameToId = a.usernameToId, b.emailToId = a.emailToId
  PROVE  FindsByName(b) /\ FindsByEmail(b) /\ IdsAreInTurn(b) /\ UsersStay(a, b)
<1>1. FindsByName(b)
  BY DEF AuthOK, FindsByName
<1>2. FindsByEmail(b)
  BY DEF AuthOK, FindsByEmail
<1>3. IdsAreInTurn(b)
  BY DEF AuthOK, IdsAreInTurn
<1>4. UsersStay(a, b)
  BY DEF UsersStay
<1> QED BY <1>1, <1>2, <1>3, <1>4

LEMMA WithTokenKeeps ==
  ASSUME NEW a, AuthOK(a), NEW id \in DOMAIN a.usersById
  PROVE  /\ AuthOK(WithToken(a, id))
         /\ UsersStay(a, WithToken(a, id)) /\ SessionsStay(a, WithToken(a, id))
         /\ WithToken(a, id).usersById = a.usersById
<1> DEFINE b == WithToken(a, id)
<1>1. /\ IsAuth(b) /\ b.usersById = a.usersById
      /\ b.usernameToId = a.usernameToId /\ b.emailToId = a.emailToId
      /\ b.tokensMade = a.tokensMade + 1
      /\ b.tokenToUserId = With(a.tokenToUserId, a.tokensMade + 1, id)
  <2>1. PICK users, names, emails, tokens, made :
          a \in [usersById : {users}, usernameToId : {names}, emailToId : {emails},
                 tokenToUserId : {tokens}, tokensMade : {made}]
    BY DEF AuthOK, IsAuth
  <2>2. b \in [usersById : {users}, usernameToId : {names}, emailToId : {emails},
               tokenToUserId : {With(tokens, made + 1, id)}, tokensMade : {made + 1}]
    BY <2>1 DEF WithToken
  <2> HIDE DEF b
  <2> QED BY <2>1, <2>2 DEF IsAuth
<1> HIDE DEF b
<1>2. a.tokensMade + 1 \notin DOMAIN a.tokenToUserId
  BY DEF AuthOK, TokensOK
<1>3. /\ DOMAIN b.tokenToUserId = DOMAIN a.tokenToUserId \cup {a.tokensMade + 1}
      /\ b.tokenToUserId[a.tokensMade + 1] = id
      /\ \A t \in DOMAIN a.tokenToUserId : b.tokenToUserId[t] = a.tokenToUserId[t]
  BY <1>1, <1>2 DEF With
<1>4. TokensOK(b) /\ SessionsStay(a, b)
  BY <1>1, <1>3 DEF AuthOK, TokensOK, SessionsStay
<1>5. FindsByName(b) /\ FindsByEmail(b) /\ IdsAreInTurn(b) /\ UsersStay(a, b)
  BY <1>1, SameUsers
<1> QED BY <1>1, <1>4, <1>5 DEF AuthOK, b

(* A registration that is not refused adds one user, and no name or email  *)
(* comes to mean another user than before.                                 *)
LEMMA RegisterKeeps ==
  ASSUME NEW a, AuthOK(a), NEW username, NEW email, NEW password,
         ~Refuses(a, username, email, password)
  PROVE  LET b == RegisterUser(a, username, email, password)
         IN  /\ AuthOK(b) /\ UsersStay(a, b) /\ SessionsStay(a, b)
             /\ DOMAIN b.usersById = DOMAIN a.usersById \cup {NewUserId(a)}
             /\ b.usersById[NewUserId(a)].username = username
<1> DEFINE id == NewUserId(a)
           user == [userId |-> id, username |-> username, email |-> email, password |-> password]
           m == [a EXCEPT !.usersById = With(@, id, user),
                          !.usernameToId = With(@, username, id),
                          !.emailToId = With(@, email, id)]
<1>1. RegisterUser(a, username, email, password) = WithToken(m, id)
  BY DEF RegisterUser
<1>2. user.username = username /\ user.email = email
  OBVIOUS
<1>3. /\ IsAuth(m)
      /\ m.usersById = With(a.usersById, id, user)
      /\ m.usernameToId = With(a.usernameToId, username, id)
      /\ m.emailToId = With(a.emailToId, email, id)
      /\ m.tokenToUserId = a.tokenToUserId /\ m.tokensMade = a.tokensMade
  <2>1. PICK users, names, emails, tokens, made :
          a \in [usersById : {users}, usernameToId : {names}, emailToId : {emails},
                 tokenToUserId : {tokens}, tokensMade : {made}]
    BY DEF AuthOK, IsAuth
  <2> HIDE DEF id, user
  <2>2. m \in [usersById : {With(users, id, user)}, usernameToId : {With(names, username, id)},
               emailToId : {With(emails, email, id)}, tokenToUserId : {tokens},
               tokensMade : {made}]
    BY <2>1
  <2> HIDE DEF m
  <2> QED BY <2>1, <2>2 DEF IsAuth
<1>4. /\ id \notin DOMAIN a.usersById
      /\ \E n \in Nat : DOMAIN a.usersById \cup {id} = 1001 .. 1000 + n
  BY NewUserIdIsNew DEF AuthOK
<1>5. username \notin DOMAIN a.usernameToId /\ email \notin DOMAIN a.emailToId
  BY DEF Refuses
<1> HIDE DEF m, id, user
<1>6. /\ DOMAIN m.usersById = DOMAIN a.usersById \cup {id} /\ m.usersById[id] = user
      /\ \A i \in DOMAIN a.usersById : m.usersById[i] = a.usersById[i]
  BY <1>3, <1>4 DEF With
<1>7. /\ DOMAIN m.usernameToId = DOMAIN a.usernameToId \cup {username}
      /\ m.usernameToId[username] = id
      /\ \A n \in DOMAIN a.usernameToId : m.usernameToId[n] = a.usernameToId[n]
  BY <1>3, <1>5 DEF With
<1>8. /\ DOMAIN m.emailToId = DOMAIN a.emailToId \cup {email}
      /\ m.emailToId[email] = id
      /\ \A e \in DOMAIN a.emailToId : m.emailToId[e] = a.emailToId[e]
  BY <1>3, <1>5 DEF With
<1>9. FindsByName(m)
  <2>1. FindsByName(a)
    BY DEF AuthOK
  <2>2. DOMAIN m.usernameToId = {m.usersById[i].username : i \in DOMAIN m.usersById}
    BY <1>2, <1>6, <1>7, <2>1 DEF FindsByName
  <2>3. ASSUME NEW i \in DOMAIN m.usersById PROVE m.usernameToId[m.usersById[i].username] = i
    <3>1. CASE i = id
      BY <1>2, <1>6, <1>7, <3>1
    <3>2. CASE i # id
      <4>1. i \in DOMAIN a.usersById /\ m.usersById[i] = a.usersById[i]
        BY <1>6, <3>2
      <4>2. a.usersById[i].username \in DOMAIN a.usernameToId
        BY <2>1, <4>1 DEF FindsByName
      <4> QED BY <1>7, <2>1, <4>1, <4>2 DEF FindsByName
    <3> QED BY <3>1, <3>2
  <2> QED BY <2>2, <2>3 DEF FindsByName
<1>10. FindsByEmail(m)
  <2>1. FindsByEmail(a)
    BY DEF AuthOK
  <2>2. DOMAIN m.emailToId = {m.usersById[i].email : i \in DOMAIN m.usersById}
    BY <1>2, <1>6, <1>8, <2>1 DEF FindsByEmail
  <2>3. ASSUME NEW i \in DOMAIN m.usersById PROVE m.emailToId[m.usersById[i].email] = i
    <3>1. CASE i = id
      BY <1>2, <1>6, <1>8, <3>1
    <3>2. CASE i # id
      <4>1. i \in DOMAIN a.usersById /\ m.usersById[i] = a.usersById[i]
        BY <1>6, <3>2
      <4>2. a.usersById[i].email \in DOMAIN a.emailToId
        BY <2>1, <4>1 DEF FindsByEmail
      <4> QED BY <1>8, <2>1, <4>1, <4>2 DEF FindsByEmail
    <3> QED BY <3>1, <3>2
  <2> QED BY <2>2, <2>3 DEF FindsByEmail
<1>11. TokensOK(m) /\ IdsAreInTurn(m)
  BY <1>3, <1>4, <1>6 DEF AuthOK, TokensOK, IdsAreInTurn
<1>12. AuthOK(m) /\ id \in DOMAIN m.usersById
  BY <1>3, <1>6, <1>9, <1>10, <1>11 DEF AuthOK
<1>13. /\ AuthOK(WithToken(m, id)) /\ SessionsStay(m, WithToken(m, id))
       /\ WithToken(m, id).usersById = m.usersById
  BY <1>12, WithTokenKeeps
<1>14. UsersStay(a, WithToken(m, id)) /\ SessionsStay(a, WithToken(m, id))
  BY <1>3, <1>6, <1>13 DEF UsersStay, SessionsStay
<1> QED BY <1>1, <1>2, <1>6, <1>13, <1>14 DEF id

LEMMA LogoutKeeps ==
  ASSUME NEW a, AuthOK(a), NEW token
  PROVE  /\ AuthOK(Logout(a, token)) /\ UsersStay(a, Logout(a, token))
         /\ Logout(a, token).usersById = a.usersById
         /\ \A t \in DOMAIN a.tokenToUserId \ {token} :
              /\ t \in DOMAIN Logout(a, token).tokenToUserId
              /\ Logout(a, token).tokenToUserId[t] = a.tokenToUserId[t]
<1> DEFINE b == Logout(a, token)
<1>1. /\ IsAuth(b) /\ b.usersById = a.usersById
      /\ b.usernameToId = a.usernameToId /\ b.emailToId = a.emailToId
      /\ b.tokensMade = a.tokensMade
      /\ b.tokenToUserId = Erased(a.tokenToUserId, token)
  <2>1. PICK users, names, emails, tokens, made :
          a \in [usersById : {users}, usernameToId : {names}, emailToId : {emails},
                 tokenToUserId : {tokens}, tokensMade : {made}]
    BY DEF AuthOK, IsAuth
  <2>2. b \in [usersById : {users}, usernameToId : {names}, emailToId : {emails},
               tokenToUserId : {Erased(tokens, token)}, tokensMade : {made}]
    BY <2>1 DEF Logout
  <2> HIDE DEF b
  <2> QED BY <2>1, <2>2 DEF IsAuth
<1> HIDE DEF b
<1>2. /\ DOMAIN b.tokenToUserId = DOMAIN a.tokenToUserId \ {token}
      /\ \A t \in DOMAIN a.tokenToUserId \ {token} : b.tokenToUserId[t] = a.tokenToUserId[t]
  BY <1>1 DEF Erased
<1>3. TokensOK(b)
  BY <1>1, <1>2 DEF AuthOK, TokensOK
<1>4. FindsByName(b) /\ FindsByEmail(b) /\ IdsAreInTurn(b) /\ UsersStay(a, b)
  BY <1>1, SameUsers
<1> QED BY <1>1, <1>2, <1>3, <1>4 DEF AuthOK, b

-----------------------------------------------------------------------------
(* The users there are from the start.                                     *)

LEMMA NobodyIsOK == AuthOK(Nobody)
<1>1. /\ Nobody \in [usersById : {<<>>}, usernameToId : {<<>>}, emailToId : {<<>>},
                     tokenToUserId : {<<>>}, tokensMade : {0}]
      /\ Nobody.usersById = <<>> /\ Nobody.usernameToId = <<>> /\ Nobody.emailToId = <<>>
      /\ Nobody.tokenToUserId = <<>> /\ Nobody.tokensMade = 0
  BY DEF Nobody
<1>2. DOMAIN <<>> = {} /\ 1001 .. 1000 + 0 = {}
  OBVIOUS
<1>3. IdsAreInTurn(Nobody) /\ IsAuth(Nobody)
  BY <1>1, <1>2 DEF IdsAreInTurn, IsAuth
<1> HIDE DEF Nobody
<1>4. FindsByName(Nobody) /\ FindsByEmail(Nobody) /\ TokensOK(Nobody)
  BY <1>1, <1>2 DEF FindsByName, FindsByEmail, TokensOK
<1> QED BY <1>3, <1>4 DEF AuthOK

(* Registering one after another, of which a name that comes twice is      *)
(* refused the second time.                                                *)
SeededBy(a, u) ==
  IF Refuses(a, u.username, u.email, u.password) THEN a
  ELSE RegisterUser(a, u.username, u.email, u.password)

IsSeeding(f, n) ==
  f = [k \in 0 .. n |-> IF k = 0 THEN Nobody ELSE SeededBy(f[k - 1], SeedUsers[k])]

LEMMA SeededByKeeps ==
  ASSUME NEW a, AuthOK(a), NEW u
  PROVE  AuthOK(SeededBy(a, u))
<1>1. ASSUME ~Refuses(a, u.username, u.email, u.password)
      PROVE  AuthOK(RegisterUser(a, u.username, u.email, u.password))
  BY <1>1, RegisterKeeps
<1> QED BY <1>1 DEF SeededBy

LEMMA SeedUsersAreASequence == Len(SeedUsers) \in Nat
<1>1. \A S : \A q \in Seq(S) : Len(q) \in Nat
  OBVIOUS
<1> QED BY <1>1, SessionsAssumption, Zenon

LEMMA SeedingExists ==
  ASSUME NEW n \in Nat, n <= Len(SeedUsers)
  PROVE  \E f : IsSeeding(f, n) /\ AuthOK(f[n])
<1>1. Len(SeedUsers) \in Nat
  BY SeedUsersAreASequence
<1> DEFINE P == {m \in Nat : m <= Len(SeedUsers) =>
                   \E f : IsSeeding(f, m) /\ AuthOK(f[m])}
<1>2. 0 \in P
  <2> DEFINE f == [k \in 0 .. 0 |-> Nobody]
  <2>1. IsSeeding(f, 0) /\ f[0] = Nobody
    BY DEF IsSeeding
  <2> HIDE DEF f
  <2> QED BY <2>1, NobodyIsOK
<1>3. ASSUME NEW m \in Nat, m \in P PROVE m + 1 \in P
  <2> SUFFICES ASSUME m + 1 <= Len(SeedUsers)
               PROVE  \E f : IsSeeding(f, m + 1) /\ AuthOK(f[m + 1])
    OBVIOUS
  <2>1. PICK g : IsSeeding(g, m) /\ AuthOK(g[m])
    BY <1>1, <1>3
  <2> DEFINE last == SeededBy(g[m], SeedUsers[m + 1])
             f == [k \in 0 .. m + 1 |-> IF k = m + 1 THEN last ELSE g[k]]
  <2>2. AuthOK(last)
    BY <2>1, SeededByKeeps
  <2>3. \A k \in 0 .. m : g[k] = IF k = 0 THEN Nobody ELSE SeededBy(g[k - 1], SeedUsers[k])
    BY <2>1 DEF IsSeeding
  <2>4. \A k \in 0 .. m + 1 : f[k] = IF k = 0 THEN Nobody ELSE SeededBy(f[k - 1], SeedUsers[k])
    BY <2>3
  <2>5. IsSeeding(f, m + 1) /\ f[m + 1] = last
    BY <2>4 DEF IsSeeding
  <2> HIDE DEF f, last
  <2> QED BY <2>2, <2>5
<1> HIDE DEF P
<1>4. n \in P
  BY <1>2, <1>3, NatInductionOnSet
<1> QED BY <1>4 DEF P

LEMMA SeedingIsUnique ==
  ASSUME NEW n \in Nat, NEW f, NEW g, IsSeeding(f, n), IsSeeding(g, n)
  PROVE  f[n] = g[n]
<1> DEFINE P == {k \in Nat : k <= n => f[k] = g[k]}
<1>1. /\ \A k \in 0 .. n : f[k] = IF k = 0 THEN Nobody ELSE SeededBy(f[k - 1], SeedUsers[k])
      /\ \A k \in 0 .. n : g[k] = IF k = 0 THEN Nobody ELSE SeededBy(g[k - 1], SeedUsers[k])
  BY DEF IsSeeding
<1>2. 0 \in P
  BY <1>1
<1>3. ASSUME NEW k \in Nat, k \in P PROVE k + 1 \in P
  BY <1>1, <1>3
<1> HIDE DEF P
<1>4. n \in P
  BY <1>2, <1>3, NatInductionOnSet
<1> QED BY <1>4 DEF P

LEMMA SeedsAreOK == AuthOK(SeedDefaultUsers)
<1> DEFINE n == Len(SeedUsers)
           Seeds(f) == f = [k \in 0 .. n |->
                         IF k = 0 THEN Nobody
                         ELSE IF Refuses(f[k - 1], SeedUsers[k].username, SeedUsers[k].email,
                                         SeedUsers[k].password) THEN f[k - 1]
                         ELSE RegisterUser(f[k - 1], SeedUsers[k].username,
                                           SeedUsers[k].email, SeedUsers[k].password)]
           Seeded == CHOOSE f : Seeds(f)
<1>1. n \in Nat
  BY SeedUsersAreASequence
<1>2. ASSUME NEW f PROVE Seeds(f) <=> IsSeeding(f, n)
  BY DEF IsSeeding, SeededBy
<1>3. PICK g : IsSeeding(g, n) /\ AuthOK(g[n])
  BY <1>1, SeedingExists
<1>4. Seeds(g)
  BY <1>2, <1>3
<1>5. Seeds(Seeded)
  <2> HIDE DEF Seeds
  <2> QED BY <1>4
<1>6. IsSeeding(Seeded, n)
  BY <1>2, <1>5
<1>7. g[n] = Seeded[n]
  <2> HIDE DEF n, Seeded
  <2> QED BY <1>1, <1>3, <1>6, SeedingIsUnique
<1>8. SeedDefaultUsers = Seeded[n]
  BY DEF SeedDefaultUsers
<1> HIDE DEF Seeded, Seeds
<1> QED BY <1>3, <1>7, <1>8

-----------------------------------------------------------------------------
(* What a handler does to users, sessions and rows, and what it answers.   *)

SessionsStayBut(a, b, token) ==
  \A t \in DOMAIN a.tokenToUserId \ {token} :
    t \in DOMAIN b.tokenToUserId /\ b.tokenToUserId[t] = a.tokenToUserId[t]

UsersAreKept ==
  /\ AuthOK(auth') /\ UsersStay(auth, auth')
  /\ DOMAIN auth'.usersById \subseteq DOMAIN auth.usersById \cup portfolios'
  /\ portfolios \subseteq portfolios'

(* A row made of a user is that user's.                                    *)
NewRow(r) ==
  \E id \in DOMAIN auth.usersById :
    r = [userId |-> id, by |-> auth.usersById[id].username, run |-> restarts]

RowsAreKept == \A r \in orderRows' : r \in orderRows \/ NewRow(r)

RowsOf(id) ==
  [username |-> auth.usersById[id].username, rows |-> {r \in orderRows : r.userId = id}]

SessionsAreKept(answer) ==
  SessionsStay(auth, auth') \/ \E t : answer = [ended |-> t] /\ SessionsStayBut(auth, auth', t)

AnswerIsOfOneUser(answer) ==
  "rows" \in DOMAIN answer => \E id \in DOMAIN auth.usersById : answer = RowsOf(id)

HandlerEffect(c) ==
  /\ UsersAreKept /\ RowsAreKept
  /\ \E answer : Reply(c, answer) /\ SessionsAreKept(answer) /\ AnswerIsOfOneUser(answer)

LEMMA NothingChanges ==
  ASSUME AuthOK(auth), auth' = auth, portfolios \subseteq portfolios'
  PROVE  UsersAreKept /\ SessionsStay(auth, auth')
  BY DEF UsersAreKept, SessionsStay, UsersStay

LEMMA PlainAnswer == "rows" \notin DOMAIN Plain /\ \A t : "rows" \notin DOMAIN [ended |-> t]
  BY DEF Plain

LEMMA RegisterHasEffect ==
  ASSUME AuthOK(auth), NEW c \in Connections, Register(c) PROVE HandlerEffect(c)
<1>1. PICK n \in Names, e \in Emails, p \in Passwords :
        LET username == NameIn(c, n)
            email    == NameIn(c, e)
            password == PasswordIn(c, p)
        IN  IF Refuses(auth, username, email, password)
            THEN Reply(c, Plain) /\ UNCHANGED <<auth, portfolios, orderRows>>
            ELSE /\ auth.tokensMade < MaxSessions
                 /\ Changed(RegisterUser(auth, username, email, password), {NewUserId(auth)})
                 /\ Reply(c, Plain)
                 /\ UNCHANGED orderRows
  BY DEF Register
<1> DEFINE b == RegisterUser(auth, NameIn(c, n), NameIn(c, e), PasswordIn(c, p))
<1>2. Reply(c, Plain) /\ orderRows' = orderRows
  BY <1>1
<1>3. CASE Refuses(auth, NameIn(c, n), NameIn(c, e), PasswordIn(c, p))
  <2>1. auth' = auth /\ portfolios' = portfolios
    BY <1>1, <1>3
  <2> QED BY <1>2, <2>1, NothingChanges, PlainAnswer
          DEF HandlerEffect, RowsAreKept, SessionsAreKept, AnswerIsOfOneUser
<1>4. CASE ~Refuses(auth, NameIn(c, n), NameIn(c, e), PasswordIn(c, p))
  <2>1. auth' = b /\ portfolios' = portfolios \cup {NewUserId(auth)}
    BY <1>1, <1>4 DEF Changed
  <2>2. /\ AuthOK(b) /\ UsersStay(auth, b) /\ SessionsStay(auth, b)
        /\ DOMAIN b.usersById = DOMAIN auth.usersById \cup {NewUserId(auth)}
    BY <1>4, RegisterKeeps
  <2> HIDE DEF b
  <2>3. UsersAreKept /\ SessionsStay(auth, auth')
    BY <2>1, <2>2 DEF UsersAreKept
  <2> QED BY <1>2, <2>3, PlainAnswer
          DEF HandlerEffect, RowsAreKept, SessionsAreKept, AnswerIsOfOneUser
<1> QED BY <1>3, <1>4

LEMMA LoginHasEffect ==
  ASSUME AuthOK(auth), NEW c \in Connections, Login(c) PROVE HandlerEffect(c)
<1>1. PICK i \in Names \cup Emails, p \in Passwords :
        LET found == LoginUser(auth, NameIn(c, i), PasswordIn(c, p))
        IN  IF found = {}
            THEN Reply(c, Plain) /\ UNCHANGED <<auth, portfolios, orderRows>>
            ELSE /\ auth.tokensMade < MaxSessions
                 /\ \E id \in found : Changed(WithToken(auth, id), found)
                 /\ Reply(c, Plain)
                 /\ UNCHANGED orderRows
  BY DEF Login
<1> DEFINE found == LoginUser(auth, NameIn(c, i), PasswordIn(c, p))
<1>2. Reply(c, Plain) /\ orderRows' = orderRows
  BY <1>1
<1>3. UsersAreKept /\ SessionsStay(auth, auth')
  <2>1. CASE found = {}
    <3>1. auth' = auth /\ portfolios' = portfolios
      BY <1>1, <2>1
    <3> QED BY <3>1, NothingChanges
  <2>2. CASE found # {}
    <3>1. PICK id \in found : Changed(WithToken(auth, id), found)
      BY <1>1, <2>2
    <3>2. id \in DOMAIN auth.usersById
      BY <3>1 DEF LoginUser
    <3> DEFINE b == WithToken(auth, id)
    <3>3. AuthOK(b) /\ UsersStay(auth, b) /\ SessionsStay(auth, b) /\ b.usersById = auth.usersById
      BY <3>2, WithTokenKeeps
    <3>4. auth' = b /\ portfolios \subseteq portfolios'
      BY <3>1 DEF Changed
    <3> HIDE DEF b
    <3> QED BY <3>3, <3>4 DEF UsersAreKept
  <2> QED BY <2>1, <2>2
<1> QED BY <1>2, <1>3, PlainAnswer
        DEF HandlerEffect, RowsAreKept, SessionsAreKept, AnswerIsOfOneUser

LEMMA EndSessionHasEffect ==
  ASSUME AuthOK(auth), NEW c \in Connections, EndSession(c) PROVE HandlerEffect(c)
<1>1. PICK t \in Tokens : /\ auth' = Logout(auth, TokenIn(c, t))
                          /\ Reply(c, [ended |-> TokenIn(c, t)])
                          /\ portfolios' = portfolios /\ orderRows' = orderRows
  BY DEF EndSession
<1> DEFINE token == TokenIn(c, t)
           b == Logout(auth, token)
<1>2. /\ AuthOK(b) /\ UsersStay(auth, b) /\ b.usersById = auth.usersById
      /\ SessionsStayBut(auth, b, token)
  BY LogoutKeeps DEF SessionsStayBut
<1>3. auth' = b /\ Reply(c, [ended |-> token])
  BY <1>1
<1> HIDE DEF b, token
<1>4. UsersAreKept
  BY <1>1, <1>2, <1>3 DEF UsersAreKept
<1>5. SessionsAreKept([ended |-> token])
  BY <1>2, <1>3 DEF SessionsAreKept
<1> QED BY <1>1, <1>3, <1>4, <1>5, PlainAnswer DEF HandlerEffect, RowsAreKept, AnswerIsOfOneUser

LEMMA PostOrderHasEffect ==
  ASSUME AuthOK(auth), NEW c \in Connections, PostOrder(c) PROVE HandlerEffect(c)
<1>1. PICK t \in Tokens :
        LET users == ValidateToken(auth, TokenIn(c, t))
            rows  == {[userId |-> id, by |-> auth.usersById[id].username, run |-> restarts] :
                        id \in users}
        IN  /\ orderRows' = orderRows \cup rows
            /\ Reply(c, Plain)
            /\ auth' = auth /\ portfolios' = portfolios
  BY DEF PostOrder
<1>2. RowsAreKept
  BY <1>1 DEF RowsAreKept, NewRow, ValidateToken
<1>3. UsersAreKept /\ SessionsStay(auth, auth')
  BY <1>1, NothingChanges
<1>4. Reply(c, Plain)
  BY <1>1
<1> QED BY <1>2, <1>3, <1>4, PlainAnswer DEF HandlerEffect, SessionsAreKept, AnswerIsOfOneUser

LEMMA GetOrdersHasEffect ==
  ASSUME AuthOK(auth), NEW c \in Connections, GetOrders(c) PROVE HandlerEffect(c)
<1>1. PICK t \in Tokens :
        LET users == ValidateToken(auth, TokenIn(c, t))
        IN  /\ IF users = {} THEN Reply(c, Plain)
               ELSE \E id \in users :
                      Reply(c, [username |-> auth.usersById[id].username,
                                rows |-> {r \in orderRows : r.userId = id}])
            /\ auth' = auth /\ portfolios' = portfolios /\ orderRows' = orderRows
  BY DEF GetOrders
<1> DEFINE users == ValidateToken(auth, TokenIn(c, t))
<1>2. UsersAreKept /\ SessionsStay(auth, auth') /\ RowsAreKept
  BY <1>1, NothingChanges DEF RowsAreKept
<1>3. CASE users = {}
  <2>1. Reply(c, Plain)
    BY <1>1, <1>3
  <2> QED BY <1>2, <2>1, PlainAnswer DEF HandlerEffect, SessionsAreKept, AnswerIsOfOneUser
<1>4. CASE users # {}
  <2>1. PICK id \in users : Reply(c, RowsOf(id))
    BY <1>1, <1>4 DEF RowsOf
  <2>2. id \in DOMAIN auth.usersById
    BY <2>1 DEF ValidateToken
  <2>3. AnswerIsOfOneUser(RowsOf(id))
    BY <2>2 DEF AnswerIsOfOneUser
  <2> QED BY <1>2, <2>1, <2>3 DEF HandlerEffect, SessionsAreKept
<1> QED BY <1>3, <1>4

LEMMA HandleHasEffect ==
  ASSUME AuthOK(auth), NEW c \in Connections, Handle(c) PROVE HandlerEffect(c)
<1>1. ASSUME NoSuchRoute(c) PROVE HandlerEffect(c)
  <2>1. Reply(c, Plain) /\ orderRows' = orderRows /\ auth' = auth /\ portfolios' = portfolios
    BY <1>1 DEF NoSuchRoute
  <2> QED BY <2>1, NothingChanges, PlainAnswer
          DEF HandlerEffect, RowsAreKept, SessionsAreKept, AnswerIsOfOneUser
<1> QED BY <1>1, RegisterHasEffect, LoginHasEffect, PostOrderHasEffect, EndSessionHasEffect,
           GetOrdersHasEffect DEF Handle

-----------------------------------------------------------------------------
(* The inductive invariant about users.                                    *)

(* A row is its user's in the run that made it, and a seeded user's in     *)
(* every run.                                                              *)
RowOK(r) ==
  /\ r.run \in 0 .. restarts
  /\ r.userId \in DOMAIN SeedDefaultUsers.usersById =>
       r.by = SeedDefaultUsers.usersById[r.userId].username
  /\ r.run = restarts =>
       r.userId \in DOMAIN auth.usersById /\ r.by = auth.usersById[r.userId].username

UsersOK ==
  /\ AuthOK(auth) /\ UsersStay(SeedDefaultUsers, auth)
  /\ DOMAIN auth.usersById \subseteq portfolios
  /\ restarts \in 0 .. MaxRestarts
  /\ \A r \in orderRows : RowOK(r)

UsersInv == SessionsInv /\ UsersOK /\ RowsAreTheUsers

LEMMA StaysItself == UsersStay(SeedDefaultUsers, SeedDefaultUsers)
  BY DEF UsersStay

LEMMA UsersInvInitially == SessionsInit => UsersInv
<1> SUFFICES ASSUME SessionsInit PROVE UsersInv
  OBVIOUS
<1>1. UsersOK
  <2>1. /\ auth = SeedDefaultUsers /\ portfolios = DOMAIN auth.usersById
        /\ orderRows = {} /\ restarts = 0
    BY DEF SessionsInit
  <2>2. MaxRestarts \in Nat
    BY SessionsAssumption, Zenon
  <2>3. restarts \in 0 .. MaxRestarts
    BY <2>1, <2>2
  <2>4. UsersStay(SeedDefaultUsers, auth)
    BY <2>1, StaysItself, Zenon
  <2>5. AuthOK(auth)
    BY <2>1, SeedsAreOK, Zenon
  <2> QED BY <2>1, <2>3, <2>4, <2>5, Zenon DEF UsersOK
<1>2. \A c \in Connections : conn[c].phase # "send"
  BY DEF SessionsInit, Closed
<1> QED BY <1>1, <1>2, SessionsInvInitially DEF UsersInv, RowsAreTheUsers

(* The rows that a user is shown.                                          *)
LEMMA RowsOfAUserAreTheUsers ==
  ASSUME UsersOK, NEW id \in DOMAIN auth.usersById, NEW r \in orderRows, r.userId = id
  PROVE  LET name == auth.usersById[id].username
         IN  \/ r.by = name
             \/ r.run < restarts /\ name \notin DOMAIN SeedDefaultUsers.usernameToId
<1> DEFINE name == auth.usersById[id].username
<1>1. RowOK(r) /\ restarts \in Nat
  BY DEF UsersOK
<1>2. CASE r.run = restarts
  BY <1>1, <1>2 DEF RowOK
<1>3. CASE r.run # restarts
  <2>1. r.run < restarts
    BY <1>1, <1>3 DEF RowOK
  <2>2. ASSUME name \in DOMAIN SeedDefaultUsers.usernameToId PROVE r.by = name
    <3>1. PICK k \in DOMAIN SeedDefaultUsers.usersById :
            name = SeedDefaultUsers.usersById[k].username
      BY <2>2, SeedsAreOK DEF AuthOK, FindsByName
    <3>2. k \in DOMAIN auth.usersById /\ auth.usersById[k].username = name
      BY <3>1 DEF UsersOK, UsersStay
    <3>3. k = id
      BY <3>2 DEF UsersOK, AuthOK, FindsByName
    <3> QED BY <1>1, <3>1, <3>3 DEF RowOK
  <2> QED BY <2>1, <2>2
<1> QED BY <1>2, <1>3

LEMMA HandleKeepsUsers ==
  ASSUME UsersInv, NEW c \in Connections, Handle(c)
  PROVE  UsersOK' /\ RowsAreTheUsers'
<1>1. AuthOK(auth)
  BY DEF UsersInv, UsersOK
<1>2. HandlerEffect(c)
  BY <1>1, HandleHasEffect
<1>3. PICK answer : Reply(c, answer) /\ SessionsAreKept(answer) /\ AnswerIsOfOneUser(answer)
  BY <1>2 DEF HandlerEffect
<1>4. UsersAreKept /\ RowsAreKept /\ restarts' = restarts
  BY <1>2, <1>3 DEF HandlerEffect, Reply
<1>5. ASSUME NEW r \in orderRows' PROVE RowOK(r)'
  <2>1. CASE r \in orderRows
    <3>1. RowOK(r)
      BY <2>1 DEF UsersInv, UsersOK
    <3> QED BY <1>4, <3>1 DEF RowOK, UsersAreKept, UsersStay
  <2>2. CASE NewRow(r)
    <3>1. PICK id \in DOMAIN auth.usersById :
            r = [userId |-> id, by |-> auth.usersById[id].username, run |-> restarts]
      BY <2>2 DEF NewRow
    <3>2. r.userId = id /\ r.by = auth.usersById[id].username /\ r.run = restarts
      BY <3>1
    <3>3. restarts \in Nat
      BY DEF UsersInv, UsersOK
    <3>4. id \in DOMAIN SeedDefaultUsers.usersById =>
            auth.usersById[id] = SeedDefaultUsers.usersById[id]
      BY DEF UsersInv, UsersOK, UsersStay
    <3>5. id \in DOMAIN auth'.usersById /\ auth'.usersById[id] = auth.usersById[id]
      BY <1>4, <3>1 DEF UsersAreKept, UsersStay
    <3> QED BY <1>4, <3>2, <3>3, <3>4, <3>5 DEF RowOK
  <2> QED BY <1>4, <2>1, <2>2 DEF RowsAreKept
<1>6. UsersOK'
  <2>1. AuthOK(auth') /\ DOMAIN auth'.usersById \subseteq portfolios'
    BY <1>4 DEF UsersAreKept, UsersInv, UsersOK
  <2>2. UsersStay(SeedDefaultUsers, auth')
    BY <1>4 DEF UsersAreKept, UsersInv, UsersOK, UsersStay
  <2>3. restarts' \in 0 .. MaxRestarts
    BY <1>4 DEF UsersInv, UsersOK
  <2> QED BY <1>5, <2>1, <2>2, <2>3 DEF UsersOK
<1>7. ASSUME NEW d \in Connections, conn'[d].phase = "send", "rows" \in DOMAIN conn'[d].answer,
             NEW r \in conn'[d].answer.rows
      PROVE  \/ r.by = conn'[d].answer.username
             \/ /\ r.run < restarts'
                /\ conn'[d].answer.username \notin DOMAIN SeedDefaultUsers.usernameToId
  <2>1. conn' = [conn EXCEPT ![c] = [phase |-> "send", answer |-> answer]]
    BY <1>3 DEF Reply
  <2>2. conn = [x \in Connections |-> conn[x]]
    BY DEF UsersInv, SessionsInv
  <2>3. CASE d = c
    <3>1. conn'[d].answer = answer
      BY <2>1, <2>2, <2>3
    <3>2. PICK id \in DOMAIN auth.usersById : answer = RowsOf(id)
      BY <1>3, <1>7, <3>1 DEF AnswerIsOfOneUser
    <3>3. /\ answer.username = auth.usersById[id].username
          /\ r \in orderRows /\ r.userId = id
      BY <1>7, <3>1, <3>2 DEF RowsOf
    <3> QED BY <1>4, <3>1, <3>3, RowsOfAUserAreTheUsers DEF UsersInv
  <2>4. CASE d # c
    <3>1. conn'[d] = conn[d]
      BY <2>1, <2>2, <2>4
    <3> QED BY <1>4, <1>7, <3>1 DEF UsersInv, RowsAreTheUsers
  <2> QED BY <2>3, <2>4
<1>8. RowsAreTheUsers'
  BY <1>7 DEF RowsAreTheUsers
<1> QED BY <1>6, <1>8

(* Nothing but a handler looks at users, and no other answer shows rows.   *)
ShowsNoRows(r) == r.phase # "send" \/ r.answer = Plain

LEMMA OtherStepsTouchNoUsers ==
  ASSUME SessionsInv, NEW c \in Connections,
         \/ Connect(c) \/ Receive(c) \/ ReceiveNothing(c)
         \/ Accept(c) \/ Lock(c) \/ Preflight(c) \/ Send(c)
  PROVE  /\ UNCHANGED <<auth, portfolios, orderRows, restarts>>
         /\ \A d \in Connections : ShowsNoRows(conn'[d]) \/ conn'[d] = conn[d]
<1>1. conn = [d \in Connections |-> conn[d]]
  BY DEF SessionsInv
<1>2. CASE Connect(c)
  BY <1>1, <1>2 DEF Connect, ShowsNoRows
<1>3. CASE Receive(c)
  <2>1. conn[c] \in Busy
    BY <1>3 DEF SessionsInv, ConnectionOK, Receive
  <2> QED BY <1>1, <1>3, <2>1 DEF Receive, ShowsNoRows, Busy
<1>4. CASE ReceiveNothing(c)
  <2>1. conn[c] \in Busy
    BY <1>4 DEF SessionsInv, ConnectionOK, ReceiveNothing
  <2> QED BY <1>1, <1>4, <2>1 DEF ReceiveNothing, ShowsNoRows, Busy, Closed
<1>5. CASE Accept(c)
  <2>1. conn[c] \in Busy
    BY <1>5 DEF SessionsInv, ConnectionOK, Accept
  <2> QED BY <1>1, <1>5, <2>1 DEF Accept, ShowsNoRows, Busy
<1>6. CASE Lock(c)
  <2>1. conn[c] \in Busy
    BY <1>6 DEF SessionsInv, ConnectionOK, Lock
  <2> QED BY <1>1, <1>6, <2>1 DEF Lock, ShowsNoRows, Busy
<1>7. CASE Preflight(c)
  BY <1>1, <1>7 DEF Preflight, ShowsNoRows
<1>8. CASE Send(c)
  BY <1>1, <1>8 DEF Send, ShowsNoRows, Closed
<1> QED BY <1>2, <1>3, <1>4, <1>5, <1>6, <1>7, <1>8

LEMMA OtherStepsKeepUsers ==
  ASSUME UsersInv, UNCHANGED <<auth, portfolios, orderRows, restarts>>,
         \A d \in Connections : ShowsNoRows(conn'[d]) \/ conn'[d] = conn[d]
  PROVE  UsersOK' /\ RowsAreTheUsers'
<1>1. UsersOK'
  BY DEF UsersInv, UsersOK, RowOK
<1>2. ASSUME NEW d \in Connections, conn'[d].phase = "send", "rows" \in DOMAIN conn'[d].answer
      PROVE  conn'[d] = conn[d]
  BY <1>2, PlainAnswer DEF ShowsNoRows
<1> QED BY <1>1, <1>2 DEF UsersInv, RowsAreTheUsers

LEMMA RestartKeepsUsers ==
  ASSUME UsersInv, Restart PROVE UsersOK' /\ RowsAreTheUsers'
<1>1. /\ restarts \in Nat /\ restarts < MaxRestarts /\ restarts' = restarts + 1
      /\ auth' = SeedDefaultUsers /\ portfolios' = DOMAIN auth'.usersById
      /\ orderRows' = orderRows
      /\ \A c \in Connections : conn'[c].phase = "closed"
  BY DEF UsersInv, UsersOK, Restart, Closed
<1>2. ASSUME NEW r \in orderRows PROVE RowOK(r)'
  <2>1. RowOK(r)
    BY DEF UsersInv, UsersOK
  <2> QED BY <1>1, <2>1 DEF RowOK
<1>3. UsersOK'
  <2>1. MaxRestarts \in Nat
    BY SessionsAssumption, Zenon
  <2>2. restarts' \in 0 .. MaxRestarts
    BY <1>1, <2>1
  <2>3. UsersStay(SeedDefaultUsers, auth')
    BY <1>1, StaysItself, Zenon
  <2>4. AuthOK(auth')
    BY <1>1, SeedsAreOK, Zenon
  <2>5. DOMAIN auth'.usersById \subseteq portfolios'
    BY <1>1
  <2>6. \A r \in orderRows' : RowOK(r)'
    BY <1>1, <1>2
  <2> QED BY <2>2, <2>3, <2>4, <2>5, <2>6 DEF UsersOK
<1>4. RowsAreTheUsers'
  BY <1>1 DEF RowsAreTheUsers
<1> QED BY <1>3, <1>4

LEMMA UsersInvKept == UsersInv /\ [SessionsNext]_sessionVars => UsersInv'
<1> SUFFICES ASSUME UsersInv, [SessionsNext]_sessionVars PROVE UsersOK' /\ RowsAreTheUsers'
  BY SessionsInvKept DEF UsersInv
<1>1. SessionsInv
  BY DEF UsersInv
<1>2. CASE UNCHANGED sessionVars
  <2>1. /\ UNCHANGED <<auth, portfolios, orderRows, restarts>>
        /\ \A d \in Connections : conn'[d] = conn[d]
    BY <1>2 DEF sessionVars
  <2> QED BY <2>1, OtherStepsKeepUsers
<1>3. CASE Restart
  BY <1>3, RestartKeepsUsers
<1>4. ASSUME NEW c \in Connections,
             Connect(c) \/ Receive(c) \/ ReceiveNothing(c) \/ Serve(c)
      PROVE  UsersOK' /\ RowsAreTheUsers'
  <2>1. CASE Handle(c)
    BY <2>1, HandleKeepsUsers
  <2>2. CASE ~Handle(c)
    <3>1. /\ UNCHANGED <<auth, portfolios, orderRows, restarts>>
          /\ \A d \in Connections : ShowsNoRows(conn'[d]) \/ conn'[d] = conn[d]
      BY <1>1, <1>4, <2>2, OtherStepsTouchNoUsers DEF Serve
    <3> QED BY <3>1, OtherStepsKeepUsers
  <2> QED BY <2>1, <2>2
<1> QED BY <1>2, <1>3, <1>4 DEF SessionsNext

LEMMA UsersInvAlways == SessionsSpec => []UsersInv
  BY UsersInvInitially, UsersInvKept, PTL DEF SessionsSpec

-----------------------------------------------------------------------------
(* The maps of AuthManager have the keys they should, and routeMutex the   *)
(* holder it should, with any number of connections.                       *)
THEOREM SessionsTypeCorrect == SessionsSpec => []SessionsTypeOK
<1>1. UsersInv => SessionsTypeOK
  BY DEF UsersInv, SessionsInv, MutexHeld, UsersOK, AuthOK, TokensOK, SessionsTypeOK
<1> QED BY <1>1, UsersInvAlways, PTL

(* Whoever registers, logs in and out in whatever order, and whatever the  *)
(* users are that main() starts with: no id, username or email is two      *)
(* users', and everybody gets in with his own name and password.           *)
THEOREM AccountsAlwaysAgree == SessionsSpec => []AccountsAgree
<1>1. ASSUME UsersInv PROVE AccountsAgree
  <2>1. AuthOK(auth) /\ DOMAIN auth.usersById \subseteq portfolios
    BY <1>1 DEF UsersInv, UsersOK
  <2>2. ASSUME NEW id \in DOMAIN auth.usersById
        PROVE  LET u == auth.usersById[id]
               IN  /\ LoginUser(auth, u.username, u.password) = {id}
                   /\ u.email \notin DOMAIN auth.usernameToId =>
                        LoginUser(auth, u.email, u.password) = {id}
    BY <2>1 DEF AuthOK, FindsByName, FindsByEmail, LoginUser
  <2> QED BY <2>1, <2>2 DEF AccountsAgree, AuthOK, FindsByName, FindsByEmail, TokensOK
<1> QED BY <1>1, UsersInvAlways, PTL

(* The rows that GET /api/orders shows to a user are of that user's        *)
(* orders; after a restart this is so for the users main() starts with.    *)
THEOREM RowsAreAlwaysTheUsers == SessionsSpec => []RowsAreTheUsers
<1>1. UsersInv => RowsAreTheUsers
  BY DEF UsersInv
<1> QED BY <1>1, UsersInvAlways, PTL

(* Nothing but a logout with its token, or the end of the process, ends a  *)
(* session or makes it somebody else's.                                    *)
THEOREM SessionsAlwaysKeepTheirUser == SessionsSpec => SessionsKeepTheirUser
<1>1. ASSUME UsersInv, [SessionsNext]_sessionVars, restarts' = restarts,
             NEW t \in DOMAIN auth.tokenToUserId
      PROVE  SessionKept(t)
  <2>1. AuthOK(auth) /\ auth.tokenToUserId[t] \in DOMAIN auth.usersById
    BY <1>1 DEF UsersInv, UsersOK, AuthOK, TokensOK
  <2>2. CASE auth' = auth
    BY <1>1, <2>2 DEF SessionKept
  <2>3. ASSUME NEW c \in Connections, Handle(c) PROVE SessionKept(t)
    <3>1. UsersAreKept /\ \E answer : Reply(c, answer) /\ SessionsAreKept(answer)
      BY <2>1, <2>3, HandleHasEffect DEF HandlerEffect
    <3>2. PICK answer : Reply(c, answer) /\ SessionsAreKept(answer)
      BY <3>1
    <3>3. conn[c].phase = "handle"
      BY <2>3 DEF Handle
    <3>4. conn'[c].phase = "send" /\ conn'[c].answer = answer
      BY <1>1, <3>2 DEF Reply, UsersInv, SessionsInv
    <3>5. CASE /\ t \in DOMAIN auth'.tokenToUserId
               /\ auth'.tokenToUserId[t] = auth.tokenToUserId[t]
      BY <2>1, <3>1, <3>5 DEF SessionKept, UsersAreKept, UsersStay
    <3>6. CASE answer = [ended |-> t]
      BY <3>3, <3>4, <3>6 DEF SessionKept
    <3> QED BY <1>1, <3>2, <3>5, <3>6 DEF SessionsAreKept, SessionsStay, SessionsStayBut
  <2>4. ASSUME NEW c \in Connections, ~Handle(c),
               Connect(c) \/ Receive(c) \/ ReceiveNothing(c) \/ Serve(c)
        PROVE  auth' = auth
    BY <1>1, <2>4, OtherStepsTouchNoUsers DEF Serve, UsersInv
  <2>5. ~Restart
    <3>1. restarts \in Nat
      BY <1>1 DEF UsersInv, UsersOK
    <3> QED BY <1>1, <3>1 DEF Restart
  <2>6. CASE UNCHANGED sessionVars
    BY <2>2, <2>6 DEF sessionVars
  <2> QED BY <1>1, <2>2, <2>3, <2>4, <2>5, <2>6 DEF SessionsNext
<1>2. UsersInv /\ [SessionsNext]_sessionVars =>
        [restarts' = restarts => \A t \in DOMAIN auth.tokenToUserId : SessionKept(t)]_sessionVars
  BY <1>1
<1> QED BY <1>2, UsersInvAlways, PTL DEF SessionsSpec, SessionsKeepTheirUser

-----------------------------------------------------------------------------
(* Reading a body.                                                         *)

(* Fields of bodies.                                                       *)
Field == [key : FieldNames, value : FieldValues]

(* Bodies have distinct keys.                                              *)
BodyInv ==
  /\ body \in Seq(Field)
  /\ \A i, j \in 1 .. Len(body) : body[i].key = body[j].key => i = j

(* Tokens of different kinds or texts differ.                              *)
LEMMA TokensDiffer ==
  ASSUME NEW x, NEW y
  PROVE  /\ Quoted(x) # Mark(y) /\ Bare(x) # Mark(y)
         /\ Quoted(x) = Quoted(y) => x = y
         /\ Quoted(x) # Bare(y)
         /\ Mark(x) = Mark(y) => x = y
<1>1. Quoted(x).kind = "quoted" /\ Bare(x).kind = "bare" /\ Mark(y).kind = "mark" /\ Bare(y).kind = "bare"
  BY DEF Quoted, Bare, Mark
<1>2. Quoted(x).text = x /\ Quoted(y).text = y /\ Mark(x).text = x /\ Mark(y).text = y
  BY DEF Quoted, Mark
<1> QED BY <1>1, <1>2

(* T are the tokens of b.                                                  *)
HoldsTokens(T, b) ==
  /\ DOMAIN T = 1 .. 4 * Len(b)
  /\ \A i \in 1 .. Len(b) : /\ T[4 * i - 3] = Quoted(b[i].key) /\ T[4 * i - 2] = Mark(":")
                            /\ T[4 * i - 1] = b[i].value /\ T[4 * i] = Mark(",")

(* Where the tokens of a field are.                                        *)
LEMMA TokensAre ==
  ASSUME NEW b \in Seq(Field)
  PROVE  HoldsTokens(TokensOf(b), b)
<1> DEFINE T == TokensOf(b)
<1> DEFINE four(f) == <<Quoted(f.key), Mark(":"), f.value, Mark(",")>>
<1>1. T = [n \in 1 .. 4 * Len(b) |-> four(b[(n + 3) \div 4])[((n - 1) % 4) + 1]]
  BY DEF TokensOf
<1>2. ASSUME NEW f PROVE four(f)[1] = Quoted(f.key) /\ four(f)[2] = Mark(":")
                           /\ four(f)[3] = f.value /\ four(f)[4] = Mark(",")
  OBVIOUS
<1> HIDE DEF four, T
<1>3. Len(b) \in Nat
  OBVIOUS
<1>4. ASSUME NEW i \in 1 .. Len(b)
      PROVE  /\ T[4 * i - 3] = Quoted(b[i].key) /\ T[4 * i - 2] = Mark(":")
             /\ T[4 * i - 1] = b[i].value /\ T[4 * i] = Mark(",")
  <2> DEFINE at(n) == four(b[(n + 3) \div 4])[((n - 1) % 4) + 1]
  <2>1. \A n \in 1 .. 4 * Len(b) : T[n] = at(n)
    BY <1>1
  <2>2. T[4 * i - 3] = four(b[i])[1]
    <3>1. 4 * i - 3 \in 1 .. 4 * Len(b)
      BY <1>3
    <3>2. ((4 * i - 3) + 3) \div 4 = i /\ (((4 * i - 3) - 1) % 4) + 1 = 1
      BY <1>3
    <3>3. at(4 * i - 3) = four(b[i])[1]
      BY <3>2
    <3> HIDE DEF at
    <3> QED BY <2>1, <3>1, <3>3
  <2>3. T[4 * i - 2] = four(b[i])[2]
    <3>1. 4 * i - 2 \in 1 .. 4 * Len(b)
      BY <1>3
    <3>2. ((4 * i - 2) + 3) \div 4 = i /\ (((4 * i - 2) - 1) % 4) + 1 = 2
      BY <1>3
    <3>3. at(4 * i - 2) = four(b[i])[2]
      BY <3>2
    <3> HIDE DEF at
    <3> QED BY <2>1, <3>1, <3>3
  <2>4. T[4 * i - 1] = four(b[i])[3]
    <3>1. 4 * i - 1 \in 1 .. 4 * Len(b)
      BY <1>3
    <3>2. ((4 * i - 1) + 3) \div 4 = i /\ (((4 * i - 1) - 1) % 4) + 1 = 3
      BY <1>3
    <3>3. at(4 * i - 1) = four(b[i])[3]
      BY <3>2
    <3> HIDE DEF at
    <3> QED BY <2>1, <3>1, <3>3
  <2>5. T[4 * i] = four(b[i])[4]
    <3>1. 4 * i \in 1 .. 4 * Len(b)
      BY <1>3
    <3>2. (4 * i + 3) \div 4 = i /\ ((4 * i - 1) % 4) + 1 = 4
      BY <1>3
    <3>3. at(4 * i) = four(b[i])[4]
      BY <3>2
    <3> HIDE DEF at
    <3> QED BY <2>1, <3>1, <3>3
  <2> HIDE DEF at
  <2> QED BY <1>2, <2>2, <2>3, <2>4, <2>5
<1>5. HoldsTokens(T, b)
  BY <1>1, <1>4 DEF HoldsTokens
<1> QED BY <1>5 DEF T

(* Every place belongs to a field.                                         *)
LEMMA PlaceOfField ==
  ASSUME NEW l \in Nat, NEW n \in 1 .. 4 * l
  PROVE  \E i \in 1 .. l : n = 4 * i - 3 \/ n = 4 * i - 2 \/ n = 4 * i - 1 \/ n = 4 * i
<1> DEFINE i == (n + 3) \div 4
<1>1. i \in 1 .. l /\ (n = 4 * i - 3 \/ n = 4 * i - 2 \/ n = 4 * i - 1 \/ n = 4 * i)
  OBVIOUS
<1> QED BY <1>1

(* The first place of a token is found.                                    *)
LEMMA FindIs ==
  ASSUME NEW s, NEW n \in Nat, DOMAIN s = 1 .. n, NEW t, NEW p \in 1 .. n, s[p] = t,
         \A q \in 1 .. n : q < p => s[q] # t
  PROVE  Find(s, t) = p
<1> DEFINE P == Places(s, t)
<1>1. p \in P /\ \A q \in P : p <= q
  BY DEF Places
<1>2. \A q \in P : q \in Int
  BY DEF Places
<1>3. Find(s, t) = CHOOSE i \in P : \A j \in P : i <= j
  BY <1>1, Zenon DEF Find
<1> HIDE DEF P
<1>4. \A q \in P : (\A j \in P : q <= j) => q = p
  BY <1>1, <1>2
<1> QED BY <1>1, <1>3, <1>4

(* A token that is nowhere is not found.                                   *)
LEMMA FindsNot ==
  ASSUME NEW s, NEW n \in Nat, DOMAIN s = 1 .. n, NEW t, \A q \in 1 .. n : s[q] # t
  PROVE  Find(s, t) = 0
<1>1. Places(s, t) = {}
  BY DEF Places
<1> QED BY <1>1, Zenon DEF Find

(* r is what follows the first p tokens of s.                              *)
Follows(r, s, p) == /\ Len(r) = Len(s) - p /\ DOMAIN r = 1 .. Len(s) - p
                    /\ \A q \in 1 .. Len(s) - p : r[q] = s[p + q]

(* What After returns.                                                     *)
LEMMA AfterIs ==
  ASSUME NEW S, NEW s \in Seq(S), NEW p \in 0 .. Len(s)
  PROVE  After(s, p) \in Seq(S) /\ Follows(After(s, p), s, p)
<1> DEFINE r == After(s, p)
<1>1. r = SubSeq(s, p + 1, Len(s))
  BY DEF After
<1> HIDE DEF r
<1>2. Len(s) \in Nat
  OBVIOUS
<1>3. r \in Seq(S) /\ Len(r) = Len(s) - p
  BY <1>1, <1>2
<1>4. \A q \in 1 .. Len(s) - p : r[q] = s[p + q]
  BY <1>1, <1>2
<1>5. r \in Seq(S) /\ Follows(r, s, p)
  BY <1>3, <1>4 DEF Follows
<1> QED BY <1>5 DEF r

(* The first quoted key in s is at p, and the first colon behind it c      *)
(* places further.                                                         *)
ColonBehindKey(s, key, p, c) ==
  /\ p + c <= Len(s)
  /\ s[p] = Quoted(key) /\ \A q \in 1 .. Len(s) : q < p => s[q] # Quoted(key)
  /\ s[p + c] = Mark(":") /\ \A q \in 1 .. Len(s) : p < q /\ q < p + c => s[q] # Mark(":")

(* What is read once the key is found at p and the colon c places further. *)
LEMMA ReadsBehindColon ==
  ASSUME NEW S, NEW s \in Seq(S), NEW key, NEW p \in 1 .. Len(s), NEW c \in 1 .. Len(s),
         ColonBehindKey(s, key, p, c)
  PROVE  ExtractString(s, key) = IF p + c = Len(s) THEN "" ELSE s[p + c + 1].text
<1> DEFINE rest == After(s, p)
           value == After(rest, c)
           l == Len(s)
           m == Len(s) - p
<1>0. /\ p + c <= Len(s)
      /\ s[p] = Quoted(key) /\ \A q \in 1 .. Len(s) : q < p => s[q] # Quoted(key)
      /\ s[p + c] = Mark(":") /\ \A q \in 1 .. Len(s) : p < q /\ q < p + c => s[q] # Mark(":")
  BY DEF ColonBehindKey
<1>1. l \in Nat /\ DOMAIN s = 1 .. l /\ m \in Nat /\ m = l - p
      /\ p \in Nat /\ c \in Nat /\ p # 0 /\ c # 0
  OBVIOUS
<1>2. Find(s, Quoted(key)) = p
  BY <1>0, <1>1, FindIs
<1>3a. p \in 0 .. Len(s)
  OBVIOUS
<1>3b. rest \in Seq(S) /\ Follows(rest, s, p)
  BY <1>3a, AfterIs
<1> HIDE DEF rest
<1>3. /\ rest \in Seq(S) /\ Len(rest) = m /\ DOMAIN rest = 1 .. m
      /\ \A q \in 1 .. m : rest[q] = s[p + q]
  BY <1>3b DEF Follows
<1>4. Find(rest, Mark(":")) = c
  <2>1. c \in 1 .. m /\ rest[c] = Mark(":")
    BY <1>0, <1>1, <1>3
  <2>2. ASSUME NEW q \in 1 .. m, q < c PROVE rest[q] # Mark(":")
    <3>1. p + q \in 1 .. Len(s) /\ p < p + q /\ p + q < p + c
      BY <1>1, <2>2
    <3> QED BY <1>0, <1>3, <3>1
  <2>3. m \in Nat /\ DOMAIN rest = 1 .. m
    BY <1>1, <1>3
  <2> HIDE DEF m
  <2> QED BY <2>1, <2>2, <2>3, FindIs
<1>5a. c \in 0 .. Len(rest)
  BY <1>0, <1>1, <1>3
<1>5b. value \in Seq(S) /\ Follows(value, rest, c)
  BY <1>3, <1>5a, AfterIs
<1>6. ExtractString(s, key) = IF value = <<>> THEN "" ELSE Head(value).text
  <2>1. p # 0 /\ c # 0
    BY <1>1
  <2>2. ExtractString(s, key) = IF p = 0 \/ c = 0 \/ value = <<>> THEN "" ELSE Head(value).text
    BY <1>2, <1>4, Zenon DEF ExtractString, rest
  <2> QED BY <2>1, <2>2
<1> HIDE DEF value
<1>5. /\ value \in Seq(S) /\ Len(value) = m - c
      /\ \A q \in 1 .. m - c : value[q] = rest[c + q]
  BY <1>3, <1>5b DEF Follows
<1>7. CASE p + c = Len(s)
  <2>1. Len(value) = 0
    <3>1. \A x, y, z \in Int : x + y = z => (z - x) - y = 0
      OBVIOUS
    <3>2. p \in Int /\ c \in Int /\ Len(s) \in Int
      BY <1>1
    <3>3. (Len(s) - p) - c = 0
      BY <1>7, <3>1, <3>2
    <3>4. Len(value) = m - c
      BY <1>5
    <3> QED BY <3>3, <3>4
  <2>2. value = <<>>
    BY <1>5, <2>1
  <2> QED BY <1>6, <1>7, <2>2
<1>8. CASE p + c # Len(s)
  <2>0. 1 <= m - c
    <3>1. \A x, y, z \in Nat : x + y <= z /\ x + y # z => 1 <= (z - x) - y
      OBVIOUS
    <3>2. p \in Nat /\ c \in Nat /\ Len(s) \in Nat /\ p + c <= Len(s)
      BY <1>0, <1>1
    <3> QED BY <1>8, <3>1, <3>2
  <2>1. 1 \in 1 .. m - c /\ c + 1 \in 1 .. m /\ p + (c + 1) = p + c + 1
    BY <1>1, <2>0
  <2>2. Len(value) > 0 /\ value[1] = s[p + c + 1]
    <3>1. value[1] = rest[c + 1] /\ rest[c + 1] = s[p + (c + 1)]
      BY <1>3, <1>5, <2>1
    <3> QED BY <1>1, <1>5, <2>0, <2>1, <3>1
  <2>3. value # <<>> /\ Head(value) = value[1]
    BY <1>5, <2>2
  <2> QED BY <1>6, <1>8, <2>2, <2>3
<1> QED BY <1>7, <1>8

(* In s the first quoted key is at p, the first colon behind it at k.      *)
PointsOut(s, key, p, k) ==
  /\ \A q \in 1 .. Len(s) : q < p => s[q] # Quoted(key)
  /\ p <= Len(s) => s[p] = Quoted(key)
  /\ \A q \in 1 .. Len(s) : p < q /\ q < k => s[q] # Mark(":")
  /\ k <= Len(s) => s[k] = Mark(":")

(* What is read, when the first quoted key is at p and the first colon     *)
(* behind it at k, if the tokens come that far.                            *)
LEMMA ExtractIs ==
  ASSUME NEW S, NEW s \in Seq(S), NEW key, NEW p \in Nat, NEW k \in Nat, 0 < p, p < k,
         PointsOut(s, key, p, k)
  PROVE  ExtractString(s, key) = IF Len(s) <= k THEN "" ELSE s[k + 1].text
<1> DEFINE l == Len(s)
<1>0. /\ \A q \in 1 .. Len(s) : q < p => s[q] # Quoted(key)
      /\ p <= Len(s) => s[p] = Quoted(key)
      /\ \A q \in 1 .. Len(s) : p < q /\ q < k => s[q] # Mark(":")
      /\ k <= Len(s) => s[k] = Mark(":")
  BY DEF PointsOut
<1>1. l \in Nat /\ DOMAIN s = 1 .. l
  OBVIOUS
<1>2. CASE l < p
  <2>1. \A q \in 1 .. l : s[q] # Quoted(key)
    BY <1>0, <1>1, <1>2
  <2>2. Find(s, Quoted(key)) = 0
    <3> HIDE DEF l
    <3> QED BY <1>1, <2>1, FindsNot
  <2>3. ExtractString(s, key) = ""
    BY <2>2, Zenon DEF ExtractString
  <2>4. l <= k
    BY <1>1, <1>2
  <2> QED BY <2>3, <2>4
<1>3. CASE p <= l /\ l < k
  <2> DEFINE rest == After(s, p)
             m == Len(s) - p
  <2>1. p \in 1 .. l /\ p \in 0 .. Len(s) /\ m \in Nat /\ s[p] = Quoted(key) /\ l <= k
    BY <1>0, <1>1, <1>3
  <2>2. Find(s, Quoted(key)) = p
    <3> HIDE DEF l
    <3>1. \A q \in 1 .. l : q < p => s[q] # Quoted(key)
      BY <1>0 DEF l
    <3> QED BY <1>1, <2>1, <3>1, FindIs
  <2>3. rest \in Seq(S) /\ Follows(rest, s, p)
    BY <2>1, AfterIs
  <2> HIDE DEF rest
  <2>4. DOMAIN rest = 1 .. m /\ \A q \in 1 .. m : rest[q] = s[p + q]
    BY <2>3 DEF Follows
  <2>5. \A q \in 1 .. m : rest[q] # Mark(":")
    <3>1. ASSUME NEW q \in 1 .. m PROVE rest[q] # Mark(":")
      <4>1. p + q \in 1 .. Len(s) /\ p < p + q /\ p + q < k
        BY <1>1, <1>3, <2>1
      <4> QED BY <1>0, <2>4, <4>1
    <3> QED BY <3>1
  <2>6. Find(rest, Mark(":")) = 0
    <3> HIDE DEF m
    <3> QED BY <2>1, <2>4, <2>5, FindsNot
  <2>7. ExtractString(s, key) = ""
    BY <2>2, <2>6, Zenon DEF ExtractString, rest
  <2> QED BY <2>1, <2>7
<1>4. CASE k <= l
  <2> DEFINE c == k - p
  <2>1. p \in 1 .. Len(s) /\ c \in 1 .. Len(s) /\ p + c = k /\ k <= Len(s)
    BY <1>1, <1>4
  <2>2. s[p] = Quoted(key) /\ s[k] = Mark(":")
    BY <1>0, <1>1, <1>4, <2>1
  <2> HIDE DEF c
  <2>3. s[p + c] = Mark(":") /\ p + c <= Len(s)
    BY <2>1, <2>2
  <2>4. \A q \in 1 .. Len(s) : p < q /\ q < p + c => s[q] # Mark(":")
    BY <1>0, <2>1
  <2>7. \A q \in 1 .. Len(s) : q < p => s[q] # Quoted(key)
    BY <1>0
  <2>5. ExtractString(s, key) = IF p + c = Len(s) THEN "" ELSE s[p + c + 1].text
    <3>1. p \in 1 .. Len(s) /\ c \in 1 .. Len(s)
      BY <2>1
    <3>2. ColonBehindKey(s, key, p, c)
      BY <2>2, <2>3, <2>4, <2>7 DEF ColonBehindKey
    <3> QED BY <3>1, <3>2, ReadsBehindColon
  <2>6. Len(s) <= k <=> p + c = Len(s)
    <3>1. \A x, y \in Nat : x <= y => (y <= x <=> x = y)
      OBVIOUS
    <3>2. k <= Len(s) => (Len(s) <= k <=> k = Len(s))
      BY <1>1, <3>1
    <3> QED BY <2>1, <3>2
  <2> QED BY <2>1, <2>5, <2>6
<1>5. l < p \/ (p <= l /\ l < k) \/ k <= l
  BY <1>1
<1> QED BY <1>2, <1>3, <1>4, <1>5

(* What is read of the first n tokens of a body.                           *)
LEMMA PrefixReads ==
  ASSUME NEW b \in Seq(Field), \A i, j \in 1 .. Len(b) : b[i].key = b[j].key => i = j,
         NEW i \in 1 .. Len(b), \A j \in 1 .. i - 2 : b[j].value # Quoted(b[i].key),
         NEW n \in 0 .. 4 * Len(b), NEW s, s = SubSeq(TokensOf(b), 1, n)
  PROVE  ExtractString(s, b[i].key) = IF n <= 4 * i - 2 THEN "" ELSE b[i].value.text
<1> DEFINE T == TokensOf(b)
           S == {T[q] : q \in 1 .. 4 * Len(b)}
           key == b[i].key
           k == 4 * i - 2
           t(q) == T[q]
<1>1. /\ DOMAIN T = 1 .. 4 * Len(b)
      /\ \A j \in 1 .. Len(b) : /\ T[4 * j - 3] = Quoted(b[j].key) /\ T[4 * j - 2] = Mark(":")
                                /\ T[4 * j - 1] = b[j].value /\ T[4 * j] = Mark(",")
  BY TokensAre DEF HoldsTokens
<1>2. Len(b) \in Nat /\ n \in Nat /\ k \in Nat
  OBVIOUS
<1>3. \A q \in 1 .. n : q \in 1 .. 4 * Len(b)
  BY <1>2
<1>4. T = [q \in 1 .. 4 * Len(b) |-> t(q)]
  BY <1>1, Zenon DEF TokensOf
<1>a. \A q \in 1 .. 4 * Len(b) : T[q] \in S
  OBVIOUS
<1> HIDE DEF T, S
<1>5. T \in Seq(S) /\ Len(T) = 4 * Len(b)
  <2>1. 4 * Len(b) \in Nat
    BY <1>2
  <2>2. T \in [1 .. 4 * Len(b) -> S]
    BY <1>a, <1>4
  <2> QED BY <2>1, <2>2
<1>6. s \in Seq(S) /\ Len(s) = n /\ \A q \in 1 .. n : s[q] = T[q]
  BY <1>2, <1>5 DEF T
<1>8. Mark(",") # Mark(":")
  BY TokensDiffer
<1> DEFINE early == i >= 2 /\ b[i - 1].value = Quoted(key)
           p == IF early THEN 4 * i - 5 ELSE 4 * i - 3
<1>9. p \in Nat /\ 0 < p /\ p < k /\ p <= 4 * i - 3 /\ p >= 4 * i - 5
  BY <1>2
<1>10. ASSUME NEW q \in 1 .. 4 * Len(b), q < p PROVE T[q] # Quoted(key)
  <2>1. PICK j \in 1 .. Len(b) : q = 4 * j - 3 \/ q = 4 * j - 2 \/ q = 4 * j - 1 \/ q = 4 * j
    BY <1>2, PlaceOfField
  <2>2. CASE q = 4 * j - 3
    <3>1. j # i
      BY <1>9, <1>10, <2>2
    <3>2. T[q] = Quoted(b[j].key) /\ b[j].key # key
      BY <1>1, <2>2, <3>1
    <3> QED BY <3>2, TokensDiffer
  <2>3. CASE q = 4 * j - 2 \/ q = 4 * j
    <3>1. T[q] = Mark(":") \/ T[q] = Mark(",")
      BY <1>1, <2>3
    <3> QED BY <3>1, TokensDiffer
  <2>4. CASE q = 4 * j - 1
    <3>1. T[q] = b[j].value
      BY <1>1, <2>4
    <3>2. CASE j <= i - 2
      BY <3>1, <3>2
    <3>3. CASE j > i - 2
      <4>1. j = i - 1 /\ ~early /\ i >= 2
        BY <1>9, <1>10, <2>4, <3>3
      <4>2. b[j].value # Quoted(key)
        BY <4>1
      <4> QED BY <3>1, <4>2
    <3> QED BY <3>2, <3>3
  <2> QED BY <2>1, <2>2, <2>3, <2>4
<1>11. p \in 1 .. 4 * Len(b) /\ T[p] = Quoted(key)
  <2>1. CASE early
    <3>1. p = 4 * i - 5 /\ i >= 2 /\ b[i - 1].value = Quoted(key)
      BY <2>1
    <3>2. i - 1 \in 1 .. Len(b) /\ 4 * (i - 1) - 1 = 4 * i - 5 /\ 4 * i - 5 \in 1 .. 4 * Len(b)
      BY <1>2, <3>1
    <3>3. T[4 * (i - 1) - 1] = b[i - 1].value
      BY <1>1, <3>2
    <3> HIDE DEF p, early, key
    <3> QED BY <3>1, <3>2, <3>3
  <2>2. CASE ~early
    <3>1. p = 4 * i - 3 /\ 4 * i - 3 \in 1 .. 4 * Len(b)
      BY <1>2, <2>2
    <3>2. T[4 * i - 3] = Quoted(key)
      BY <1>1
    <3> HIDE DEF p, early, key
    <3> QED BY <3>1, <3>2
  <2> QED BY <2>1, <2>2
<1>12. k \in 1 .. 4 * Len(b) /\ T[k] = Mark(":")
  <2>1. 4 * i - 2 \in 1 .. 4 * Len(b)
    BY <1>2
  <2>2. T[4 * i - 2] = Mark(":")
    BY <1>1
  <2> QED BY <2>1, <2>2
<1>13. ASSUME NEW q \in 1 .. 4 * Len(b), p < q, q < k PROVE T[q] # Mark(":")
  <2>1. q = 4 * i - 3 \/ (q = 4 * (i - 1) /\ i >= 2)
    BY <1>2, <1>9, <1>13
  <2>2. CASE q = 4 * i - 3
    <3>1. T[4 * i - 3] = Quoted(b[i].key)
      BY <1>1
    <3> QED BY <2>2, <3>1, TokensDiffer
  <2>3. CASE q = 4 * (i - 1) /\ i >= 2
    <3>1. i - 1 \in 1 .. Len(b)
      BY <1>2, <2>3
    <3>2. T[q] = Mark(",")
      BY <1>1, <2>3, <3>1
    <3> QED BY <1>8, <3>2
  <2> QED BY <2>1, <2>2, <2>3
<1>14. k + 1 \in 1 .. 4 * Len(b) /\ T[k + 1] = b[i].value
  <2>1. k + 1 = 4 * i - 1 /\ 4 * i - 1 \in 1 .. 4 * Len(b)
    BY <1>2
  <2>2. T[4 * i - 1] = b[i].value
    BY <1>1
  <2> HIDE DEF k
  <2> QED BY <2>1, <2>2
<1> HIDE DEF key, k, p
<1>15. \A q \in 1 .. Len(s) : q < p => s[q] # Quoted(key)
  BY <1>3, <1>6, <1>10
<1>16. \A q \in 1 .. Len(s) : p < q /\ q < k => s[q] # Mark(":")
  BY <1>3, <1>6, <1>13
<1>17. p <= Len(s) => s[p] = Quoted(key)
  BY <1>6, <1>11
<1>18. k <= Len(s) => s[k] = Mark(":")
  BY <1>6, <1>12
<1>19. ExtractString(s, key) = IF Len(s) <= k THEN "" ELSE s[k + 1].text
  <2>1. PointsOut(s, key, p, k)
    BY <1>15, <1>16, <1>17, <1>18 DEF PointsOut
  <2>2. s \in Seq(S) /\ p \in Nat /\ k \in Nat /\ 0 < p /\ p < k
    BY <1>2, <1>6, <1>9
  <2> HIDE DEF early
  <2> QED BY <2>1, <2>2, ExtractIs
<1>20. ~ n <= k => s[k + 1] = b[i].value
  <2>1. ~ n <= k => k + 1 \in 1 .. n
    BY <1>2
  <2> QED BY <1>6, <1>14, <2>1
<1>21. ExtractString(s, key) = IF n <= k THEN "" ELSE b[i].value.text
  BY <1>6, <1>19, <1>20
<1> QED BY <1>21 DEF key, k

(* An empty body has distinct keys.                                        *)
LEMMA BodyStarts ==
  BodyInit => BodyInv
BY DEF BodyInit, BodyInv

(* A field is added when its key is not there.                             *)
LEMMA BodyStep ==
  BodyInv /\ [BodyNext]_body => BodyInv'
<1> SUFFICES ASSUME BodyInv, [BodyNext]_body PROVE BodyInv'
  OBVIOUS
<1>1. CASE UNCHANGED body
  BY <1>1 DEF BodyInv
<1>2. ASSUME NEW key \in FieldNames, NEW value \in FieldValues, AddField(key, value)
      PROVE  BodyInv'
  <2> DEFINE f == [key |-> key, value |-> value]
             l == Len(body)
  <2>1. body' = Append(body, f) /\ body \in Seq(Field) /\ f \in Field /\ f.key = key
    BY <1>2 DEF AddField, BodyInv, Field
  <2> HIDE DEF f
  <2> DEFINE later == body'
  <2>a. later = Append(body, f)
    BY <2>1
  <2> HIDE DEF later
  <2>b. later \in Seq(Field) /\ Len(later) = l + 1 /\ l \in Nat /\ DOMAIN body = 1 .. l
    BY <2>1, <2>a
  <2>c. later[l + 1] = f
    BY <2>1, <2>a
  <2>d. \A i \in 1 .. l : later[i] = body[i]
    BY <2>1, <2>a
  <2>2. /\ body' \in Seq(Field) /\ Len(body') = l + 1 /\ l \in Nat /\ DOMAIN body = 1 .. l
        /\ body'[l + 1] = f /\ \A i \in 1 .. l : body'[i] = body[i]
    BY <2>b, <2>c, <2>d DEF later
  <2>3. \A i \in 1 .. l : body[i].key # key
    <3>1. \A i \in DOMAIN body : body[i].key # key
      BY <1>2 DEF AddField
    <3> QED BY <2>b, <3>1
  <2>4. \A i, j \in 1 .. l : body[i].key = body[j].key => i = j
    BY DEF BodyInv
  <2> HIDE DEF l
  <2>5. ASSUME NEW i \in 1 .. l + 1, NEW j \in 1 .. l + 1, body'[i].key = body'[j].key
        PROVE  i = j
    <3>1. (i \in 1 .. l \/ i = l + 1) /\ (j \in 1 .. l \/ j = l + 1)
      BY <2>2
    <3>2. CASE i \in 1 .. l /\ j \in 1 .. l
      BY <2>2, <2>4, <2>5, <3>2
    <3>3. CASE i \in 1 .. l /\ j = l + 1
      BY <2>1, <2>2, <2>3, <2>5, <3>3
    <3>4. CASE i = l + 1 /\ j \in 1 .. l
      BY <2>1, <2>2, <2>3, <2>5, <3>4
    <3> QED BY <3>1, <3>2, <3>3, <3>4
  <2> QED BY <2>2, <2>5 DEF BodyInv
<1> QED BY <1>1, <1>2 DEF BodyNext

(* The invariant gives the property.                                       *)
LEMMA ReadBodies ==
  BodyInv => BodiesAreRead
<1> SUFFICES ASSUME BodyInv, NEW i \in DOMAIN body,
                    \A j \in 1 .. i - 2 : body[j].value # Quoted(body[i].key)
             PROVE  LET tokens == TokensOf(body)
                        key    == body[i].key
                        value  == body[i].value.text
                    IN  /\ ExtractString(tokens, key) = value
                        /\ ExtractNumber(tokens, key, -1)
                             = IF value \in DOMAIN Numerals THEN Numerals[value] ELSE -1
                        /\ \A n \in 0 .. Len(tokens) :
                             ExtractString(SubSeq(tokens, 1, n), key) \in {value, ""}
  BY DEF BodiesAreRead
<1> DEFINE tokens == TokensOf(body)
           key    == body[i].key
           value  == body[i].value.text
<1>1. body \in Seq(Field) /\ i \in 1 .. Len(body) /\ Len(body) \in Nat
  BY DEF BodyInv
<1>2. \A x, y \in 1 .. Len(body) : body[x].key = body[y].key => x = y
  BY DEF BodyInv
<1>3. Len(tokens) = 4 * Len(body) /\ SubSeq(tokens, 1, Len(tokens)) = tokens
  <2>1. DOMAIN tokens = 1 .. 4 * Len(body)
    BY <1>1, TokensAre DEF HoldsTokens
  <2> DEFINE S == {tokens[q] : q \in 1 .. 4 * Len(body)}
             t(q) == tokens[q]
  <2>2. tokens = [q \in 1 .. 4 * Len(body) |-> t(q)]
    BY <2>1, Zenon DEF TokensOf
  <2>3. tokens \in Seq(S) /\ Len(tokens) = 4 * Len(body)
    BY <1>1, <2>1, <2>2
  <2> HIDE DEF tokens, S
  <2>4. SubSeq(tokens, 1, Len(tokens)) = tokens
    BY <2>3
  <2> QED BY <2>3, <2>4
<1> HIDE DEF tokens
<1>4. ASSUME NEW n \in 0 .. Len(tokens)
      PROVE  ExtractString(SubSeq(tokens, 1, n), key) = IF n <= 4 * i - 2 THEN "" ELSE value
  <2> DEFINE s == SubSeq(tokens, 1, n)
  <2>1. s = SubSeq(TokensOf(body), 1, n) /\ n \in 0 .. 4 * Len(body)
    BY <1>3 DEF tokens
  <2> HIDE DEF s
  <2>2. ExtractString(s, body[i].key) = IF n <= 4 * i - 2 THEN "" ELSE body[i].value.text
    BY <1>1, <1>2, <2>1, PrefixReads
  <2> QED BY <2>2 DEF s
<1>5. ExtractString(tokens, key) = value
  <2>1. Len(tokens) \in 0 .. Len(tokens) /\ ~ Len(tokens) <= 4 * i - 2
    BY <1>1, <1>3
  <2> QED BY <1>3, <1>4, <2>1
<1> HIDE DEF key, value
<1>6. ExtractNumber(tokens, key, -1) = IF value \in DOMAIN Numerals THEN Numerals[value] ELSE -1
  BY <1>5 DEF ExtractNumber
<1>7. \A n \in 0 .. Len(tokens) : ExtractString(SubSeq(tokens, 1, n), key) \in {value, ""}
  BY <1>4
<1> QED BY <1>5, <1>6, <1>7 DEF tokens, key, value

(* Json: in every body of distinct fields each field is read as it was     *)
(* written, unless an earlier value but the last is the name of its key;   *)
(* and of a body that breaks off no field is read as anything else.        *)
THEOREM BodiesAlwaysRead == BodySpec => []BodiesAreRead
<1>1. BodySpec => []BodyInv
  BY BodyStarts, BodyStep, PTL DEF BodySpec
<1> QED BY <1>1, ReadBodies, PTL
=============================================================================
