------------------------------- MODULE Sessions -------------------------------
(***************************************************************************)
(* api/HttpServer.hpp with the routes of main.cpp that are about accounts  *)
(* and sessions, auth/AuthManager.hpp, and what the orders table keeps of  *)
(* a user.  The server accepts a connection, reads a request from it piece *)
(* by piece in a thread of its own, and runs the handler of its route      *)
(* holding routeMutex.  Every call of AuthManager is made by a handler.    *)
(*                                                                         *)
(* A request comes in three pieces: its headers, its body up to the middle *)
(* of the password, and the rest; one without a body is the first.  What   *)
(* it asks is chosen when its handler runs, until then only its length     *)
(* matters.  A hash stands for the password it was made from.  Tokens are  *)
(* numbered anew in every run: one of an earlier run, like 0, is none that *)
(* the server knows, since no random token comes up twice.                 *)
(***************************************************************************)
EXTENDS Integers, Sequences, FiniteSets

CONSTANTS
  Connections,
  Names, Emails, Passwords,  \* what clients send
  Halved(_),                 \* the first half of a password
  TooShort,                  \* names and passwords registerUser refuses
  SeedUsers,                 \* seedDefaultUsers: <<[username, email, password], ...>>
  MaxSessions,               \* bound: tokens made in a run
  MaxOrders,                 \* bound: rows of orders
  MaxRestarts                \* bound: times the process is started again

NoConnection == "none"

ASSUME SessionsAssumption ==
  /\ NoConnection \notin Connections
  /\ "" \in TooShort
  /\ SeedUsers \in Seq([username : STRING, email : STRING, password : STRING])
  /\ MaxSessions \in Nat /\ MaxOrders \in Nat /\ MaxRestarts \in Nat

VARIABLES
  conn,        \* [connection -> phase, length, read, cut; answer]
  routeMutex,  \* its holder
  auth,        \* AuthManager: its four maps, and the tokens there have been
  portfolios,  \* the users PortfolioManager knows
  orderRows,   \* table orders: [userId, by, run]
  restarts

sessionVars == <<conn, routeMutex, auth, portfolios, orderRows, restarts>>

NoToken == 0

With(f, key, value) == [k \in DOMAIN f \cup {key} |-> IF k = key THEN value ELSE f[k]]
Erased(f, key) == [k \in DOMAIN f \ {key} |-> f[k]]

-----------------------------------------------------------------------------
(* AuthManager.                                                            *)

NewUserId(a) == Cardinality(DOMAIN a.usersById) + 1001

WithToken(a, userId) ==
  [a EXCEPT !.tokensMade = @ + 1, !.tokenToUserId = With(@, a.tokensMade + 1, userId)]

(* Mutant: the email is not looked up.                                     *)
RefusesTakenNames(a, username, email, password) ==
  username \in TooShort \/ password \in TooShort \/ username \in DOMAIN a.usernameToId

Refuses(a, username, email, password) ==
  \/ username \in TooShort \/ password \in TooShort
  \/ username \in DOMAIN a.usernameToId \/ email \in DOMAIN a.emailToId

RegisterUser(a, username, email, password) ==
  LET userId == NewUserId(a)
      user == [userId |-> userId, username |-> username, email |-> email, password |-> password]
  IN  WithToken([a EXCEPT !.usersById = With(@, userId, user),
                          !.usernameToId = With(@, username, userId),
                          !.emailToId = With(@, email, userId)], userId)

(* The users that an identifier and a password let in: one or none.        *)
LoginUser(a, identifier, password) ==
  LET userId == IF identifier \in DOMAIN a.usernameToId THEN a.usernameToId[identifier]
                ELSE IF identifier \in DOMAIN a.emailToId THEN a.emailToId[identifier] ELSE 0
  IN  {id \in DOMAIN a.usersById : id = userId /\ a.usersById[id].password = password}

(* Mutant: every session of the user ends.                                 *)
LogoutEverywhere(a, token) ==
  [a EXCEPT !.tokenToUserId =
     [k \in {x \in DOMAIN @ : token \in DOMAIN @ => @[x] # @[token]} |-> @[k]]]

Logout(a, token) == [a EXCEPT !.tokenToUserId = Erased(@, token)]

(* The users a token is of: one or none.                                   *)
ValidateToken(a, token) ==
  {id \in DOMAIN a.usersById :
     token \in DOMAIN a.tokenToUserId /\ a.tokenToUserId[token] = id}

Nobody ==
  [usersById |-> <<>>, usernameToId |-> <<>>, emailToId |-> <<>>,
   tokenToUserId |-> <<>>, tokensMade |-> 0]

SeedDefaultUsers ==
  LET seeded[n \in 0 .. Len(SeedUsers)] ==
        LET a == seeded[n - 1]
            u == SeedUsers[n]
        IN  IF n = 0 THEN Nobody
            ELSE IF Refuses(a, u.username, u.email, u.password) THEN a
            ELSE RegisterUser(a, u.username, u.email, u.password)
  IN  seeded[Len(SeedUsers)]

-----------------------------------------------------------------------------
(* HttpServer.                                                             *)

Closed == [phase |-> "closed"]

SessionsInit ==
  /\ conn = [c \in Connections |-> Closed]
  /\ routeMutex = NoConnection
  /\ auth = SeedDefaultUsers
  /\ portfolios = DOMAIN auth.usersById
  /\ orderRows = {}
  /\ restarts = 0

Lengths == {1, 3}

Connect(c) ==
  /\ conn[c].phase = "closed"
  /\ \E length \in Lengths :
       conn' = [conn EXCEPT ![c] =
                  [phase |-> "connected", length |-> length, read |-> 0, cut |-> FALSE]]
  /\ UNCHANGED <<routeMutex, auth, portfolios, orderRows, restarts>>

(* Mutant: a client is served before the next one is accepted.             *)
AcceptInTurn(c) ==
  /\ conn[c].phase = "connected"
  /\ \A d \in Connections : conn[d].phase \in {"closed", "connected"}
  /\ conn' = [conn EXCEPT ![c].phase = "read"]
  /\ UNCHANGED <<routeMutex, auth, portfolios, orderRows, restarts>>

Accept(c) ==
  /\ conn[c].phase = "connected"
  /\ conn' = [conn EXCEPT ![c].phase = "read"]
  /\ UNCHANGED <<routeMutex, auth, portfolios, orderRows, restarts>>

(* Mutant: the body is not waited for.                                     *)
HeadersAreThere(c, read) == read >= 1

(* The headers have been read, and as much as Content-Length says.         *)
IsComplete(c, read) == read = conn[c].length

(* recv gives the next piece; there is no timeout.                         *)
Receive(c) ==
  /\ conn[c].phase = "read"
  /\ LET read == conn[c].read + 1
     IN  conn' = [conn EXCEPT ![c].read = read,
                              ![c].phase = IF IsComplete(c, read) THEN "route" ELSE "read"]
  /\ UNCHANGED <<routeMutex, auth, portfolios, orderRows, restarts>>

(* The client has closed: recv gives 0.  What there is is dispatched, be   *)
(* it a part of the headers, and a connection without a byte is closed.    *)
ReceiveNothing(c) ==
  /\ conn[c].phase = "read"
  /\ \/ conn' = [conn EXCEPT ![c].phase = "route", ![c].cut = TRUE]
     \/ conn[c].read = 0 /\ conn' = [conn EXCEPT ![c] = Closed]
  /\ UNCHANGED <<routeMutex, auth, portfolios, orderRows, restarts>>

(* Mutant: the handler does not wait for routeMutex.                       *)
LockWithoutWaiting(c) ==
  /\ conn[c].phase = "route"
  /\ routeMutex' = c
  /\ conn' = [conn EXCEPT ![c].phase = "handle"]
  /\ UNCHANGED <<auth, portfolios, orderRows, restarts>>

Lock(c) ==
  /\ conn[c].phase = "route"
  /\ routeMutex = NoConnection
  /\ routeMutex' = c
  /\ conn' = [conn EXCEPT ![c].phase = "handle"]
  /\ UNCHANGED <<auth, portfolios, orderRows, restarts>>

Plain == [text |-> TRUE]  \* an answer no property reads

(* OPTIONS is answered without a route, and without routeMutex.            *)
Preflight(c) ==
  /\ conn[c].phase = "route"
  /\ conn[c].length = 1
  /\ conn' = [conn EXCEPT ![c] = [phase |-> "send", answer |-> Plain]]
  /\ UNCHANGED <<routeMutex, auth, portfolios, orderRows, restarts>>

(* The lock goes, and the answer is ready to be sent.                      *)
Reply(c, answer) ==
  /\ routeMutex' = NoConnection
  /\ conn' = [conn EXCEPT ![c] = [phase |-> "send", answer |-> answer]]
  /\ UNCHANGED restarts

Changed(a, users) == auth' = a /\ portfolios' = portfolios \cup users

(* What a handler finds in the pieces it is given.                         *)
NameIn(c, name) == IF conn[c].read >= 2 THEN name ELSE ""
PasswordIn(c, password) ==
  IF conn[c].read = 3 THEN password ELSE IF conn[c].read = 2 THEN Halved(password) ELSE ""
TokenIn(c, token) == IF conn[c].read >= 1 THEN token ELSE NoToken

Tokens == 0 .. auth.tokensMade

(* POST /api/auth/register, with initializeUser.                           *)
Register(c) ==
  \E n \in Names, e \in Emails, p \in Passwords :
    LET username == NameIn(c, n)
        email    == NameIn(c, e)
        password == PasswordIn(c, p)
    IN  IF Refuses(auth, username, email, password)
        THEN Reply(c, Plain) /\ UNCHANGED <<auth, portfolios, orderRows>>
        ELSE /\ auth.tokensMade < MaxSessions
             /\ Changed(RegisterUser(auth, username, email, password), {NewUserId(auth)})
             /\ Reply(c, Plain)
             /\ UNCHANGED orderRows

(* POST /api/auth/login, with initializeUser.                              *)
Login(c) ==
  \E i \in Names \cup Emails, p \in Passwords :
    LET found == LoginUser(auth, NameIn(c, i), PasswordIn(c, p))
    IN  IF found = {}
        THEN Reply(c, Plain) /\ UNCHANGED <<auth, portfolios, orderRows>>
        ELSE /\ auth.tokensMade < MaxSessions
             /\ \E id \in found : Changed(WithToken(auth, id), found)
             /\ Reply(c, Plain)
             /\ UNCHANGED orderRows

(* POST /api/auth/logout, which asks for no session.                       *)
EndSession(c) ==
  \E t \in Tokens :
    /\ auth' = Logout(auth, TokenIn(c, t))
    /\ Reply(c, [ended |-> TokenIn(c, t)])
    /\ UNCHANGED <<portfolios, orderRows>>

(* POST /api/orders, as far as the orders table is concerned.              *)
PostOrder(c) ==
  \E t \in Tokens :
    LET users == ValidateToken(auth, TokenIn(c, t))
        rows  == {[userId |-> id, by |-> auth.usersById[id].username, run |-> restarts] : id \in users}
    IN  /\ Cardinality(orderRows \cup rows) <= MaxOrders
        /\ orderRows' = orderRows \cup rows
        /\ Reply(c, Plain)
        /\ UNCHANGED <<auth, portfolios>>

(* Mutant: the query does not say whose orders.                            *)
GetEverybodysOrders(c) ==
  \E t \in Tokens :
    LET users == ValidateToken(auth, TokenIn(c, t))
    IN  /\ IF users = {} THEN Reply(c, Plain)
           ELSE \E id \in users :
                  Reply(c, [username |-> auth.usersById[id].username, rows |-> orderRows])
        /\ UNCHANGED <<auth, portfolios, orderRows>>

(* GET /api/orders; the other GET routes of a user ask for the same.       *)
GetOrders(c) ==
  \E t \in Tokens :
    LET users == ValidateToken(auth, TokenIn(c, t))
    IN  /\ IF users = {} THEN Reply(c, Plain)
           ELSE \E id \in users :
                  Reply(c, [username |-> auth.usersById[id].username,
                            rows |-> {r \in orderRows : r.userId = id}])
        /\ UNCHANGED <<auth, portfolios, orderRows>>

NoSuchRoute(c) == Reply(c, Plain) /\ UNCHANGED <<auth, portfolios, orderRows>>

Handle(c) ==
  /\ conn[c].phase = "handle"
  /\ \/ conn[c].length = 3 /\ (Register(c) \/ Login(c) \/ PostOrder(c))
     \/ conn[c].length = 1 /\ (EndSession(c) \/ GetOrders(c) \/ NoSuchRoute(c))

Send(c) ==
  /\ conn[c].phase = "send"
  /\ conn' = [conn EXCEPT ![c] = Closed]
  /\ UNCHANGED <<routeMutex, auth, portfolios, orderRows, restarts>>

(* The process ends and is started again: the table is what is left.       *)
Restart ==
  /\ restarts < MaxRestarts
  /\ restarts' = restarts + 1
  /\ conn' = [c \in Connections |-> Closed]
  /\ routeMutex' = NoConnection
  /\ auth' = SeedDefaultUsers
  /\ portfolios' = DOMAIN auth'.usersById
  /\ UNCHANGED orderRows

Serve(c) == Accept(c) \/ Lock(c) \/ Preflight(c) \/ Handle(c) \/ Send(c)

SessionsNext ==
  \/ \E c \in Connections :
       Connect(c) \/ Receive(c) \/ ReceiveNothing(c) \/ Serve(c)
  \/ Restart

(* The threads of the server run on; a client may never send anything.     *)
SessionsSpec ==
  /\ SessionsInit /\ [][SessionsNext]_sessionVars
  /\ \A c \in Connections : WF_sessionVars(Serve(c))

-----------------------------------------------------------------------------
(* Properties.                                                             *)

(* What AuthManager's maps are made of, and routeMutex has the holder that *)
(* is in a handler.                                                        *)
SessionsTypeOK ==
  /\ auth.tokensMade \in Nat /\ DOMAIN auth.tokenToUserId \subseteq 1 .. auth.tokensMade
  /\ \A c \in Connections : conn[c].phase = "handle" <=> routeMutex = c
  /\ restarts \in 0 .. MaxRestarts

(* The four maps agree: a user has an id, a username and an email that no  *)
(* other has, a portfolio, and is let in by the username and password. The *)
(* email does as well, unless it is the username of somebody.              *)
AccountsAgree ==
  LET Ids == DOMAIN auth.usersById
      Finds(map, field) ==
        /\ DOMAIN map = {auth.usersById[id][field] : id \in Ids}
        /\ \A id \in Ids : map[auth.usersById[id][field]] = id
  IN  /\ Finds(auth.usernameToId, "username") /\ Finds(auth.emailToId, "email")
      /\ Ids \subseteq portfolios
      /\ \A t \in DOMAIN auth.tokenToUserId : auth.tokenToUserId[t] \in Ids
      /\ \A id \in Ids :
           LET u == auth.usersById[id]
           IN  /\ LoginUser(auth, u.username, u.password) = {id}
               /\ u.email \notin DOMAIN auth.usernameToId =>
                    LoginUser(auth, u.email, u.password) = {id}

(* A session is the same user's until a logout that carries its token, or  *)
(* the end of the process: neither another login or logout of that user    *)
(* nor anybody's registration ends it or hands it on.                      *)
SessionKept(t) ==
  \/ t \in DOMAIN auth'.tokenToUserId /\ auth'.tokenToUserId[t] = auth.tokenToUserId[t]
       /\ auth'.usersById[auth'.tokenToUserId[t]] = auth.usersById[auth.tokenToUserId[t]]
  \/ \E c \in Connections :
       conn[c].phase = "handle" /\ conn'[c].phase = "send" /\ conn'[c].answer =
         [ended |-> t]

SessionsKeepTheirUser ==
  [][restarts' = restarts => \A t \in DOMAIN auth.tokenToUserId : SessionKept(t)]_sessionVars

(* The orders shown to a user were placed by that user.  Ids are given     *)
(* anew in every run and the table stays: for the seeded users this holds  *)
(* across restarts, for others of the orders of the run they are in.       *)
RowsAreTheUsers ==
  \A c \in Connections :
    conn[c].phase = "send" /\ "rows" \in DOMAIN conn[c].answer =>
      LET a == conn[c].answer
      IN  \A r \in a.rows :
            \/ r.by = a.username
            \/ r.run < restarts /\ a.username \notin DOMAIN SeedDefaultUsers.usernameToId

(* A handler is given a request as its client sent it, to the last byte of *)
(* the body, unless the client has closed the connection before that.      *)
WholeRequestsAreHandled ==
  \A c \in Connections :
    conn[c].phase \in {"route", "handle"} /\ ~conn[c].cut =>
      conn[c].read = conn[c].length

(* A client that has connected is listened to, and one whose request is    *)
(* there, or broken off, is answered, even if the other clients stop in    *)
(* the middle of a request and never close.  routeMutex is not said to be  *)
(* fair: they could hold up an answer only by being handled for ever.      *)
ClientsAreServed ==
  \A c \in Connections :
    /\ conn[c].phase = "connected" ~> conn[c].phase # "connected"
    /\ \/ conn[c].phase = "route" ~> conn[c].phase = "closed"
       \/ \E d \in Connections \ {c} : []<>(conn[d].phase = "handle")
=============================================================================
