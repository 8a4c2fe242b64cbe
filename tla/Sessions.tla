------------------------------ MODULE Sessions ------------------------------
(***************************************************************************)
(* Logins and security sessions: login.cpp, session.cpp and the part of    *)
(* mse.cpp that uses them (microservice, run, sessionUpdate, sessionCreate,*)
(* login, logout, getSessionCount).                                        *)
(*                                                                         *)
(* Every worker thread has its own libpq connections to the session and to *)
(* the login database, with its own prepared statements, and its own user  *)
(* records (thread_local db, t_user_info and m_user), reused by request    *)
(* after request: what bind() put into one goes into the row of a session, *)
(* and from there, with a later request, into the other.                   *)
(* The sessions themselves are rows of one database that the workers       *)
(* share.  Connections break without the worker being told; bind,      *)
(* create and update then reconnect, prepare again and retry; remove and   *)
(* get_total do not.                                                       *)
(*                                                                         *)
(* The database functions cpp_session_* and cpp_dblogin are not in the     *)
(* repository: they are modelled from their use, with row identifiers that *)
(* are never issued twice.  Both databases are on one server.              *)
(***************************************************************************)
EXTENDS Naturals, Sequences, FiniteSets

CONSTANTS
  Workers,      \* threads of the pool
  Users,        \* who may log in
  Nobody,       \* an empty userLogin
  MaxRetries,   \* session::max_retries
  MaxSessions,  \* bound: no login is received once so many ids were issued
  MaxFaults     \* bound: broken connections, lost replies, outages, statements
                \* that PQprepare does not prepare on a good connection

ASSUME UsersAssumption == Nobody \notin Users
ASSUME BoundsAssumption ==
  MaxRetries \in Nat /\ MaxSessions \in Nat /\ MaxFaults \in Nat

NoSession == 0   \* an empty session id

VARIABLES
  \* the databases
  up,        \* whether it accepts connections
  rows,      \* the sessions: rows[id] is the user of session id, and
             \* the users whose roles are in it
  issued,    \* the last id issued
  faults,    \* how many faults have happened
  \* connection of each worker to the session database
  link,      \* "ok"; "cut": broken, PQstatus does not know; "bad": it does
  prepared,  \* its statements: "done", "failed" (PQprepare did) or "not done"
  \* login of each worker
  bindLink,  \* its connection to the login database: as link, or
             \* "unprepared": PQprepare failed on it
  m_user,    \* the users whose roles are in m_user
  \* request of each worker
  pc,        \* where the worker is
  service,   \* the function of the microservice it runs
  from,      \* the user whose client sent the request
  cookie,    \* req.cookie, then t_user_info.sessionID
  login,     \* t_user_info.userLogin
  roles,     \* t_user_info.roles: the users whose roles were appended to it
  retries,   \* local variable of bind(), create() and update()
  reply,     \* what the client is told
  steady,    \* the database was up since the request was received
  \* clients
  holds      \* holds[u]: the session id in the cookie of user u's client

dbVars == <<up, rows, issued, faults>>
linkVars == <<link, prepared>>
bindVars == <<bindLink, m_user>>
requestVars == <<service, from, steady>>
infoVars == <<cookie, login, roles>>
vars == <<dbVars, linkVars, bindVars, requestVars, infoVars, pc, retries, reply, holds>>

Services == {"login", "logout", "data", "count"}
PC == {"idle", "bind", "rebind", "create", "update", "recover", "run", "remove",
       "count", "reply"}
Replies == {"none", "ok", "invalid", "401", "bind error", "session error",
            "minus one"}

Init ==
  /\ up \in BOOLEAN
  /\ rows = <<>>
  /\ issued = 0
  /\ faults = 0
  /\ link \in [Workers -> IF up THEN {"ok", "bad"} ELSE {"bad"}]
  /\ prepared = [w \in Workers |-> IF link[w] = "ok" THEN "done" ELSE "not done"]
  /\ bindLink = link
  /\ m_user = [w \in Workers |-> <<>>]
  /\ pc = [w \in Workers |-> "idle"]
  /\ service = [w \in Workers |-> "none"]
  /\ from = [w \in Workers |-> Nobody]
  /\ cookie = [w \in Workers |-> NoSession]
  /\ login = [w \in Workers |-> Nobody]
  /\ roles = [w \in Workers |-> <<>>]
  /\ retries = [w \in Workers |-> 0]
  /\ reply = [w \in Workers |-> "none"]
  /\ steady = [w \in Workers |-> FALSE]
  /\ holds = [u \in Users |-> NoSession]

Goto(w, from_, to) == pc[w] = from_ /\ pc' = [pc EXCEPT ![w] = to]

\* The request is over: what the client will be told.
Answer(w, from_, what) ==
  /\ Goto(w, from_, "reply")
  /\ reply' = [reply EXCEPT ![w] = what]

-----------------------------------------------------------------------------
(* mse::microservice and service_engine::run. *)

\* Where run() starts: login and count are not secure services, the others
\* call sessionUpdate() first, which gives up without a cookie.
FirstStep(s, id) ==
  CASE s = "login" -> "bind"
    [] s = "count" -> "count"
    [] OTHER       -> IF id = NoSession THEN "reply" ELSE "update"

\* Mutant: clear() forgets the roles.
ClearUserKeepsRoles(w) == login' = [login EXCEPT ![w] = Nobody] /\ UNCHANGED roles

\* t_user_info.clear()
ClearUser(w) ==
  /\ login' = [login EXCEPT ![w] = Nobody]
  /\ roles' = [roles EXCEPT ![w] = <<>>]

Receive(w, u, s) ==
  /\ s = "login" =>
       issued + Cardinality({v \in Workers : pc[v] # "idle" /\ service[v] = "login"})
         < MaxSessions
  /\ Goto(w, "idle", FirstStep(s, holds[u]))
  /\ ClearUser(w)
  /\ cookie' = [cookie EXCEPT ![w] = holds[u]]
  /\ service' = [service EXCEPT ![w] = s]
  /\ from' = [from EXCEPT ![w] = u]
  /\ steady' = [steady EXCEPT ![w] = up]
  /\ reply' = [reply EXCEPT ![w] =
                 IF pc'[w] = "reply" THEN "401" ELSE "none"]
  /\ UNCHANGED <<dbVars, linkVars, bindVars, retries, holds>>

\* The function of any other secure service runs.
Run(w) ==
  /\ Answer(w, "run", "ok")
  /\ UNCHANGED <<dbVars, linkVars, bindVars, requestVars, infoVars, retries, holds>>

\* The client gets the reply; Set-Cookie only comes with a login.
Reply(w) ==
  /\ Goto(w, "reply", "idle")
  /\ holds' = [holds EXCEPT ![from[w]] =
       CASE service[w] = "login" /\ reply[w] = "ok"  -> cookie[w]
         [] service[w] = "logout" /\ reply[w] = "ok" -> NoSession
         [] OTHER -> @]
  /\ reply' = [reply EXCEPT ![w] = "none"]
  /\ service' = [service EXCEPT ![w] = "none"]
  /\ from' = [from EXCEPT ![w] = Nobody]
  /\ steady' = [steady EXCEPT ![w] = FALSE]
  /\ retries' = [retries EXCEPT ![w] = 0]
  /\ UNCHANGED <<dbVars, linkVars, bindVars, infoVars>>

-----------------------------------------------------------------------------
(* login::bind. *)

\* Mutant: m_user is not cleared before the user's roles are appended.
AppendUser(w) == m_user' = [m_user EXCEPT ![w] = Append(@, from[w])]

\* cpp_dblogin found the user: mail, name and roles are those of its row.
SetUser(w) == m_user' = [m_user EXCEPT ![w] = <<from[w]>>]

BindAccepted(w) ==
  /\ bindLink[w] = "ok"
  /\ Goto(w, "bind", "create")
  /\ SetUser(w)
  /\ retries' = [retries EXCEPT ![w] = 0]
  /\ UNCHANGED <<dbVars, linkVars, bindLink, requestVars, infoVars, reply, holds>>

\* No row: the credentials are wrong.
BindRejected(w) ==
  /\ bindLink[w] = "ok"
  /\ Answer(w, "bind", "invalid")
  /\ cookie' = [cookie EXCEPT ![w] = NoSession]
  /\ UNCHANGED <<dbVars, linkVars, bindVars, requestVars, login, roles, retries,
                 holds>>

\* bind() throws: an error on a good connection, or no more retries.
BindThrows(w) ==
  /\ \/ bindLink[w] = "unprepared" /\ Answer(w, "bind", "bind error")
     \/ retries[w] = MaxRetries /\ Answer(w, "rebind", "bind error")
  /\ UNCHANGED <<dbVars, linkVars, bindVars, requestVars, infoVars, retries, holds>>

\* The connection turns out to be broken, before or after the query.
BindFails(w) ==
  /\ bindLink[w] \in {"cut", "bad"}
  /\ Goto(w, "bind", "rebind")
  /\ bindLink' = [bindLink EXCEPT ![w] = "bad"]
  /\ UNCHANGED <<dbVars, linkVars, m_user, requestVars, infoVars, retries, reply,
                 holds>>

\* Mutant: the retries are not counted.
BindForever(w) ==
  /\ retries[w] # MaxRetries
  /\ Goto(w, "rebind", "bind")
  /\ \/ /\ bindLink' = [bindLink EXCEPT ![w] = IF up THEN "ok" ELSE "bad"]
        /\ UNCHANGED faults
     \/ /\ up /\ faults < MaxFaults
        /\ bindLink' = [bindLink EXCEPT ![w] = "unprepared"]
        /\ faults' = faults + 1
  /\ UNCHANGED <<up, rows, issued, linkVars, m_user, requestVars, infoVars, retries,
                 reply, holds>>

\* reset_connection(): prepare_sql() does not look at what PQprepare returns.
BindAgain(w) ==
  /\ retries[w] # MaxRetries
  /\ Goto(w, "rebind", "bind")
  /\ retries' = [retries EXCEPT ![w] = @ + 1]
  /\ \/ /\ bindLink' = [bindLink EXCEPT ![w] = IF up THEN "ok" ELSE "bad"]
        /\ UNCHANGED faults
     \/ /\ up /\ faults < MaxFaults
        /\ bindLink' = [bindLink EXCEPT ![w] = "unprepared"]
        /\ faults' = faults + 1
  /\ UNCHANGED <<up, rows, issued, linkVars, m_user, requestVars, infoVars, reply, holds>>

-----------------------------------------------------------------------------
(* session::create and session::update. *)

\* cpp_session_create: a new row, with the login that was sent and the roles
\* of m_user.
NewRow(w) ==
  /\ issued' = issued + 1
  /\ rows' = [id \in DOMAIN rows \cup {issued + 1} |->
                IF id = issued + 1 THEN [user |-> from[w], roles |-> m_user[w]]
                ELSE rows[id]]

Usable(w) == link[w] = "ok" /\ prepared[w] = "done"

\* create() got its row; sessionCreate() stores the id and the login.
Created(w) ==
  /\ Usable(w)
  /\ Answer(w, "create", "ok")
  /\ NewRow(w)
  /\ cookie' = [cookie EXCEPT ![w] = issued + 1]
  /\ login' = [login EXCEPT ![w] = from[w]]
  /\ UNCHANGED <<up, faults, linkVars, bindVars, requestVars, roles, retries, holds>>

\* update() found the row: the roles are appended to t_user_info.roles.
Updated(w) ==
  /\ Usable(w)
  /\ cookie[w] \in DOMAIN rows
  /\ Goto(w, "update", IF service[w] = "logout" THEN "remove" ELSE "run")
  /\ login' = [login EXCEPT ![w] = rows[cookie[w]].user]
  /\ roles' = [roles EXCEPT ![w] = @ \o rows[cookie[w]].roles]
  /\ UNCHANGED <<dbVars, linkVars, bindVars, requestVars, cookie, retries, reply, holds>>

\* update() found no row: LoginRequiredException.
NotFound(w) ==
  /\ Usable(w)
  /\ cookie[w] \notin DOMAIN rows
  /\ Answer(w, "update", "401")
  /\ UNCHANGED <<dbVars, linkVars, bindVars, requestVars, infoVars, retries, holds>>

\* What the client is told when create() or update() returns false.
Failure(w) == IF service[w] = "login" THEN "session error" ELSE "401"

\* update() returns false, or create() does and sessionCreate() throws.
Fail(w, from_) ==
  /\ Answer(w, from_, Failure(w))
  /\ cookie' = [cookie EXCEPT ![w] = IF service[w] = "login" THEN NoSession ELSE @]
  /\ UNCHANGED <<dbVars, linkVars, bindVars, requestVars, login, roles, retries,
                 holds>>

\* The statement is not prepared: an error on a good connection, no retry.
NotPrepared(w) ==
  /\ pc[w] \in {"create", "update"}
  /\ link[w] = "ok" /\ prepared[w] # "done"
  /\ Fail(w, pc[w])

\* The connection turns out to be broken.
CallFails(w) ==
  /\ pc[w] \in {"create", "update"}
  /\ link[w] # "ok"
  /\ Goto(w, pc[w], "recover")
  /\ link' = [link EXCEPT ![w] = "bad"]
  /\ UNCHANGED <<dbVars, prepared, bindVars, requestVars, infoVars, retries, reply, holds>>

\* The connection breaks after the statement was executed.
ResultLost(w) ==
  /\ pc[w] \in {"create", "update"}
  /\ Usable(w)
  /\ faults < MaxFaults
  /\ Goto(w, pc[w], "recover")
  /\ IF pc[w] = "create" THEN NewRow(w) ELSE UNCHANGED <<rows, issued>>
  /\ link' = [link EXCEPT ![w] = "bad"]
  /\ faults' = faults + 1
  /\ UNCHANGED <<up, prepared, bindVars, requestVars, infoVars, retries, reply, holds>>

GiveUp(w) == retries[w] = MaxRetries /\ Fail(w, "recover")

\* Mutant: reset_connection() does not prepare the statements again.
ConnectWithoutPrepare(w) ==
  /\ link' = [link EXCEPT ![w] = IF up THEN "ok" ELSE "bad"]
  /\ prepared' = [prepared EXCEPT ![w] = "not done"]
  /\ UNCHANGED faults

\* reset_connection(): PQfinish, PQconnectdb, prepare_sql() if that worked.
Connect(w) ==
  /\ link' = [link EXCEPT ![w] = IF up THEN "ok" ELSE "bad"]
  /\ \/ /\ prepared' = [prepared EXCEPT ![w] = IF up THEN "done" ELSE "not done"]
        /\ UNCHANGED faults
     \/ /\ up /\ faults < MaxFaults
        /\ prepared' = [prepared EXCEPT ![w] = "failed"]
        /\ faults' = faults + 1

Retry(w) ==
  /\ retries[w] # MaxRetries
  /\ Goto(w, "recover", IF service[w] = "login" THEN "create" ELSE "update")
  /\ retries' = [retries EXCEPT ![w] = @ + 1]
  /\ Connect(w)
  /\ UNCHANGED <<up, rows, issued, bindVars, requestVars, infoVars, reply, holds>>

-----------------------------------------------------------------------------
(* session::remove and session::get_total: one attempt, no reconnection. *)

\* logout() replies OK whatever became of the deletion.
Remove(w) ==
  /\ Answer(w, "remove", "ok")
  /\ IF link[w] = "ok"
       THEN /\ rows' = [id \in DOMAIN rows \ {cookie[w]} |-> rows[id]]
            /\ UNCHANGED link
       ELSE link' = [link EXCEPT ![w] = "bad"] /\ UNCHANGED rows
  /\ UNCHANGED <<up, issued, faults, prepared, bindVars, requestVars, infoVars, retries,
                 holds>>

\* getSessionCount() replies OK, with a total of -1 when the query failed.
Count(w) ==
  /\ Answer(w, "count", IF link[w] = "ok" THEN "ok" ELSE "minus one")
  /\ link' = [link EXCEPT ![w] = IF @ = "ok" THEN "ok" ELSE "bad"]
  /\ UNCHANGED <<dbVars, prepared, bindVars, requestVars, infoVars, retries, holds>>

-----------------------------------------------------------------------------
(* The environment. *)

\* A connection breaks.  Only the next call on it can tell when, so that it may
\* as well be in front of one.
Break(w) ==
  /\ faults < MaxFaults
  /\ \/ /\ pc[w] \in {"create", "update", "remove", "count"} /\ link[w] = "ok"
        /\ link' = [link EXCEPT ![w] = "cut"]
        /\ UNCHANGED bindLink
     \/ /\ pc[w] = "bind" /\ bindLink[w] \in {"ok", "unprepared"}
        /\ bindLink' = [bindLink EXCEPT ![w] = "cut"]
        /\ UNCHANGED link
  /\ faults' = faults + 1
  /\ UNCHANGED <<up, rows, issued, prepared, m_user, requestVars, infoVars, pc, retries,
                 reply, holds>>

\* The database stops; its tables survive, its connections do not.
Outage ==
  /\ up
  /\ faults < MaxFaults
  /\ up' = FALSE
  /\ faults' = faults + 1
  /\ link' = [w \in Workers |-> IF link[w] = "ok" THEN "cut" ELSE link[w]]
  /\ bindLink' = [w \in Workers |-> IF bindLink[w] = "bad" THEN "bad" ELSE "cut"]
  /\ steady' = [w \in Workers |-> FALSE]
  /\ UNCHANGED <<rows, issued, prepared, m_user, service, from, infoVars, pc, retries,
                 reply, holds>>

Restart ==
  /\ ~up
  /\ up' = TRUE
  /\ UNCHANGED <<rows, issued, faults, linkVars, bindVars, requestVars, infoVars, pc,
                 retries, reply, holds>>

-----------------------------------------------------------------------------
Worker(w) ==
  \/ BindAccepted(w) \/ BindRejected(w) \/ BindThrows(w) \/ BindFails(w)
  \/ BindAgain(w) \/ Created(w) \/ Updated(w) \/ NotFound(w) \/ NotPrepared(w)
  \/ CallFails(w) \/ ResultLost(w) \/ GiveUp(w) \/ Retry(w)
  \/ Run(w) \/ Remove(w) \/ Count(w) \/ Reply(w)

Next ==
  \/ \E w \in Workers, u \in Users, s \in Services : Receive(w, u, s)
  \/ \E w \in Workers : Worker(w) \/ Break(w)
  \/ Outage \/ Restart

Spec == Init /\ [][Next]_vars

\* A worker with a request goes on; nothing is assumed of the database.
FairSpec == Spec /\ \A w \in Workers : WF_vars(Worker(w))

-----------------------------------------------------------------------------
(* Properties. *)

\* The variables keep their types; the user record, which update() only
\* appends to, holds the roles of one session at most.
TypeOK ==
  /\ up \in BOOLEAN
  /\ DOMAIN rows \subseteq 1..issued
  /\ \A id \in DOMAIN rows : rows[id].user \in Users
  /\ issued \in Nat
  /\ link \in [Workers -> {"ok", "cut", "bad"}]
  /\ prepared \in [Workers -> {"done", "failed", "not done"}]
  /\ bindLink \in [Workers -> {"ok", "cut", "bad", "unprepared"}]
  /\ pc \in [Workers -> PC]
  /\ login \in [Workers -> Users \cup {Nobody}]
  /\ \A w \in Workers : Len(roles[w]) <= 1
  /\ retries \in [Workers -> 0..MaxRetries]
  /\ reply \in [Workers -> Replies]
  /\ \A u \in Users : holds[u] \in 0..issued

\* A secure service runs as the user whose client sent the request, with the
\* roles of that user and of nobody else: they went from m_user into the row
\* and from the row into t_user_info, both shared by all the requests of a
\* thread, perhaps of two threads, and update() only appends to the latter.
RunsAsSender ==
  \A w \in Workers :
    pc[w] \in {"run", "remove"} => login[w] = from[w] /\ roles[w] = <<from[w]>>

\* Broken connections are hidden from the client: when the databases were up all
\* along, a session is refused only if it does not exist, the credentials of a
\* login are looked up and a session is created for it, as many faults as
\* retries later; unless PQprepare failed on the connection it was given.
FaultsMasked ==
  \A w \in Workers :
    pc[w] = "reply" /\ steady[w] /\ faults < MaxRetries =>
    /\ reply[w] = "401" /\ prepared[w] # "failed" => cookie[w] \notin DOMAIN rows
    /\ reply[w] = "session error" => prepared[w] = "failed"
    /\ reply[w] = "bind error" => bindLink[w] = "unprepared"

\* A request ends whatever the database does: the retries are bounded.
RequestsEnd == \A w \in Workers : pc[w] # "idle" ~> pc[w] = "idle"

\* "kill session" (mse.cpp:234): a logout that was answered OK has killed it.
LogoutKills ==
  \A w \in Workers : pc[w] = "reply" /\ service[w] = "logout" /\ reply[w] = "ok"
    => cookie[w] \notin DOMAIN rows
=============================================================================
