--------------------------- MODULE Microservices ---------------------------
(***************************************************************************)
(* The microservice engine of one worker thread: microservice(), run(),    *)
(* validateInputs() and send_mail() of mse.cpp, and the database services  *)
(* dbget_json, dbget, dbgetm and dbexec with the retry loops of sql.cpp    *)
(* under them.                                                             *)
(*                                                                         *)
(* All the state is the thread's own (thread_local t_service, t_user_info  *)
(* and dbconns) and is used by request after request of different users:   *)
(* the map of services keeps the values of the last request to each, the   *)
(* JSON buffer its last answer.  The session check is Sessions; here it    *)
(* finds the user of the request or refuses it.                            *)
(***************************************************************************)
EXTENDS Naturals, Sequences, FiniteSetsExt

CONSTANTS
  Services,     \* the paths of the services
  Config,       \* Config[s]: what config.json says of service s
  Params,       \* names of fields
  Values,       \* what a field may be sent as
  Empty,        \* a field that was not sent, or sent blank
  Malformed,    \* a value that is no integer, double or date
  Users, Nobody,
  Roles,
  RolesOf,      \* RolesOf[u]: the roles whose names find() finds in u's roles
  MaxRetries,   \* sql::max_retries
  MaxFaults     \* bound: broken connections, lost results, outages

Sent == Values \cup {Empty, Malformed}

\* An SQL text: its length and the positions, from 0, of its semicolons.
\* Neither the text nor a statement is empty.
SqlTexts ==
  {text \in [size : Nat \ {0}, ends : Seq(Nat)] : \A i \in DOMAIN text.ends :
     /\ text.ends[i] < text.size
     /\ (IF i = 1 THEN 0 ELSE text.ends[i - 1] + 1) < text.ends[i]}

\* A service as config.cpp loads it; `mail` is the recipient: "none",
\* "$usermail" or a field of the service (get() throws for another name).
FieldNames(params) == {params[i].name : i \in DOMAIN params}
ServiceRecords ==
  {s \in [func : {"dbget_json", "dbget", "dbgetm", "dbexec"},
          secure : BOOLEAN, roles : SUBSET Roles,
          params : Seq([name : Params, required : BOOLEAN, typed : BOOLEAN]),
          validator : BOOLEAN, mail : {"none", "$usermail"} \cup Params,
          sql : SqlTexts] :
     s.mail \in {"none", "$usermail"} \cup FieldNames(s.params)}

ASSUME ServicesAssumption ==
  Services # {} /\ Config \in [Services -> ServiceRecords]
ASSUME ValuesAssumption ==
  /\ Empty # Malformed
  /\ Empty \notin Values /\ Malformed \notin Values
ASSUME UsersAssumption ==
  Nobody \notin Users /\ RolesOf \in [Users -> SUBSET Roles]
ASSUME BoundsAssumption == MaxRetries \in Nat /\ MaxFaults \in Nat

VARIABLES
  \* the thread's engine
  values,   \* values[s][p]: the value of field p in the map's entry for s
  mailTo,   \* mailTo[s]: email_config.to of that entry
  buffer,   \* m_json_buffer, as the sequence of what was appended
  login,    \* t_user_info.userLogin (and with it userMail and roles)
  \* the request
  pc,       \* where run() is
  from,     \* the user whose client sent it, Nobody for none
  service,  \* the service of its path
  args,     \* its parameters
  stmt,     \* statement being executed; 0: the one of the validator
  retries,  \* of the current function of sql.cpp
  reply,    \* "buffer": 200 with m_json_buffer; "none" before
  \* the connection and the database
  link,     \* "ok"; "cut": broken, PQstatus does not know; "bad": it does
  up,       \* the database accepts connections
  faults,   \* how many faults have happened
  \* what happened during the request
  mailed,   \* who was sent a mail
  applied,  \* how many times the modification was executed
  lost,     \* how many results were lost
  refused,  \* the database rejected a statement
  steady    \* the database was up all along

engineVars == <<values, mailTo, login>>
requestVars == <<from, service, args>>
dbVars == <<link, up, faults>>
historyVars == <<mailed, applied, lost, refused, steady>>
vars == <<engineVars, buffer, pc, requestVars, stmt, retries, reply, dbVars,
          historyVars>>

NoMail == "no mail"

\* The entry of the service that is running.
Entry == Config[service]

\* What is appended to the JSON buffer: a text, or a result set under its tag.
Piece(text) == <<text>>
Part(tag, result) == <<"part", tag, result>>
NoService == CHOOSE s \in Services : TRUE

Init ==
  /\ values = [s \in Services |-> [p \in Params |-> Empty]]
  /\ mailTo = [s \in Services |-> Config[s].mail]
  /\ buffer = <<>>
  /\ login = Nobody
  /\ pc = "idle"
  /\ from = Nobody
  /\ service = NoService
  /\ args = [p \in Params |-> Empty]
  /\ stmt = 0
  /\ retries = 0
  /\ reply = "none"
  /\ up \in BOOLEAN
  /\ link \in IF up THEN {"ok", "bad"} ELSE {"bad"}
  /\ faults = 0
  /\ mailed = NoMail
  /\ applied = 0
  /\ lost = 0
  /\ refused = FALSE
  /\ steady = FALSE

-----------------------------------------------------------------------------
(* The statements of a text, and how get_json() cuts it.  Ranges are from   *)
(* `first` up to and without `last`.                                        *)

Start(sql, k) == IF k = 1 THEN 0 ELSE sql.ends[k - 1] + 1

Pieces(sql) ==
  LET n == Len(sql.ends)
  IN  IF Start(sql, n + 1) < sql.size THEN n + 1 ELSE n

\* The k-th statement of the text.
Statement(sql, k) ==
  [first |-> Start(sql, k),
   last  |-> IF k <= Len(sql.ends) THEN sql.ends[k] ELSE sql.size]

\* Mutant: the count is one short.
CutOneShort(sql, k) ==
  [first |-> Start(sql, k),
   last  |-> IF k <= Len(sql.ends) THEN sql.ends[k] - 1 ELSE sql.size]

\* sql.substr(newpos, pos): pos is the position of the semicolon, and substr
\* takes it for a count.
Cut(sql, k) ==
  [first |-> Start(sql, k),
   last  |-> IF k <= Len(sql.ends) /\ Start(sql, k) + sql.ends[k] < sql.size
               THEN Start(sql, k) + sql.ends[k] ELSE sql.size]

\* PQexec runs every statement in its text and returns the result of the last.
\* A text that ends inside a statement is rejected.
Within(sql, piece) ==
  {k \in 1..Pieces(sql) : /\ piece.first <= Statement(sql, k).first
                          /\ Statement(sql, k).last <= piece.last}
CutShort(sql, piece) ==
  \E k \in 1..Pieces(sql) : /\ Statement(sql, k).first < piece.last
                            /\ piece.last < Statement(sql, k).last

Accepted(sql, piece) == ~CutShort(sql, piece) /\ Within(sql, piece) # {}
Result(sql, piece) == Max(Within(sql, piece))

-----------------------------------------------------------------------------
(* microservice(), run() and validateInputs(). *)

Goto(from_, to) == pc = from_ /\ pc' = to

\* The request is over; its reply is 200 with m_json_buffer or with a
\* constant text, or 401.
Answer(from_, what) == Goto(from_, "reply") /\ reply' = what

\* A request for service s from user u; t_user_info is cleared.
Receive(u, s, a) ==
  /\ Goto("idle", IF Config[s].secure THEN "session" ELSE "validate")
  /\ login' = Nobody
  /\ from' = u /\ service' = s /\ args' = a
  /\ steady' = up
  /\ UNCHANGED <<values, mailTo, buffer, stmt, retries, reply, dbVars, mailed,
                 applied, lost, refused>>

\* No service has the path: run() throws.
ReceiveUnknown(u) ==
  /\ Answer("idle", "no such path")
  /\ login' = Nobody
  /\ from' = u
  /\ UNCHANGED <<values, mailTo, buffer, service, args, stmt, retries, dbVars,
                 historyVars>>

\* sessionUpdate() finds the session of the sender.
FindSession ==
  /\ from # Nobody
  /\ Goto("session", "validate")
  /\ login' = from
  /\ UNCHANGED <<values, mailTo, buffer, requestVars, stmt, retries, reply,
                 dbVars, historyVars>>

\* No cookie, no such session, or no session database.
RefuseSession ==
  /\ Answer("session", "401")
  /\ UNCHANGED <<engineVars, buffer, requestVars, stmt, retries, dbVars,
                 historyVars>>

\* Mutant: a user without roles is taken to be in every role.
DeniedIfHasRoles ==
  /\ Entry.roles # {}
  /\ login # Nobody
  /\ RolesOf[login] # {}
  /\ RolesOf[login] \cap Entry.roles = {}

\* is_user_in_role() is asked only for a user who is logged in.
Denied ==
  /\ Entry.roles # {}
  /\ login # Nobody
  /\ RolesOf[login] \cap Entry.roles = {}

DenyAccess ==
  /\ Denied
  /\ Answer("validate", "buffer")
  /\ buffer' = <<Piece("denied")>>
  /\ UNCHANGED <<engineVars, requestVars, stmt, retries, dbVars, historyVars>>

\* Whether the i-th field of the service is refused.
BadField(i) ==
  LET p == Entry.params[i]
  IN  \/ p.required /\ args[p.name] = Empty
      \/ p.typed /\ args[p.name] = Malformed

\* Mutant: a field that was not sent keeps the value it has.
StoreSent(n) ==
  values' = [values EXCEPT ![service] = [p \in Params |->
    IF args[p] # Empty /\ \E i \in 1..n : Entry.params[i].name = p
      THEN args[p] ELSE @[p]]]

\* p.value = value, for the first n fields.
Store(n) ==
  values' = [values EXCEPT ![service] = [p \in Params |->
    IF \E i \in 1..n : Entry.params[i].name = p THEN args[p] ELSE @[p]]]

\* validateRequestParams() stops at the first field it refuses; those before
\* it have been stored.
RefuseInputs ==
  /\ ~Denied
  /\ Answer("validate", "buffer")
  /\ \E i \in DOMAIN Entry.params :
       /\ BadField(i) /\ \A j \in 1..i - 1 : ~BadField(j)
       /\ Store(i - 1)
  /\ buffer' = <<Piece("invalid")>>
  /\ UNCHANGED <<mailTo, login, requestVars, stmt, retries, dbVars, historyVars>>

\* Mutant: run() does not clear the buffer.
OpeningAfterLast ==
  IF Entry.func = "dbgetm" THEN Append(buffer, Piece("open")) ELSE buffer

\* serviceFunction() is entered with a buffer that run() has cleared.
Opening == IF Entry.func = "dbgetm" THEN <<Piece("open")>> ELSE <<>>

\* A service without fields has no use for its validator.
AcceptInputs ==
  /\ ~Denied
  /\ \A i \in DOMAIN Entry.params : ~BadField(i)
  /\ Goto("validate", "query")
  /\ Store(Len(Entry.params))
  /\ retries' = 0
  /\ IF Entry.validator /\ Entry.params # <<>>
       THEN stmt' = 0 /\ buffer' = <<>>
       ELSE stmt' = 1 /\ buffer' = Opening
  /\ UNCHANGED <<mailTo, login, requestVars, reply, dbVars, historyVars>>

\* Mutant: send_mail() gets a reference to the entry of the map.
SendMailByReference ==
  /\ Answer("mail", "buffer")
  /\ mailed' = CASE mailTo[service] = "none"      -> mailed
                 [] mailTo[service] = "$usermail" -> login
                 [] mailTo[service] \in Params    -> values[service][mailTo[service]]
                 [] OTHER -> mailTo[service]
  /\ mailTo' = IF mailTo[service] = "none" THEN mailTo
               ELSE [mailTo EXCEPT ![service] = mailed']
  /\ UNCHANGED <<values, login, buffer, requestVars, stmt, retries, dbVars,
                 applied, lost, refused, steady>>

\* audit::save() and send_mail() come after the service, whatever it did.
\* send_mail() works on a copy of the service's entry.
SendMail ==
  /\ Answer("mail", "buffer")
  /\ mailed' = CASE mailTo[service] = "none"      -> mailed
                 [] mailTo[service] = "$usermail" -> login
                 [] OTHER -> values[service][mailTo[service]]
  /\ UNCHANGED <<engineVars, buffer, requestVars, stmt, retries, dbVars,
                 applied, lost, refused, steady>>

\* The reply is sent; m_json_buffer and the values stay as they are.
Reply ==
  /\ Goto("reply", "idle")
  /\ from' = Nobody /\ service' = NoService
  /\ args' = [p \in Params |-> Empty]
  /\ stmt' = 0 /\ retries' = 0 /\ reply' = "none"
  /\ mailed' = NoMail /\ applied' = 0 /\ lost' = 0
  /\ refused' = FALSE /\ steady' = FALSE
  /\ UNCHANGED <<engineVars, buffer, dbVars>>

-----------------------------------------------------------------------------
(* sql.cpp.  Statement 0 is has_rows(), called by the validator; the others *)
(* are get_json_record(), get_json(), the statements of get_json() with     *)
(* several, and exec_sql().                                                 *)

Modifies == Entry.func = "dbexec" /\ stmt = 1

\* The text that is given to PQexec.
Text ==
  IF Entry.func = "dbgetm" THEN Cut(Entry.sql, stmt)
  ELSE [first |-> 0, last |-> Entry.sql.size]

\* The validator's query passes or fails the inputs.
ValidatorAnswers ==
  /\ stmt = 0 /\ link = "ok"
  /\ \/ /\ Goto("query", "query")
        /\ stmt' = 1 /\ retries' = 0 /\ buffer' = Opening
        /\ UNCHANGED reply
     \/ /\ Answer("query", "buffer")
        /\ buffer' = <<Piece("invalid")>>
        /\ UNCHANGED <<stmt, retries>>
  /\ UNCHANGED <<engineVars, requestVars, dbVars, historyVars>>

\* A service of one statement gets its result.
StatementAnswers ==
  /\ stmt = 1 /\ link = "ok" /\ Entry.func # "dbgetm"
  /\ Goto("query", "mail")
  /\ buffer' = Append(buffer, Piece(IF Modifies THEN "ok" ELSE "document"))
  /\ applied' = IF Modifies THEN applied + 1 ELSE applied
  /\ UNCHANGED <<engineVars, requestVars, stmt, retries, reply, dbVars, mailed,
                 lost, refused, steady>>

\* One of several: its result goes under the next tag; the last closes.
NextStatementAnswers ==
  /\ stmt >= 1 /\ link = "ok" /\ Entry.func = "dbgetm"
  /\ Accepted(Entry.sql, Text)
  /\ LET part == Part(stmt, Result(Entry.sql, Text))
     IN  IF stmt < Pieces(Entry.sql)
           THEN /\ Goto("query", "query")
                /\ stmt' = stmt + 1
                /\ buffer' = Append(buffer, part)
           ELSE /\ Goto("query", "mail")
                /\ buffer' = buffer \o <<part, Piece("close")>>
                /\ UNCHANGED stmt
  /\ UNCHANGED <<engineVars, requestVars, retries, reply, dbVars, historyVars>>

\* What each function does when its statement has failed for good: the
\* validator and get_json_record() throw.
Throws == stmt = 0 \/ Entry.func = "dbget_json"
ErrorText == Piece(IF Entry.func = "dbexec" THEN "error" ELSE "db error")

Fail(errors) ==
  IF Throws
    THEN Answer(pc, "system error") /\ UNCHANGED buffer
    ELSE pc' = "mail" /\ buffer' = errors /\ UNCHANGED reply

\* Mutant: the parts of the answer written so far are kept.
RejectedWithoutClear ==
  /\ pc = "query" /\ link = "ok"
  /\ refused' = (refused \/ stmt = 0 \/ Accepted(Entry.sql, Text))
  /\ Fail(Append(buffer, ErrorText))
  /\ UNCHANGED <<engineVars, requestVars, stmt, retries, dbVars, mailed,
                 applied, lost, steady>>

\* The database rejects the statement, on a good connection: no retry.  The
\* answer to several statements is cleared first.
Rejected ==
  /\ pc = "query" /\ link = "ok"
  /\ refused' = (refused \/ stmt = 0 \/ Accepted(Entry.sql, Text))
  /\ Fail(<<ErrorText>>)
  /\ UNCHANGED <<engineVars, requestVars, stmt, retries, dbVars, mailed,
                 applied, lost, steady>>

\* The connection turns out to be broken.
CallFails ==
  /\ link # "ok"
  /\ Goto("query", "recover")
  /\ link' = "bad"
  /\ UNCHANGED <<engineVars, buffer, requestVars, stmt, retries, reply, up,
                 faults, historyVars>>

\* The connection breaks after the statement was executed.
ResultLost ==
  /\ link = "ok" /\ faults < MaxFaults
  /\ Goto("query", "recover")
  /\ link' = "bad"
  /\ faults' = faults + 1
  /\ lost' = lost + 1
  /\ applied' = IF Modifies THEN applied + 1 ELSE applied
  /\ UNCHANGED <<engineVars, buffer, requestVars, stmt, retries, reply, up,
                 mailed, refused, steady>>

\* Mutant: the connection is not reset.
RetryWithoutReset ==
  /\ retries # MaxRetries
  /\ Goto("recover", "query")
  /\ retries' = retries + 1
  /\ UNCHANGED <<engineVars, buffer, requestVars, stmt, reply, dbVars, historyVars>>

\* goto retry, after reset_connection().  The count is kept from one
\* statement of a text to the next.
Retry ==
  /\ retries # MaxRetries
  /\ Goto("recover", "query")
  /\ retries' = retries + 1
  /\ link' = IF up THEN "ok" ELSE "bad"
  /\ UNCHANGED <<engineVars, buffer, requestVars, stmt, reply, up, faults,
                 historyVars>>

\* Mutant: exec_sql() goes on to return true.
GiveUpFallsThrough ==
  /\ pc = "recover" /\ retries = MaxRetries
  /\ Fail(Append(buffer, IF Modifies THEN Piece("ok") ELSE ErrorText))
  /\ UNCHANGED <<engineVars, requestVars, stmt, retries, dbVars, historyVars>>

\* "cannot connect to database": the error is appended to what there is.
GiveUp ==
  /\ pc = "recover" /\ retries = MaxRetries
  /\ Fail(Append(buffer, ErrorText))
  /\ UNCHANGED <<engineVars, requestVars, stmt, retries, dbVars, historyVars>>

-----------------------------------------------------------------------------
(* The database. *)

Break ==
  /\ link = "ok" /\ faults < MaxFaults
  /\ link' = "cut"
  /\ faults' = faults + 1
  /\ UNCHANGED <<engineVars, buffer, pc, requestVars, stmt, retries, reply, up,
                 historyVars>>

Outage ==
  /\ up /\ faults < MaxFaults
  /\ up' = FALSE
  /\ faults' = faults + 1
  /\ link' = IF link = "ok" THEN "cut" ELSE link
  /\ steady' = FALSE
  /\ UNCHANGED <<engineVars, buffer, pc, requestVars, stmt, retries, reply,
                 mailed, applied, lost, refused>>

Restart ==
  /\ ~up
  /\ up' = TRUE
  /\ UNCHANGED <<engineVars, buffer, pc, requestVars, stmt, retries, reply,
                 link, faults, historyVars>>

-----------------------------------------------------------------------------
Worker ==
  \/ FindSession \/ RefuseSession \/ DenyAccess \/ RefuseInputs \/ AcceptInputs
  \/ ValidatorAnswers \/ StatementAnswers \/ NextStatementAnswers \/ Rejected
  \/ CallFails \/ ResultLost \/ Retry \/ GiveUp \/ SendMail \/ Reply

Next ==
  \/ \E u \in Users \cup {Nobody}, s \in Services, a \in [Params -> Sent] :
       Receive(u, s, a)
  \/ \E u \in Users \cup {Nobody} : ReceiveUnknown(u)
  \/ Worker \/ Break \/ Outage \/ Restart

Spec == Init /\ [][Next]_vars

-----------------------------------------------------------------------------
(* Properties. *)

\* The variables keep their types; the JSON buffer never grows beyond one
\* answer, though it is cleared only by the next request to a service.
TypeOK ==
  /\ values \in [Services -> [Params -> Sent]]
  /\ login \in Users \cup {Nobody}
  /\ pc \in {"idle", "session", "validate", "query", "recover", "mail", "reply"}
  /\ from \in Users \cup {Nobody} /\ service \in Services
  /\ stmt \in 0..Pieces(Entry.sql)
  /\ retries \in 0..MaxRetries
  /\ \E s \in Services : Len(buffer) <= Pieces(Config[s].sql) + 2
  /\ link \in {"ok", "cut", "bad"}
  /\ applied \in 0..1 + MaxFaults

Running == pc \in {"query", "recover", "mail"}

\* The service, its validator, the audit record and the mail see the values of
\* this request, all accepted, and none that an earlier request to the same
\* service (accepted, or refused half-way) has left in the thread's map.
OwnInputs ==
  Running => \A i \in DOMAIN Entry.params :
    /\ values[service][Entry.params[i].name] = args[Entry.params[i].name]
    /\ ~BadField(i)

\* A secure service runs only for the sender, logged in, and one that names
\* roles only if the sender has one of them.
Permitted ==
  Running /\ Entry.secure =>
    /\ login = from /\ from # Nobody
    /\ Entry.roles # {} => RolesOf[from] \cap Entry.roles # {}

\* Mail goes to the sender, or to the recipient this request names: the
\* entry of the service is not changed by the mails of earlier requests.
MailToRecipient ==
  mailed # NoMail =>
    mailed = IF Entry.mail = "$usermail"
               THEN IF Entry.secure THEN from ELSE Nobody
               ELSE args[Entry.mail]

\* Faults that leave the retries of sql.cpp a chance.
Recoverable == steady /\ faults < MaxRetries

\* The answer is one JSON document: nothing of an earlier answer, nothing cut
\* short, even if a statement in the middle fails.  (When the retries of a
\* service of several statements are exhausted it is not: get_json appends the
\* error to the part already written.)
OneDocument ==
  pc = "reply" /\ reply = "buffer" /\ Recoverable =>
    \/ Len(buffer) = 1 /\ buffer[1] # Piece("open")
    \/ /\ Len(buffer) = Pieces(Entry.sql) + 2
       /\ buffer[1] = Piece("open") /\ buffer[Len(buffer)] = Piece("close")
       /\ \A k \in 1..Pieces(Entry.sql) : buffer[k + 1] \in {"part"} \X {k} \X Nat

\* A modification that was answered OK was executed; one that was refused by
\* the session check, the roles or the validation was not; and it is executed
\* again only when a result was lost.
EffectMatchesReply ==
  /\ applied <= 1 + lost
  /\ pc = "reply" =>
       /\ reply = "buffer" /\ Head(buffer) = Piece("ok") => applied >= 1
       /\ reply = "buffer" /\ Head(buffer) = Piece("error") => applied <= lost
       /\ \/ reply # "buffer"
          \/ Head(buffer) \in {Piece("denied"), Piece("invalid")}
          => applied = 0

\* Broken connections are hidden: while the database is up and accepts the
\* statements no client sees an error.
FaultsMasked ==
  pc = "reply" /\ Recoverable /\ ~refused =>
    /\ reply # "system error"
    /\ reply = "buffer" =>
         buffer[Len(buffer)] \notin {Piece("error"), Piece("db error")}

\* "returns multiple resultsets from a single query" (mse.cpp:195): unless the
\* database rejects a statement or cannot be reached, each tag of the answer
\* holds the result of its own statement.
MultipleResultsets ==
  /\ pc = "reply" /\ reply = "buffer" /\ Entry.func = "dbgetm"
  /\ Recoverable /\ ~refused
  /\ Head(buffer) \notin {Piece("denied"), Piece("invalid")}
  => buffer = <<Piece("open")>>
              \o [k \in 1..Pieces(Entry.sql) |-> Part(k, k)]
              \o <<Piece("close")>>
=============================================================================
