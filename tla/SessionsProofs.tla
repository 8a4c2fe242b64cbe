---------------------------- MODULE SessionsProofs ----------------------------
(***************************************************************************)
(* Proofs about Sessions, for any number of workers, users, retries,       *)
(* sessions and faults: a secure service runs as the user whose client     *)
(* sent the request, and faults are hidden while the database is up.       *)
(*                                                                         *)
(* The first rests on who a session id belongs to, wherever it is: in a    *)
(* row, in a cookie or in a request.  The second rests on a budget: a      *)
(* retry is only made for a fault, or for the connection having been bad   *)
(* before the request.                                                     *)
(***************************************************************************)
EXTENDS Sessions, SequenceTheorems, TLAPS

-----------------------------------------------------------------------------
(* The inductive invariant. *)

RowTypes == issued \in Nat /\ DOMAIN rows \subseteq 1..issued

LinkTypes ==
  /\ up \in BOOLEAN /\ faults \in Nat
  /\ link \in [Workers -> {"ok", "cut", "bad"}]
  /\ prepared \in [Workers -> {"done", "failed", "not done"}]
  /\ bindLink \in [Workers -> {"ok", "cut", "bad", "unprepared"}]

RequestTypes ==
  /\ pc \in [Workers -> PC]
  /\ service \in [Workers -> Services \cup {"none"}]
  /\ from \in [Workers -> Users \cup {Nobody}]
  /\ cookie \in [Workers -> Nat]
  /\ login \in [Workers -> Users \cup {Nobody}]
  /\ roles \in [Workers -> Seq(Users)]
  /\ m_user \in [Workers -> Seq(Users)]
  /\ retries \in [Workers -> 0..MaxRetries]
  /\ reply \in [Workers -> Replies]
  /\ steady \in [Workers -> BOOLEAN]
  /\ holds \in [Users -> Nat]

Types == RowTypes /\ LinkTypes /\ RequestTypes

\* A row has the roles of its user.
RowsInv ==
  \A id \in DOMAIN rows : rows[id].user \in Users /\ rows[id].roles = <<rows[id].user>>

\* A session id was issued, and if it is alive it is the user's.
Owns(u, id) == id <= issued /\ (id \in DOMAIN rows => rows[id].user = u)

HoldsInv == \A u \in Users : Owns(u, holds[u])

\* What a request knows at each place of the code.
Sender(w) ==
  /\ Len(roles[w]) <= 1
  /\ pc[w] = "idle" => retries[w] = 0
  /\ pc[w] # "idle" => from[w] \in Users /\ Owns(from[w], cookie[w])
  /\ pc[w] \in {"bind", "rebind", "create"} => service[w] = "login"
  /\ pc[w] \in {"update", "run", "remove"} => service[w] # "login"
  /\ pc[w] \in {"bind", "rebind", "create", "update", "recover"} => roles[w] = <<>>
  /\ pc[w] = "create" \/ (pc[w] = "recover" /\ service[w] = "login") =>
       m_user[w] = <<from[w]>>
  /\ pc[w] \in {"run", "remove"} => login[w] = from[w] /\ roles[w] = <<from[w]>>

\* A login or a session check that retries has had a fault for each time, but
\* for one: its connection may have been bad from the beginning.
Spent(w, broken) == retries[w] <= faults + 1 /\ (broken => retries[w] <= faults)
Budget(w) ==
  /\ steady[w] => up
  /\ link[w] = "ok" => prepared[w] # "not done"
  /\ pc[w] = "rebind" => bindLink[w] = "bad"
  /\ pc[w] = "recover" => link[w] = "bad"
  /\ steady[w] /\ pc[w] \in {"bind", "rebind"} =>
       Spent(w, bindLink[w] \in {"cut", "bad"})
  /\ steady[w] /\ pc[w] \in {"create", "update", "recover"} =>
       Spent(w, link[w] # "ok")

\* FaultsMasked, of one worker.
Told(w) ==
  pc[w] = "reply" /\ steady[w] /\ faults < MaxRetries =>
    /\ reply[w] = "401" /\ prepared[w] # "failed" => cookie[w] \notin DOMAIN rows
    /\ reply[w] = "session error" => prepared[w] = "failed"
    /\ reply[w] = "bind error" => bindLink[w] = "unprepared"

WorkerInv(w) == Sender(w) /\ Budget(w) /\ Told(w)

IInv == Types /\ RowsInv /\ HoldsInv /\ \A w \in Workers : WorkerInv(w)

-----------------------------------------------------------------------------
LEMMA Empty == /\ DOMAIN <<>> = {}
               /\ \A S : <<>> \in Seq(S)
               /\ Len(<<>>) = 0
<1>1. <<>> \in Seq({}) /\ Len(<<>>) = 0
  BY EmptySeq
<1>2. \A S : <<>> \in Seq(S)
  BY EmptySeq
<1> QED
  BY <1>1, <1>2

LEMMA InitInv == Init => IInv
<1> SUFFICES ASSUME Init PROVE IInv
  OBVIOUS
<1>1. DOMAIN rows = {} /\ issued = 0 /\ RowTypes
  BY Empty DEF Init, RowTypes
<1>2. LinkTypes
  <2>1. link \in [Workers -> {"ok", "cut", "bad"}]
    <3>1. CASE up
      BY <3>1 DEF Init
    <3>2. CASE ~up
      BY <3>2 DEF Init
    <3> QED
      BY <3>1, <3>2
  <2>2. prepared \in [Workers -> {"done", "failed", "not done"}]
    BY DEF Init
  <2>3. bindLink \in [Workers -> {"ok", "cut", "bad", "unprepared"}]
    BY <2>1 DEF Init
  <2>4. up \in BOOLEAN /\ faults \in Nat
    BY DEF Init
  <2> QED
    BY <2>1, <2>2, <2>3, <2>4 DEF LinkTypes
<1>3. RequestTypes
  <2>1. retries \in [Workers -> 0..MaxRetries]
    <3>1. 0 \in 0..MaxRetries
      BY BoundsAssumption
    <3> QED
      BY <3>1 DEF Init
  <2>4. cookie \in [Workers -> Nat] /\ holds \in [Users -> Nat]
    BY DEF Init, NoSession
  <2>2. roles \in [Workers -> Seq(Users)] /\ m_user \in [Workers -> Seq(Users)]
    BY Empty DEF Init
  <2>3. /\ pc \in [Workers -> PC] /\ service \in [Workers -> Services \cup {"none"}]
        /\ from \in [Workers -> Users \cup {Nobody}]
        /\ login \in [Workers -> Users \cup {Nobody}]
        /\ reply \in [Workers -> Replies] /\ steady \in [Workers -> BOOLEAN]
    BY DEF Init, PC, Replies
  <2> QED
    BY <2>1, <2>2, <2>3, <2>4 DEF RequestTypes
<1>4. RowsInv /\ HoldsInv
  <2>1. \A u \in Users : holds[u] = 0
    BY DEF Init, NoSession
  <2> QED
    BY <1>1, <2>1 DEF RowsInv, HoldsInv, Owns
<1>5. ASSUME NEW w \in Workers PROVE WorkerInv(w)
  <2>1. pc[w] = "idle" /\ retries[w] = 0 /\ roles[w] = <<>> /\ ~steady[w]
    BY DEF Init
  <2>2. prepared[w] = IF link[w] = "ok" THEN "done" ELSE "not done"
    BY DEF Init
  <2>3. Sender(w)
    BY <2>1, Empty DEF Sender
  <2>4. Budget(w)
    BY <2>1, <2>2 DEF Budget
  <2> QED
    BY <2>1, <2>3, <2>4 DEF WorkerInv, Told
<1> QED
  BY <1>1, <1>2, <1>3, <1>4, <1>5 DEF IInv, Types

-----------------------------------------------------------------------------
(* Rows are only added under new ids. *)

RowsKept ==
  /\ issued' \in Nat /\ issued <= issued'
  /\ DOMAIN rows' \subseteq 1..issued'
  /\ \A id \in 1..issued : id \in DOMAIN rows' =>
       id \in DOMAIN rows /\ rows'[id] = rows[id]

LEMMA NewRowKeeps ==
  ASSUME RowTypes, NEW w \in Workers, NewRow(w)
  PROVE  /\ RowsKept
         /\ issued' = issued + 1
         /\ DOMAIN rows' = DOMAIN rows \cup {issued + 1}
         /\ rows'[issued + 1] = [user |-> from[w], roles |-> m_user[w]]
<1>1. /\ issued' = issued + 1
      /\ DOMAIN rows' = DOMAIN rows \cup {issued + 1}
      /\ rows'[issued + 1] = [user |-> from[w], roles |-> m_user[w]]
      /\ \A id \in DOMAIN rows : id # issued + 1 => rows'[id] = rows[id]
  BY DEF NewRow
<1> QED
  BY <1>1 DEF RowTypes, RowsKept

LEMMA SameRows ==
  ASSUME RowTypes, UNCHANGED <<rows, issued>>
  PROVE  RowsKept
BY DEF RowTypes, RowsKept

LEMMA RemovedRow ==
  ASSUME RowTypes, NEW w \in Workers, UNCHANGED issued,
         rows' = [id \in DOMAIN rows \ {cookie[w]} |-> rows[id]]
  PROVE  /\ RowsKept
         /\ DOMAIN rows' = DOMAIN rows \ {cookie[w]}
<1>1. /\ DOMAIN rows' = DOMAIN rows \ {cookie[w]}
      /\ \A id \in DOMAIN rows' : rows'[id] = rows[id]
  OBVIOUS
<1> QED
  BY <1>1 DEF RowTypes, RowsKept

\* What belongs to a user goes on doing so.
OwnsNext(u, id) == id <= issued' /\ (id \in DOMAIN rows' => rows'[id].user = u)

LEMMA OwnsKept ==
  ASSUME RowTypes, RowsKept, NEW u, NEW id \in Nat, Owns(u, id)
  PROVE  OwnsNext(u, id)
<1>1. id <= issued' /\ issued' \in Nat
  BY DEF RowTypes, RowsKept, Owns
<1>2. ASSUME id \in DOMAIN rows' PROVE rows'[id].user = u
  <2>1. id \in 1..issued
    BY <1>2 DEF RowTypes, RowsKept, Owns
  <2> QED
    BY <1>2, <2>1 DEF RowsKept, Owns
<1> QED
  BY <1>1, <1>2 DEF OwnsNext

-----------------------------------------------------------------------------
(* The steps of a worker: types, and what they leave alone. *)

Stepping(w) ==
  \/ \E u \in Users, s \in Services : Receive(w, u, s)
  \/ Worker(w)
  \/ Break(w)

\* update() found the row of the sender.
LEMMA UpdatedRow ==
  ASSUME IInv, NEW w \in Workers, Updated(w)
  PROVE  /\ from[w] \in Users
         /\ login' = [login EXCEPT ![w] = from[w]]
         /\ roles' = [roles EXCEPT ![w] = <<from[w]>>]
<1>1. pc[w] = "update" /\ cookie[w] \in DOMAIN rows
  BY DEF Updated, Goto
<1>2. from[w] \in Users /\ rows[cookie[w]].user = from[w] /\ roles[w] = <<>>
  BY <1>1 DEF IInv, WorkerInv, Sender, Owns
<1>3. rows[cookie[w]].roles = <<from[w]>>
  BY <1>1, <1>2 DEF IInv, RowsInv
<1>4. <<>> \o <<from[w]>> = <<from[w]>>
  BY <1>2
<1>5. roles \in [Workers -> Seq(Users)]
  BY DEF IInv, Types, RequestTypes
<1> QED
  BY <1>2, <1>3, <1>4, <1>5 DEF Updated

\* f is g, but for w.
Only(w, f, g, S) == \E x \in S : g = f \/ g = [f EXCEPT ![w] = x]

LEMMA OnlyFacts ==
  ASSUME NEW S, NEW f \in [Workers -> S], NEW w \in Workers, NEW g, Only(w, f, g, S)
  PROVE  /\ g \in [Workers -> S]
         /\ \A v \in Workers \ {w} : g[v] = f[v]
BY DEF Only

LEMMA LinksStep ==
  ASSUME IInv, NEW w \in Workers, Stepping(w)
  PROVE  /\ UNCHANGED up /\ (faults' = faults \/ faults' = faults + 1)
         /\ Only(w, link, link', {"ok", "cut", "bad"})
         /\ Only(w, prepared, prepared', {"done", "failed", "not done"})
         /\ Only(w, bindLink, bindLink', {"ok", "cut", "bad", "unprepared"})
<1> USE DEF Stepping, Worker
<1>1. UNCHANGED up /\ (faults' = faults \/ faults' = faults + 1)
    BY DEF Receive, BindAccepted, BindRejected,
         BindThrows, BindFails, BindAgain, Created, NotFound, NotPrepared, Fail, CallFails,
         ResultLost, GiveUp, Retry, Connect, Run, Remove, Count, Reply, Break, Updated,
         dbVars
<1>2. Only(w, link, link', {"ok", "cut", "bad"})
    BY DEF Receive, BindAccepted, BindRejected,
         BindThrows, BindFails, BindAgain, Created, NotFound, NotPrepared, Fail, CallFails,
         ResultLost, GiveUp, Retry, Connect, Run, Remove, Count, Reply, Break, Updated,
         Only, linkVars
<1>3. Only(w, prepared, prepared', {"done", "failed", "not done"})
    BY DEF Receive, BindAccepted, BindRejected,
         BindThrows, BindFails, BindAgain, Created, NotFound, NotPrepared, Fail, CallFails,
         ResultLost, GiveUp, Retry, Connect, Run, Remove, Count, Reply, Break, Updated,
         Only, linkVars
<1>4. Only(w, bindLink, bindLink', {"ok", "cut", "bad", "unprepared"})
    BY DEF Receive, BindAccepted, BindRejected,
         BindThrows, BindFails, BindAgain, Created, NotFound, NotPrepared, Fail, CallFails,
         ResultLost, GiveUp, Retry, Connect, Run, Remove, Count, Reply, Break, Updated,
         Only, bindVars
<1> QED
  BY <1>1, <1>2, <1>3, <1>4

LEMMA RequestStep ==
  ASSUME IInv, NEW w \in Workers, Stepping(w)
  PROVE  /\ Only(w, pc, pc', PC)
         /\ Only(w, service, service', Services \cup {"none"})
         /\ Only(w, from, from', Users \cup {Nobody})
         /\ Only(w, reply, reply', Replies)
         /\ Only(w, steady, steady', BOOLEAN)
<1> USE DEF Stepping, Worker
<1>1. Only(w, pc, pc', PC)
  BY DEF Receive, BindAccepted, BindRejected, BindThrows, BindFails, BindAgain, Created,
         NotFound, NotPrepared, Fail, CallFails, ResultLost, GiveUp, Retry, Run, Remove,
         Count, Reply, Break, Updated, Goto, Answer, FirstStep, PC, Only
<1>2. Only(w, service, service', Services \cup {"none"})
  BY DEF Receive, BindAccepted, BindRejected, BindThrows, BindFails, BindAgain, Created,
         NotFound, NotPrepared, Fail, CallFails, ResultLost, GiveUp, Retry, Run, Remove,
         Count, Reply, Break, Updated, requestVars, Only
<1>3. Only(w, from, from', Users \cup {Nobody})
  BY DEF Receive, BindAccepted, BindRejected, BindThrows, BindFails, BindAgain, Created,
         NotFound, NotPrepared, Fail, CallFails, ResultLost, GiveUp, Retry, Run, Remove,
         Count, Reply, Break, Updated, requestVars, Only
<1>4. Only(w, reply, reply', Replies)
  BY DEF Receive, BindAccepted, BindRejected, BindThrows, BindFails, BindAgain, Created,
         NotFound, NotPrepared, Fail, CallFails, ResultLost, GiveUp, Retry, Run, Remove,
         Count, Reply, Break, Updated, Goto, Answer, FirstStep, Failure, Replies, Only
<1>5. Only(w, steady, steady', BOOLEAN)
  <2>1. up \in BOOLEAN
    BY DEF IInv, Types, LinkTypes
  <2> QED
    BY <2>1 DEF Receive, BindAccepted, BindRejected, BindThrows, BindFails, BindAgain,
           Created, NotFound, NotPrepared, Fail, CallFails, ResultLost, GiveUp, Retry, Run,
           Remove, Count, Reply, Break, Updated, requestVars, Only
<1> QED
  BY <1>1, <1>2, <1>3, <1>4, <1>5

LEMMA UserStep ==
  ASSUME IInv, NEW w \in Workers, Stepping(w)
  PROVE  /\ Only(w, login, login', Users \cup {Nobody})
         /\ Only(w, roles, roles', Seq(Users))
         /\ Only(w, m_user, m_user', Seq(Users))
         /\ Only(w, cookie, cookie', Nat)
         /\ Only(w, retries, retries', 0..MaxRetries)
<1> USE DEF Stepping, Worker
<1>1. Only(w, login, login', Users \cup {Nobody})
  <2>1. CASE Updated(w)
    BY <2>1, UpdatedRow DEF Only
  <2>2. CASE Created(w)
    BY <2>2 DEF Created, IInv, Types, RequestTypes, Only
  <2> QED
    BY <2>1, <2>2 DEF Receive, BindAccepted, BindRejected, BindThrows, BindFails, BindAgain,
           NotFound, NotPrepared, Fail, CallFails, ResultLost, GiveUp, Retry, Run, Remove,
           Count, Reply, Break, ClearUser, infoVars, Only
<1>2. Only(w, roles, roles', Seq(Users))
  <2>1. CASE Updated(w)
    <3>1. <<from[w]>> \in Seq(Users) /\ roles' = [roles EXCEPT ![w] = <<from[w]>>]
      BY <2>1, UpdatedRow
    <3> QED
      BY <3>1 DEF Only
  <2>2. <<>> \in Seq(Users)
    BY Empty
  <2>3. ASSUME NEW u \in Users, NEW s \in Services, Receive(w, u, s)
        PROVE  Only(w, roles, roles', Seq(Users))
    <3>1. roles' = [roles EXCEPT ![w] = <<>>]
      BY <2>3 DEF Receive, ClearUser
    <3> QED
      BY <2>2, <3>1 DEF Only
  <2>4. CASE (Worker(w) /\ ~Updated(w)) \/ Break(w)
    <3>1. roles' = roles
      BY <2>4 DEF BindAccepted, BindRejected, BindThrows, BindFails, BindAgain, Created, NotFound,
             NotPrepared, Fail, CallFails, ResultLost, GiveUp, Retry, Run, Remove, Count, Reply,
             Break, infoVars
    <3> QED
      BY <2>2, <3>1 DEF Only
  <2> QED
    BY <2>1, <2>3, <2>4
<1>3. Only(w, m_user, m_user', Seq(Users))
  <2>1. CASE BindAccepted(w)
    <3>1. from[w] \in Users
      BY <2>1 DEF BindAccepted, Goto, IInv, WorkerInv, Sender
    <3>2. <<from[w]>> \in Seq(Users) /\ m_user' = [m_user EXCEPT ![w] = <<from[w]>>]
      BY <2>1, <3>1 DEF BindAccepted, SetUser
    <3> QED
      BY <3>2 DEF Only
  <2>2. CASE ~BindAccepted(w)
    <3>1. m_user' = m_user /\ <<>> \in Seq(Users)
      BY <2>2, Empty
         DEF Receive, BindRejected, BindThrows, BindFails, BindAgain, Created, NotFound,
             NotPrepared, Fail, CallFails, ResultLost, GiveUp, Retry, Run, Remove, Count, Reply,
             Break, Updated, bindVars
    <3> QED
      BY <3>1 DEF Only
  <2> QED
    BY <2>1, <2>2
<1>4. Only(w, cookie, cookie', Nat)
  <2>1. issued + 1 \in Nat /\ holds \in [Users -> Nat] /\ cookie \in [Workers -> Nat]
    BY DEF IInv, Types, RowTypes, RequestTypes
  <2> QED
    BY <2>1 DEF Receive, BindAccepted, BindRejected, BindThrows, BindFails, BindAgain,
           Created, NotFound, NotPrepared, Fail, CallFails, ResultLost, GiveUp, Retry, Run,
           Remove, Count, Reply, Break, Updated, infoVars, NoSession, Only
<1>5. Only(w, retries, retries', 0..MaxRetries)
  <2>1. 0 \in 0..MaxRetries /\ retries[w] \in 0..MaxRetries
    BY BoundsAssumption DEF IInv, Types, RequestTypes
  <2>2. CASE BindAgain(w) \/ Retry(w)
    BY <2>1, <2>2, BoundsAssumption DEF BindAgain, Retry, Only
  <2> QED
    BY <2>1, <2>2 DEF Receive, BindAccepted, BindRejected, BindThrows, BindFails, Created,
           NotFound, NotPrepared, Fail, CallFails, ResultLost, GiveUp, Run, Remove, Count,
           Reply, Break, Updated, Only
<1> QED
  BY <1>1, <1>2, <1>3, <1>4, <1>5

-----------------------------------------------------------------------------
(* Whose rows and requests they are. *)

LEMMA RowsStep ==
  ASSUME IInv, NEW w \in Workers, Stepping(w)
  PROVE  RowsKept /\ RowsInv'
<1> USE DEF Stepping, Worker
<1>1. RowTypes /\ RowsInv
  BY DEF IInv, Types
<1>2. CASE NewRow(w) /\ pc[w] = "create"
  <2>1. from[w] \in Users /\ m_user[w] = <<from[w]>>
    BY <1>2 DEF IInv, WorkerInv, Sender
  <2>2. RowsKept /\ DOMAIN rows' = DOMAIN rows \cup {issued + 1}
        /\ rows'[issued + 1] = [user |-> from[w], roles |-> m_user[w]]
    BY <1>1, <1>2, NewRowKeeps
  <2>3. \A id \in DOMAIN rows : rows'[id] = rows[id]
    BY <1>1, <2>2 DEF RowTypes, RowsKept
  <2> QED
    BY <1>1, <2>1, <2>2, <2>3 DEF RowsInv
<1>3. CASE Remove(w)
  <2>1. CASE link[w] = "ok"
    <3>1. rows' = [id \in DOMAIN rows \ {cookie[w]} |-> rows[id]] /\ UNCHANGED issued
      BY <1>3, <2>1 DEF Remove
    <3> QED
      BY <1>1, <3>1, RemovedRow DEF RowsInv
  <2>2. CASE link[w] # "ok"
    <3>1. UNCHANGED <<rows, issued>>
      BY <1>3, <2>2 DEF Remove
    <3> QED
      BY <1>1, <3>1, SameRows DEF RowsInv
  <2> QED
    BY <2>1, <2>2
<1>4. CASE ~(NewRow(w) /\ pc[w] = "create") /\ ~Remove(w)
  <2>1. UNCHANGED <<rows, issued>>
    BY <1>4
       DEF Receive, BindAccepted, BindRejected, BindThrows, BindFails, BindAgain, Created,
           Updated, NotFound, NotPrepared, Fail, CallFails, ResultLost, GiveUp, Retry, Run,
           Count, Reply, Break, Goto, Answer, dbVars
  <2> QED
    BY <1>1, <2>1, SameRows DEF RowsInv
<1> QED
  BY <1>2, <1>3, <1>4

\* The client of the request gets its session id.
LEMMA HoldsStep ==
  ASSUME IInv, NEW w \in Workers, Stepping(w)
  PROVE  HoldsInv' /\ holds' \in [Users -> Nat]
<1> USE DEF Stepping, Worker
<1>1. RowTypes /\ RowsKept /\ holds \in [Users -> Nat] /\ cookie \in [Workers -> Nat]
  BY RowsStep DEF IInv, Types, RequestTypes
<1>2. CASE Reply(w)
  <2>1. from[w] \in Users /\ Owns(from[w], cookie[w])
    BY <1>2 DEF Reply, Goto, IInv, WorkerInv, Sender
  <2>2. PICK id \in {cookie[w], 0, holds[from[w]]} : holds' = [holds EXCEPT ![from[w]] = id]
    BY <1>2 DEF Reply, NoSession
  <2>3. id \in Nat /\ Owns(from[w], id)
    BY <1>1, <2>1, <2>2 DEF IInv, HoldsInv, Owns, RowTypes
  <2>4. \A u \in Users : holds'[u] \in Nat /\ Owns(u, holds'[u])
    BY <1>1, <2>1, <2>2, <2>3 DEF IInv, HoldsInv
  <2>5. \A u \in Users : OwnsNext(u, holds'[u])
    BY <1>1, <2>4, OwnsKept
  <2> QED
    BY <1>1, <2>1, <2>2, <2>3, <2>5 DEF HoldsInv, Owns, OwnsNext
<1>3. CASE ~Reply(w)
  <2>1. holds' = holds
    BY <1>3
       DEF Receive, BindAccepted, BindRejected, BindThrows, BindFails, BindAgain, Created,
           Updated, NotFound, NotPrepared, Fail, CallFails, ResultLost, GiveUp, Retry, Run,
           Remove, Count, Break
  <2>2. \A u \in Users : OwnsNext(u, holds[u])
    BY <1>1, OwnsKept DEF IInv, HoldsInv
  <2> QED
    BY <1>1, <2>1, <2>2 DEF HoldsInv, Owns, OwnsNext
<1> QED
  BY <1>2, <1>3

\* The stepping worker itself, one step after the other.
LEMMA SenderStep ==
  ASSUME IInv, NEW w \in Workers, Stepping(w)
  PROVE  Sender(w)'
<1> USE DEF Goto, Answer, Sender, Owns, OwnsNext
<1>1. /\ pc \in [Workers -> PC] /\ service \in [Workers -> Services \cup {"none"}]
      /\ from \in [Workers -> Users \cup {Nobody}] /\ cookie \in [Workers -> Nat]
      /\ login \in [Workers -> Users \cup {Nobody}]
      /\ roles \in [Workers -> Seq(Users)] /\ m_user \in [Workers -> Seq(Users)]
      /\ retries \in [Workers -> 0..MaxRetries]
  BY DEF IInv, Types, RequestTypes
<1>2. Sender(w)
  BY DEF IInv, WorkerInv
<1>3. issued' \in Nat /\ DOMAIN rows' \subseteq 1..issued'
  BY RowsStep DEF RowsKept
<1>4. pc[w] # "idle" => OwnsNext(from[w], cookie[w])
  BY <1>1, <1>2, RowsStep, OwnsKept DEF IInv, Types
<1>5. ASSUME NEW u \in Users, NEW s \in Services, Receive(w, u, s)
      PROVE  Sender(w)'
  <2>1. OwnsNext(u, holds[u])
    BY RowsStep, OwnsKept DEF IInv, Types, RequestTypes, HoldsInv
  <2>2. pc[w] = "idle" /\ pc'[w] = FirstStep(s, holds[u])
    BY <1>1, <1>5 DEF Receive
  <2>3. /\ pc'[w] \in {"bind", "count", "reply", "update"}
        /\ pc'[w] = "bind" => s = "login"
        /\ pc'[w] = "update" => s # "login"
    BY <2>2 DEF FirstStep
  <2>4. from'[w] = u /\ cookie'[w] = holds[u] /\ service'[w] = s /\ roles'[w] = <<>>
    BY <1>1, <1>5 DEF Receive, ClearUser
  <2> QED
    BY <2>1, <2>3, <2>4, Empty
<1>6. CASE BindAccepted(w)
  BY <1>1, <1>2, <1>3, <1>4, <1>6 DEF BindAccepted, SetUser, requestVars, infoVars
<1>7. CASE BindRejected(w)
  BY <1>1, <1>2, <1>3, <1>4, <1>7 DEF BindRejected, requestVars, infoVars, bindVars, NoSession
<1>8. CASE BindThrows(w)
  BY <1>1, <1>2, <1>3, <1>4, <1>8 DEF BindThrows, requestVars, infoVars, bindVars
<1>9. CASE BindFails(w)
  BY <1>1, <1>2, <1>3, <1>4, <1>9 DEF BindFails, requestVars, infoVars
<1>10. CASE BindAgain(w)
  BY <1>1, <1>2, <1>3, <1>4, <1>10 DEF BindAgain, requestVars, infoVars
<1>11. CASE NotFound(w)
  BY <1>1, <1>2, <1>3, <1>4, <1>11 DEF NotFound, requestVars, infoVars, bindVars
<1>12. CASE CallFails(w)
  BY <1>1, <1>2, <1>3, <1>4, <1>12 DEF CallFails, requestVars, infoVars, bindVars
<1>13. CASE ResultLost(w)
  BY <1>1, <1>2, <1>3, <1>4, <1>13 DEF ResultLost, requestVars, infoVars, bindVars
<1>14. CASE Retry(w)
  BY <1>1, <1>2, <1>3, <1>4, <1>14 DEF Retry, requestVars, infoVars, bindVars
<1>15. CASE Run(w)
  BY <1>1, <1>2, <1>3, <1>4, <1>15 DEF Run, requestVars, infoVars, bindVars
<1>16. CASE Remove(w)
  BY <1>1, <1>2, <1>3, <1>4, <1>16 DEF Remove, requestVars, infoVars, bindVars
<1>17. CASE Count(w)
  BY <1>1, <1>2, <1>3, <1>4, <1>17 DEF Count, requestVars, infoVars, bindVars
<1>18. CASE Reply(w)
  BY <1>1, <1>2, <1>3, <1>4, <1>18 DEF Reply, infoVars, bindVars
<1>19. CASE Break(w)
  BY <1>1, <1>2, <1>3, <1>4, <1>19 DEF Break, requestVars, infoVars
<1>20. CASE Created(w)
  <2>1. rows'[issued + 1] = [user |-> from[w], roles |-> m_user[w]] /\ issued' = issued + 1
    BY <1>20, NewRowKeeps DEF Created, IInv, Types
  <2>2. pc[w] = "create" /\ pc'[w] = "reply" /\ cookie'[w] = issued + 1
        /\ UNCHANGED <<from, roles, retries>>
    BY <1>1, <1>20 DEF Created, requestVars, bindVars
  <2> QED
    BY <1>1, <1>2, <1>3, <2>1, <2>2
<1>21. CASE Updated(w)
  <2>1. /\ login'[w] = from[w] /\ roles'[w] = <<from[w]>> /\ from[w] \in Users
    BY <1>1, <1>21, UpdatedRow
  <2>2. /\ pc[w] = "update" /\ pc'[w] \in {"remove", "run"}
        /\ UNCHANGED <<from, cookie, service, retries>>
    BY <1>1, <1>21 DEF Updated, requestVars
  <2>3. Len(<<from[w]>>) = 1
    BY <2>1
  <2> QED
    BY <1>1, <1>2, <1>4, <2>1, <2>2, <2>3
<1>22. CASE NotPrepared(w) \/ GiveUp(w)
  <2>1. /\ pc[w] # "idle" /\ pc'[w] = "reply" /\ cookie'[w] \in {0, cookie[w]}
        /\ UNCHANGED <<from, roles>>
    BY <1>1, <1>22 DEF NotPrepared, GiveUp, Fail, requestVars, NoSession
  <2> QED
    BY <1>1, <1>2, <1>3, <1>4, <2>1
<1> QED
  BY <1>5, <1>6, <1>7, <1>8, <1>9, <1>10, <1>11, <1>12, <1>13, <1>14, <1>15, <1>16, <1>17, <1>18, <1>19, <1>20, <1>21, <1>22
     DEF Stepping, Worker

-----------------------------------------------------------------------------
(* Retries and faults. *)

LEMMA BudgetStep ==
  ASSUME IInv, NEW w \in Workers, Stepping(w)
  PROVE  Budget(w)'
<1> USE DEF Goto, Answer, Budget, Spent
<1>1. /\ pc \in [Workers -> PC] /\ steady \in [Workers -> BOOLEAN]
      /\ link \in [Workers -> {"ok", "cut", "bad"}]
      /\ prepared \in [Workers -> {"done", "failed", "not done"}]
      /\ bindLink \in [Workers -> {"ok", "cut", "bad", "unprepared"}]
  BY DEF IInv, Types, LinkTypes, RequestTypes
<1>2. faults \in Nat /\ up \in BOOLEAN /\ retries \in [Workers -> 0..MaxRetries]
  BY DEF IInv, Types, LinkTypes, RequestTypes
<1>a. retries[w] \in Nat
  BY <1>2, BoundsAssumption
<1>3. Budget(w) /\ (pc[w] = "idle" => retries[w] = 0)
  BY DEF IInv, WorkerInv, Sender
<1>4. ASSUME NEW u \in Users, NEW s \in Services, Receive(w, u, s)
      PROVE  Budget(w)'
  <2>1. /\ pc'[w] \in {"bind", "count", "reply", "update"} /\ retries[w] = 0
        /\ UNCHANGED <<up, faults, link, prepared, bindLink, retries>>
        /\ steady'[w] = up
    BY <1>1, <1>3, <1>4 DEF Receive, FirstStep, dbVars, linkVars, bindVars
  <2>2. retries'[w] = 0 /\ faults' = faults
    BY <2>1
  <2>3. retries'[w] <= faults' /\ retries'[w] <= faults' + 1
    BY <1>2, <2>2
  <2> QED
    BY <1>3, <2>1, <2>3
<1>5. CASE BindAccepted(w)
  <2>1. /\ pc'[w] = "create" /\ retries'[w] = 0
        /\ UNCHANGED <<up, faults, link, prepared, bindLink, steady>>
    BY <1>1, <1>2, <1>5 DEF BindAccepted, dbVars, linkVars, requestVars
  <2>2. retries'[w] <= faults' /\ retries'[w] <= faults' + 1
    BY <1>2, <2>1
  <2> QED
    BY <1>3, <2>1, <2>2
<1>6. CASE BindRejected(w)
  BY <1>1, <1>2, <1>3, <1>6 DEF BindRejected, dbVars, linkVars, bindVars, requestVars
<1>7. CASE BindThrows(w)
  BY <1>1, <1>2, <1>3, <1>7 DEF BindThrows, dbVars, linkVars, bindVars, requestVars
<1>8. CASE BindFails(w)
  BY <1>1, <1>2, <1>3, <1>8 DEF BindFails, dbVars, linkVars, requestVars
<1>9. CASE BindAgain(w)
  <2>1. /\ pc[w] = "rebind" /\ pc'[w] = "bind" /\ retries'[w] = retries[w] + 1
        /\ UNCHANGED <<up, link, prepared, steady>>
        /\ faults' = faults \/ faults' = faults + 1
        /\ up => bindLink'[w] \in {"ok", "unprepared"}
    BY <1>1, <1>2, <1>9 DEF BindAgain, linkVars, requestVars
  <2>2. steady[w] => retries[w] <= faults
    BY <1>1, <1>3, <2>1
  <2>3. steady[w] => retries'[w] <= faults' + 1
    BY <1>2, <1>a, <2>1, <2>2
  <2> QED
    BY <1>1, <1>3, <2>1, <2>3
<1>10. CASE Created(w)
  BY <1>1, <1>2, <1>3, <1>10 DEF Created, Usable, linkVars, bindVars, requestVars
<1>11. CASE Updated(w)
  BY <1>1, <1>2, <1>3, <1>11 DEF Updated, dbVars, linkVars, bindVars, requestVars
<1>12. CASE NotFound(w)
  BY <1>1, <1>2, <1>3, <1>12 DEF NotFound, dbVars, linkVars, bindVars, requestVars
<1>13. CASE NotPrepared(w) \/ GiveUp(w)
  BY <1>1, <1>2, <1>3, <1>13 DEF NotPrepared, GiveUp, Fail, dbVars, linkVars, bindVars, requestVars
<1>14. CASE CallFails(w)
  BY <1>1, <1>2, <1>3, <1>14 DEF CallFails, dbVars, bindVars, requestVars
<1>15. CASE ResultLost(w)
  <2>1. /\ pc[w] \in {"create", "update"} /\ pc'[w] = "recover" /\ link[w] = "ok"
        /\ link'[w] = "bad" /\ faults' = faults + 1
        /\ UNCHANGED <<up, prepared, bindLink, retries, steady>>
    BY <1>1, <1>15 DEF ResultLost, Usable, bindVars, requestVars
  <2>2. steady[w] => retries[w] <= faults + 1
    BY <1>3, <2>1
  <2>3. retries'[w] = retries[w] /\ faults' = faults + 1 /\ faults \in Nat
    BY <1>2, <2>1
  <2>4. retries[w] <= faults + 1 => retries'[w] <= faults' /\ retries'[w] <= faults' + 1
    BY <1>a, <2>3
  <2> QED
    BY <1>1, <1>3, <2>1, <2>2, <2>4
<1>16. CASE Retry(w)
  <2>1. /\ pc[w] = "recover" /\ pc'[w] \in {"create", "update"}
        /\ retries'[w] = retries[w] + 1
        /\ UNCHANGED <<up, bindLink, steady>>
        /\ faults' = faults \/ faults' = faults + 1
        /\ link'[w] = IF up THEN "ok" ELSE "bad"
        /\ up => prepared'[w] # "not done"
    BY <1>1, <1>2, <1>16 DEF Retry, Connect, bindVars, requestVars
  <2>2. link[w] = "bad" /\ (steady[w] => retries[w] <= faults /\ up)
    BY <1>1, <1>3, <2>1
  <2>3. retries'[w] = retries[w] + 1 /\ faults \in Nat
        /\ (faults' = faults \/ faults' = faults + 1)
    BY <1>2, <2>1
  <2>4. retries[w] <= faults => retries'[w] <= faults' + 1
    BY <1>a, <2>3
  <2> QED
    BY <1>1, <1>3, <2>1, <2>2, <2>4
<1>17. CASE Run(w)
  BY <1>1, <1>2, <1>3, <1>17 DEF Run, dbVars, linkVars, bindVars, requestVars
<1>18. CASE Remove(w)
  BY <1>1, <1>2, <1>3, <1>18 DEF Remove, bindVars, requestVars
<1>19. CASE Count(w)
  BY <1>1, <1>2, <1>3, <1>19 DEF Count, dbVars, bindVars, requestVars
<1>20. CASE Reply(w)
  BY <1>1, <1>2, <1>3, <1>20 DEF Reply, dbVars, linkVars, bindVars
<1>21. CASE Break(w)
  <2>1. /\ pc[w] \in {"bind", "create", "update", "remove", "count"}
        /\ UNCHANGED <<up, prepared, pc, retries, steady>>
        /\ faults' = faults + 1
        /\ \/ pc[w] # "bind" /\ link'[w] = "cut" /\ UNCHANGED bindLink /\ link[w] = "ok"
           \/ /\ pc[w] = "bind" /\ bindLink'[w] = "cut" /\ UNCHANGED link
              /\ bindLink[w] \in {"ok", "unprepared"}
    BY <1>1, <1>21 DEF Break, requestVars
  <2>2. steady[w] /\ pc[w] \in {"bind", "create", "update"} => retries[w] <= faults + 1
    BY <1>1, <1>3, <2>1
  <2>3. steady[w] /\ pc[w] \in {"bind", "create", "update"} =>
          retries'[w] <= faults' /\ retries'[w] <= faults' + 1
    BY <1>2, <1>a, <2>1, <2>2
  <2> QED
    BY <1>1, <1>3, <2>1, <2>3
<1> QED
  BY <1>4, <1>5, <1>6, <1>7, <1>8, <1>9, <1>10, <1>11, <1>12, <1>13, <1>14, <1>15, <1>16, <1>17, <1>18, <1>19, <1>20, <1>21
     DEF Stepping, Worker

\* What the client is told; a step that has the answer has the reason for it.
LEMMA ToldStep ==
  ASSUME IInv, NEW w \in Workers, Stepping(w)
  PROVE  Told(w)'
<1> USE DEF Goto, Answer, Told, Budget, Spent
<1>1. /\ pc \in [Workers -> PC] /\ steady \in [Workers -> BOOLEAN]
      /\ link \in [Workers -> {"ok", "cut", "bad"}]
      /\ prepared \in [Workers -> {"done", "failed", "not done"}]
      /\ bindLink \in [Workers -> {"ok", "cut", "bad", "unprepared"}]
      /\ reply \in [Workers -> Replies] /\ service \in [Workers -> Services \cup {"none"}]
  BY DEF IInv, Types, LinkTypes, RequestTypes
<1>2. faults \in Nat /\ MaxRetries \in Nat
      /\ cookie \in [Workers -> Nat] /\ holds \in [Users -> Nat]
  BY BoundsAssumption DEF IInv, Types, LinkTypes, RequestTypes
<1>3. Budget(w)
  BY DEF IInv, WorkerInv
<1>4. CASE pc'[w] # "reply"
  BY <1>4
<1>5. ASSUME NEW u \in Users, NEW s \in Services, Receive(w, u, s), pc'[w] = "reply"
      PROVE  Told(w)'
  <2>1. pc'[w] = FirstStep(s, holds[u]) /\ cookie'[w] = holds[u] /\ reply'[w] = "401"
    BY <1>1, <1>2, <1>5 DEF Receive
  <2>2. holds[u] = 0
    BY <1>5, <2>1 DEF FirstStep, NoSession
  <2>3. 0 \notin DOMAIN rows'
    BY RowsStep DEF RowsKept
  <2> QED
    BY <2>1, <2>2, <2>3
<1>6. CASE NotFound(w)
  <2>1. reply'[w] = "401" /\ cookie'[w] = cookie[w] /\ cookie[w] \notin DOMAIN rows /\ rows' = rows
    BY <1>1, <1>6 DEF NotFound, dbVars, infoVars
  <2> QED
    BY <2>1
<1>7. CASE BindThrows(w)
  <2>1. /\ reply'[w] = "bind error" /\ UNCHANGED <<steady, faults, bindLink>>
        /\ \/ pc[w] = "bind" /\ bindLink[w] = "unprepared"
           \/ pc[w] = "rebind" /\ retries[w] = MaxRetries
    BY <1>1, <1>7 DEF BindThrows, requestVars, dbVars, bindVars
  <2>2. CASE pc[w] = "bind" /\ bindLink[w] = "unprepared"
    BY <2>1, <2>2
  <2>3. CASE pc[w] = "rebind" /\ retries[w] = MaxRetries
    <3>1. steady[w] => MaxRetries <= faults
      BY <1>3, <2>3
    <3>2. MaxRetries <= faults => ~(faults < MaxRetries)
      BY <1>2
    <3> QED
      BY <2>1, <3>1, <3>2
  <2> QED
    BY <2>1, <2>2, <2>3
<1>8. CASE NotPrepared(w) \/ GiveUp(w)
  <2>1. reply'[w] \in {"401", "session error"} /\ UNCHANGED <<steady, faults, link, prepared>>
    BY <1>1, <1>8 DEF NotPrepared, GiveUp, Fail, Failure, requestVars, dbVars, linkVars
  <2>2. CASE NotPrepared(w)
    <3>1. prepared[w] = "failed"
      BY <1>1, <1>3, <2>2 DEF NotPrepared
    <3> QED
      BY <2>1, <3>1
  <2>3. CASE GiveUp(w)
    <3>1. pc[w] = "recover" /\ retries[w] = MaxRetries
      BY <2>3 DEF GiveUp, Fail
    <3>2. steady[w] => MaxRetries <= faults
      BY <1>3, <3>1
    <3>3. MaxRetries <= faults => ~(faults < MaxRetries)
      BY <1>2
    <3> QED
      BY <2>1, <3>2, <3>3
  <2> QED
    BY <1>8, <2>2, <2>3
<1>9. CASE pc'[w] = "reply" /\ (BindRejected(w) \/ Created(w) \/ Run(w) \/ Remove(w) \/ Count(w))
  <2>1. reply'[w] \in {"invalid", "ok", "minus one"}
    BY <1>1, <1>9 DEF BindRejected, Created, Run, Remove, Count
  <2> QED
    BY <2>1
<1>10. CASE Break(w)
  BY <1>1, <1>10, <1>4 DEF Break
<1>11. pc'[w] # "reply" \/ BindRejected(w) \/ BindThrows(w) \/ Created(w) \/ NotFound(w)
         \/ NotPrepared(w) \/ GiveUp(w) \/ Run(w) \/ Remove(w) \/ Count(w) \/ Break(w)
         \/ \E u \in Users, s \in Services : Receive(w, u, s)
  BY <1>1 DEF Stepping, Worker, BindAccepted, BindFails, BindAgain, Updated, CallFails, ResultLost,
              Retry, Reply
<1> QED
  BY <1>4, <1>5, <1>6, <1>7, <1>8, <1>9, <1>10, <1>11

-----------------------------------------------------------------------------
(* The other workers, whose variables stay as they are. *)

Same(v) ==
  /\ link'[v] = link[v] /\ prepared'[v] = prepared[v] /\ bindLink'[v] = bindLink[v]
  /\ pc'[v] = pc[v] /\ service'[v] = service[v] /\ from'[v] = from[v]
  /\ reply'[v] = reply[v] /\ cookie'[v] = cookie[v] /\ login'[v] = login[v]
  /\ roles'[v] = roles[v] /\ m_user'[v] = m_user[v] /\ retries'[v] = retries[v]

LEMMA SameKeeps ==
  ASSUME IInv, NEW v \in Workers, Same(v), RowsKept,
         steady'[v] => steady[v] /\ up', faults' = faults \/ faults' = faults + 1
  PROVE  WorkerInv(v)'
<1> USE DEF Same
<1>1. Sender(v) /\ Budget(v) /\ Told(v)
  BY DEF IInv, WorkerInv
<1>2. /\ RowTypes /\ cookie[v] \in Nat /\ retries[v] \in Nat /\ MaxRetries \in Nat
      /\ faults \in Nat
  <2>1. Types
    BY DEF IInv
  <2>2. cookie \in [Workers -> Nat] /\ retries \in [Workers -> 0..MaxRetries]
    BY <2>1 DEF Types, RequestTypes
  <2>3. RowTypes /\ faults \in Nat
    BY <2>1 DEF Types, LinkTypes
  <2>4. retries[v] \in Nat /\ cookie[v] \in Nat /\ MaxRetries \in Nat
    BY <2>2, BoundsAssumption
  <2> QED
    BY <2>3, <2>4
<1>3. pc[v] # "idle" => OwnsNext(from[v], cookie[v])
  BY <1>1, <1>2, OwnsKept DEF Sender
<1>4. Sender(v)'
  BY <1>1, <1>3 DEF Sender, Owns, OwnsNext
<1>5. /\ faults < MaxRetries \/ ~(faults' < MaxRetries)
      /\ retries[v] <= faults => retries[v] <= faults'
      /\ retries[v] <= faults + 1 => retries[v] <= faults' + 1
  BY <1>2
<1>6. Budget(v)'
  BY <1>1, <1>5 DEF Budget, Spent
<1>7. ASSUME pc[v] # "idle", cookie[v] \in DOMAIN rows' PROVE cookie[v] \in DOMAIN rows
  <2>1. cookie[v] <= issued /\ cookie[v] \in 1..issued'
    BY <1>1, <1>7 DEF Sender, Owns, RowsKept
  <2>2. cookie[v] \in 1..issued
    BY <1>2, <2>1 DEF RowTypes
  <2> QED
    BY <1>7, <2>2 DEF RowsKept
<1>8. Told(v)'
  BY <1>1, <1>5, <1>7 DEF Told
<1> QED
  BY <1>4, <1>6, <1>8 DEF WorkerInv

LEMMA OthersKept ==
  ASSUME IInv, NEW w \in Workers, Stepping(w), NEW v \in Workers \ {w}
  PROVE  WorkerInv(v)'
<1>1. LinkTypes /\ RequestTypes
  BY DEF IInv, Types
<1>a. v \in Workers /\ v # w
  OBVIOUS
<1>2. /\ link'[v] = link[v]
      /\ prepared'[v] = prepared[v]
      /\ bindLink'[v] = bindLink[v]
  <2>1. /\ Only(w, link, link', {"ok", "cut", "bad"})
        /\ Only(w, prepared, prepared', {"done", "failed", "not done"})
        /\ Only(w, bindLink, bindLink', {"ok", "cut", "bad", "unprepared"})
    BY LinksStep
  <2>2. /\ link \in [Workers -> {"ok", "cut", "bad"}]
        /\ prepared \in [Workers -> {"done", "failed", "not done"}]
        /\ bindLink \in [Workers -> {"ok", "cut", "bad", "unprepared"}]
    BY <1>1 DEF LinkTypes
  <2> QED
    BY <1>a, <2>1, <2>2 DEF Only
<1>3. /\ pc'[v] = pc[v]
      /\ service'[v] = service[v]
      /\ from'[v] = from[v]
      /\ reply'[v] = reply[v]
      /\ steady'[v] = steady[v]
  <2>1. /\ Only(w, pc, pc', PC)
        /\ Only(w, service, service', Services \cup {"none"})
        /\ Only(w, from, from', Users \cup {Nobody})
        /\ Only(w, reply, reply', Replies)
        /\ Only(w, steady, steady', BOOLEAN)
    BY RequestStep
  <2>2. /\ pc \in [Workers -> PC]
        /\ service \in [Workers -> Services \cup {"none"}]
        /\ from \in [Workers -> Users \cup {Nobody}]
        /\ reply \in [Workers -> Replies]
        /\ steady \in [Workers -> BOOLEAN]
    BY <1>1 DEF RequestTypes
  <2> QED
    BY <1>a, <2>1, <2>2 DEF Only
<1>4. /\ login'[v] = login[v]
      /\ roles'[v] = roles[v]
      /\ m_user'[v] = m_user[v]
      /\ cookie'[v] = cookie[v]
      /\ retries'[v] = retries[v]
  <2>1. /\ Only(w, login, login', Users \cup {Nobody})
        /\ Only(w, roles, roles', Seq(Users))
        /\ Only(w, m_user, m_user', Seq(Users))
        /\ Only(w, cookie, cookie', Nat)
        /\ Only(w, retries, retries', 0..MaxRetries)
    BY UserStep
  <2>2. /\ login \in [Workers -> Users \cup {Nobody}]
        /\ roles \in [Workers -> Seq(Users)]
        /\ m_user \in [Workers -> Seq(Users)]
        /\ cookie \in [Workers -> Nat]
        /\ retries \in [Workers -> 0..MaxRetries]
    BY <1>1 DEF RequestTypes
  <2> QED
    BY <1>a, <2>1, <2>2 DEF Only
<1>5. RowsKept /\ up' = up /\ (faults' = faults \/ faults' = faults + 1)
  BY RowsStep, LinksStep
<1>6. steady[v] => up
  BY DEF IInv, WorkerInv, Budget
<1> QED
  BY <1>2, <1>3, <1>4, <1>5, <1>6, SameKeeps DEF Same

LEMMA TypesStep ==
  ASSUME IInv, NEW w \in Workers, Stepping(w)
  PROVE  Types'
<1>1. RowTypes /\ LinkTypes /\ RequestTypes
  BY DEF IInv, Types
<1>2. RowTypes'
  <2>1. RowsKept
    BY RowsStep
  <2> QED
    BY <2>1 DEF RowsKept, RowTypes
<1>3. LinkTypes'
  <2>a. up' = up /\ (faults' = faults \/ faults' = faults + 1)
    BY LinksStep
  <2>b. up \in BOOLEAN /\ faults \in Nat
    BY <1>1 DEF LinkTypes
  <2>1. up' \in BOOLEAN /\ faults' \in Nat
    BY <2>a, <2>b
  <2>2. /\ link' \in [Workers -> {"ok", "cut", "bad"}]
        /\ prepared' \in [Workers -> {"done", "failed", "not done"}]
        /\ bindLink' \in [Workers -> {"ok", "cut", "bad", "unprepared"}]
    BY <1>1, LinksStep, OnlyFacts DEF LinkTypes
  <2> QED
    BY <2>1, <2>2 DEF LinkTypes
<1>4. RequestTypes'
  <2>1. /\ pc' \in [Workers -> PC] /\ service' \in [Workers -> Services \cup {"none"}]
        /\ from' \in [Workers -> Users \cup {Nobody}]
        /\ reply' \in [Workers -> Replies] /\ steady' \in [Workers -> BOOLEAN]
    BY <1>1, RequestStep, OnlyFacts DEF RequestTypes
  <2>2. /\ login' \in [Workers -> Users \cup {Nobody}] /\ cookie' \in [Workers -> Nat]
        /\ roles' \in [Workers -> Seq(Users)] /\ m_user' \in [Workers -> Seq(Users)]
        /\ retries' \in [Workers -> 0..MaxRetries]
    BY <1>1, UserStep, OnlyFacts DEF RequestTypes
  <2> QED
    BY <2>1, <2>2, HoldsStep DEF RequestTypes
<1> QED
  BY <1>2, <1>3, <1>4 DEF Types

LEMMA SteppingInv ==
  ASSUME IInv, NEW w \in Workers, Stepping(w)
  PROVE  IInv'
<1>1. \A v \in Workers : WorkerInv(v)'
  BY SenderStep, BudgetStep, ToldStep, OthersKept DEF WorkerInv
<1> QED
  BY <1>1, TypesStep, RowsStep, HoldsStep DEF IInv

-----------------------------------------------------------------------------
(* The database itself. *)

LEMMA DatabaseInv ==
  ASSUME IInv, Outage \/ Restart
  PROVE  IInv'
<1>1. /\ RowTypes /\ LinkTypes /\ RequestTypes
      /\ UNCHANGED <<rows, issued, prepared, m_user, service, from, cookie, login, roles,
                     pc, retries, reply, holds>>
  BY DEF Outage, Restart, IInv, Types, infoVars, linkVars, bindVars, requestVars
<1>2. RowsKept
  BY <1>1, SameRows
<1>3. Types' /\ RowsInv' /\ HoldsInv'
  <2>1. LinkTypes' /\ steady' \in [Workers -> BOOLEAN]
    <3>1. CASE Outage
      <4>a. faults \in Nat
        BY <1>1 DEF LinkTypes
      <4>b. faults' = faults + 1 /\ up' = FALSE /\ steady' = [v \in Workers |-> FALSE]
        BY <3>1 DEF Outage
      <4>c. faults' \in Nat
        BY <4>a, <4>b
      <4>1. up' \in BOOLEAN /\ steady' \in [Workers -> BOOLEAN] /\ prepared' = prepared
        BY <1>1, <4>b
      <4>2. link' \in [Workers -> {"ok", "cut", "bad"}]
        BY <1>1, <3>1 DEF Outage, LinkTypes
      <4>3. bindLink' \in [Workers -> {"ok", "cut", "bad", "unprepared"}]
        BY <3>1 DEF Outage
      <4> QED
        BY <1>1, <4>c, <4>1, <4>2, <4>3 DEF LinkTypes
    <3>2. CASE Restart
      BY <1>1, <3>2 DEF Restart, LinkTypes, RequestTypes, linkVars, bindVars, requestVars
    <3> QED
      BY <3>1, <3>2
  <2> QED
    BY <1>1, <2>1
       DEF IInv, Types, RowTypes, RequestTypes, RowsInv, HoldsInv, Owns
<1>4. CASE Restart
  <2>1. UNCHANGED <<link, prepared, bindLink, steady, faults>> /\ up'
    BY <1>4 DEF Restart, linkVars, bindVars, requestVars
  <2>2. \A v \in Workers : WorkerInv(v)'
    BY <1>1, <1>2, <2>1, SameKeeps DEF Same
  <2> QED
    BY <1>3, <2>2 DEF IInv
<1>5. CASE Outage
  <2>1. ASSUME NEW v \in Workers PROVE WorkerInv(v)'
    <3>1. /\ ~steady'[v]
          /\ link'[v] = IF link[v] = "ok" THEN "cut" ELSE link[v]
          /\ bindLink'[v] = IF bindLink[v] = "bad" THEN "bad" ELSE "cut"
      BY <1>5 DEF Outage
    <3>2. Sender(v)'
      BY <1>1 DEF Sender, Owns, IInv, WorkerInv
    <3>3. Budget(v)' /\ Told(v)'
      BY <1>1, <3>1 DEF Budget, Told, IInv, WorkerInv
    <3> QED
      BY <3>2, <3>3 DEF WorkerInv
  <2> QED
    BY <1>3, <2>1 DEF IInv
<1> QED
  BY <1>4, <1>5

LEMMA StutterInv ==
  ASSUME IInv, UNCHANGED vars
  PROVE  IInv'
BY DEF vars, dbVars, linkVars, bindVars, requestVars, infoVars, IInv, Types, RowTypes,
       LinkTypes, RequestTypes, RowsInv, HoldsInv, Owns, WorkerInv, Sender, Budget, Spent,
       Told

LEMMA Invariance == Spec => []IInv
<1>1. IInv /\ [Next]_vars => IInv'
  BY SteppingInv, DatabaseInv, StutterInv DEF Next, Stepping
<1> QED
  BY <1>1, InitInv, PTL DEF Spec

-----------------------------------------------------------------------------
(* The theorems. *)

\* The variables of Sessions keep their types; and the user record of a thread,
\* which update() (session.cpp) only ever appends to, has the roles of one
\* session at most.
THEOREM TypeCorrectness == Spec => []TypeOK
<1>1. IInv => TypeOK
  <2> SUFFICES ASSUME IInv PROVE TypeOK
    OBVIOUS
  <2>1. RowTypes /\ LinkTypes /\ RequestTypes
    BY DEF IInv, Types
  <2>2. \A u \in Users : holds[u] \in 0..issued
    BY <2>1 DEF IInv, HoldsInv, Owns, RowTypes, RequestTypes
  <2>3. \A id \in DOMAIN rows : rows[id].user \in Users
    BY DEF IInv, RowsInv
  <2>4. \A w \in Workers : Len(roles[w]) <= 1
    BY DEF IInv, WorkerInv, Sender
  <2> QED
    BY <2>1, <2>2, <2>3, <2>4 DEF RowTypes, LinkTypes, RequestTypes, TypeOK
<1> QED
  BY <1>1, Invariance, PTL

\* A secure service (service_engine::run, mse.cpp) runs as the user whose client
\* sent the request, with that user's roles alone, whatever requests and faults
\* came before on its thread or run on the others.
THEOREM RunsForSender == Spec => []RunsAsSender
<1>1. IInv => RunsAsSender
  BY DEF IInv, WorkerInv, Sender, RunsAsSender
<1> QED
  BY <1>1, Invariance, PTL

\* Fewer faults than session::max_retries, of any kind and wherever they strike,
\* are hidden from a client while the database is up, except for a connection
\* on which PQprepare failed.
THEOREM FaultsHidden == Spec => []FaultsMasked
<1>1. IInv => FaultsMasked
  BY DEF IInv, WorkerInv, Told, FaultsMasked
<1> QED
  BY <1>1, Invariance, PTL
=============================================================================
