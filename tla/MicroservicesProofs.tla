------------------------ MODULE MicroservicesProofs ------------------------
(***************************************************************************)
(* Proofs about Microservices, for every set of services, fields, users,   *)
(* roles and faults: a service runs on the inputs of its request, for a    *)
(* permitted sender, and mails the recipient of that request; its answer   *)
(* is one document that tells what was done, and faults it can recover     *)
(* from do not show.                                                       *)
(***************************************************************************)
EXTENDS Microservices, SequenceTheorems, WellFoundedInduction, TLAPS

-----------------------------------------------------------------------------
(* The inductive invariant. *)

\* The part of the types that the rest needs; send_mail() has no effect on the
\* recipients in the thread's map.
Types ==
  /\ service \in Services
  /\ args \in [Params -> Sent]
  /\ values \in [Services -> [Params -> Sent]]
  /\ mailTo = [s \in Services |-> Config[s].mail]

\* From the session check on t_user_info names the sender of a secure service,
\* and nobody otherwise.
LoginInv ==
  /\ pc = "session" => Entry.secure
  /\ pc \in {"validate", "query", "recover", "mail"} =>
       IF Entry.secure THEN login = from /\ from # Nobody ELSE login = Nobody

\* The roles were checked before the service was entered.
RolesInv == Running => ~Denied

\* No mail is sent before the last step of run().
MailInv == pc # "reply" => mailed = NoMail

IInv ==
  /\ Types
  /\ LoginInv
  /\ RolesInv
  /\ OwnInputs
  /\ MailInv
  /\ MailToRecipient

-----------------------------------------------------------------------------
LEMMA EntryType ==
  ASSUME Types
  PROVE  /\ Entry \in ServiceRecords
         /\ Entry.params \in Seq([name : Params, required : BOOLEAN, typed : BOOLEAN])
         /\ Entry.mail \in {"none", "$usermail"} \cup FieldNames(Entry.params)
         /\ Entry.secure \in BOOLEAN
BY ServicesAssumption DEF Types, Entry, ServiceRecords

LEMMA NoServiceType == NoService \in Services
BY ServicesAssumption DEF NoService

LEMMA InitInv == Init => IInv
<1>1. SUFFICES ASSUME Init PROVE IInv
  OBVIOUS
<1>2. Types
  BY <1>1, NoServiceType DEF Init, Types, Sent
<1>3. LoginInv /\ RolesInv /\ OwnInputs /\ MailInv /\ MailToRecipient
  BY <1>1 DEF Init, LoginInv, RolesInv, OwnInputs, Running, MailInv, MailToRecipient
<1>4. QED
  BY <1>2, <1>3 DEF IInv

\* The steps that leave alone what the invariant is about, except pc.
Quiet ==
  /\ UNCHANGED <<engineVars, requestVars, mailed>>
  /\ \/ pc' = pc
     \/ pc \in {"session", "validate"} /\ pc' = "reply"
     \/ Running /\ pc' \in {"query", "recover", "mail", "reply"} /\ pc' # "idle"

LEMMA QuietSteps ==
  ASSUME IInv,
         \/ RefuseSession \/ DenyAccess \/ ValidatorAnswers \/ StatementAnswers
         \/ NextStatementAnswers \/ Rejected \/ CallFails \/ ResultLost
         \/ Retry \/ GiveUp \/ Break \/ Outage \/ Restart \/ UNCHANGED vars
  PROVE  Quiet
<1> USE DEF Quiet, Running, Goto, Answer, historyVars, requestVars
<1>1. CASE RefuseSession \/ DenyAccess
  BY <1>1 DEF RefuseSession, DenyAccess
<1>2. CASE ValidatorAnswers \/ StatementAnswers \/ NextStatementAnswers
  BY <1>2 DEF ValidatorAnswers, StatementAnswers, NextStatementAnswers
<1>3. CASE Rejected \/ GiveUp
  BY <1>3 DEF Rejected, GiveUp, Fail
<1>4. CASE CallFails \/ ResultLost \/ Retry
  BY <1>4 DEF CallFails, ResultLost, Retry
<1>5. CASE Break \/ Outage \/ Restart \/ UNCHANGED vars
  BY <1>5 DEF Break, Outage, Restart, vars
<1>6. QED
  BY <1>1, <1>2, <1>3, <1>4, <1>5

LEMMA QuietKeepsInv == ASSUME IInv, Quiet PROVE IInv'
<1> USE DEF IInv, Quiet, engineVars, requestVars
<1>1. Types'
  BY DEF Types
<1>2. LoginInv'
  BY DEF LoginInv, Entry, Running
<1>3. RolesInv'
  BY DEF RolesInv, Denied, Entry, Running
<1>4. OwnInputs'
  BY DEF OwnInputs, BadField, Entry, Running
<1>5. MailInv'
  BY DEF MailInv, Running
<1>6. MailToRecipient'
  BY DEF MailToRecipient, Entry
<1>7. QED
  BY <1>1, <1>2, <1>3, <1>4, <1>5, <1>6

LEMMA StoreAll ==
  ASSUME Types, Store(Len(Entry.params))
  PROVE  /\ values' \in [Services -> [Params -> Sent]]
         /\ \A i \in DOMAIN Entry.params :
              values'[service][Entry.params[i].name] = args[Entry.params[i].name]
<1>1. Entry.params \in Seq([name : Params, required : BOOLEAN, typed : BOOLEAN])
  BY EntryType
<1>2. values' \in [Services -> [Params -> Sent]]
  BY DEF Types, Store
<1>3. ASSUME NEW i \in DOMAIN Entry.params
      PROVE  values'[service][Entry.params[i].name] = args[Entry.params[i].name]
  <2>1. Entry.params[i].name \in Params /\ i \in 1..Len(Entry.params)
    <3>1. Entry.params[i] \in [name : Params, required : BOOLEAN, typed : BOOLEAN]
      BY <1>1, ElementOfSeq, LenProperties
    <3>2. QED
      BY <1>1, <3>1, LenProperties
  <2>2. QED
    BY <2>1 DEF Types, Store
<1>4. QED
  BY <1>2, <1>3

LEMMA StepInv == ASSUME IInv, [Next]_vars PROVE IInv'
<1>1. ASSUME NEW u \in Users \cup {Nobody}, NEW s \in Services,
             NEW a \in [Params -> Sent], Receive(u, s, a)
      PROVE  IInv'
  <2> USE <1>1 DEF IInv, Receive, Goto
  <2>1. Types'
    BY DEF Types
  <2>2. LoginInv'
    BY DEF LoginInv, Entry
  <2>3. RolesInv' /\ OwnInputs'
    BY DEF RolesInv, OwnInputs, Running
  <2>4. MailInv' /\ MailToRecipient'
    BY DEF MailInv, MailToRecipient
  <2>5. QED
    BY <2>1, <2>2, <2>3, <2>4
<1>2. ASSUME NEW u \in Users \cup {Nobody}, ReceiveUnknown(u) PROVE IInv'
  <2> USE <1>2 DEF IInv, ReceiveUnknown, Goto, Answer
  <2>1. Types'
    BY DEF Types
  <2>2. LoginInv' /\ RolesInv' /\ OwnInputs'
    BY DEF LoginInv, RolesInv, OwnInputs, Running
  <2>3. MailInv' /\ MailToRecipient'
    BY DEF MailInv, MailToRecipient, historyVars
  <2>4. QED
    BY <2>1, <2>2, <2>3
<1>3. CASE FindSession
  <2> USE <1>3 DEF IInv, FindSession, Goto, requestVars, historyVars
  <2>1. Types'
    BY DEF Types
  <2>2. LoginInv' /\ RolesInv' /\ OwnInputs'
    BY DEF LoginInv, RolesInv, OwnInputs, Running, Entry
  <2>3. MailInv' /\ MailToRecipient'
    BY DEF MailInv, MailToRecipient
  <2>4. QED
    BY <2>1, <2>2, <2>3
<1>4. CASE RefuseInputs
  <2> USE <1>4 DEF IInv, RefuseInputs, Answer, Goto, requestVars, historyVars
  <2>1. Types'
    BY DEF Types, Store
  <2>2. LoginInv' /\ RolesInv' /\ OwnInputs'
    BY DEF LoginInv, RolesInv, OwnInputs, Running
  <2>3. MailInv' /\ MailToRecipient'
    BY DEF MailInv, MailToRecipient
  <2>4. QED
    BY <2>1, <2>2, <2>3
<1>5. CASE AcceptInputs
  <2> USE <1>5 DEF IInv, AcceptInputs, Goto, requestVars, historyVars
  <2>1. Types'
    BY StoreAll DEF Types
  <2>2. LoginInv'
    BY DEF LoginInv, Entry
  <2>3. RolesInv'
    BY DEF RolesInv, Denied, Entry
  <2>4. OwnInputs'
    BY StoreAll DEF OwnInputs, BadField, Entry
  <2>5. MailInv' /\ MailToRecipient'
    BY DEF MailInv, MailToRecipient, Entry
  <2>6. QED
    BY <2>1, <2>2, <2>3, <2>4, <2>5
<1>6. CASE SendMail
  <2> USE <1>6 DEF IInv, SendMail, Answer, Goto, requestVars, engineVars
  <2>1. Types'
    BY DEF Types
  <2>2. LoginInv' /\ RolesInv' /\ OwnInputs' /\ MailInv'
    BY DEF LoginInv, RolesInv, OwnInputs, Running, MailInv
  <2>3. MailToRecipient'
    <3>1. mailTo[service] = Entry.mail /\ mailed = NoMail
      BY DEF Types, Entry, MailInv
    <3>2. CASE Entry.mail = "none"
      BY <3>1, <3>2 DEF MailToRecipient
    <3>3. CASE Entry.mail = "$usermail"
      BY <3>1, <3>3 DEF MailToRecipient, LoginInv, Entry
    <3>4. CASE Entry.mail \notin {"none", "$usermail"}
      <4>1. mailed' = values[service][Entry.mail]
        BY <3>1, <3>4
      <4>2. PICK i \in DOMAIN Entry.params : Entry.mail = Entry.params[i].name
        BY <3>4, EntryType DEF FieldNames
      <4>3. values[service][Entry.mail] = args[Entry.mail]
        BY <4>2 DEF OwnInputs, Running
      <4>4. Entry' = Entry /\ args' = args
        BY DEF Entry
      <4>5. QED
        BY <3>4, <4>1, <4>3, <4>4 DEF MailToRecipient
    <3>5. QED
      BY <3>2, <3>3, <3>4
  <2>4. QED
    BY <2>1, <2>2, <2>3
<1>7. CASE Reply
  <2> USE <1>7 DEF IInv, Reply, Goto, engineVars
  <2>1. Types'
    BY NoServiceType DEF Types, Sent
  <2>2. LoginInv' /\ RolesInv' /\ OwnInputs'
    BY DEF LoginInv, RolesInv, OwnInputs, Running
  <2>3. MailInv' /\ MailToRecipient'
    BY DEF MailInv, MailToRecipient
  <2>4. QED
    BY <2>1, <2>2, <2>3
<1>8. CASE \/ RefuseSession \/ DenyAccess \/ ValidatorAnswers \/ StatementAnswers
           \/ NextStatementAnswers \/ Rejected \/ CallFails \/ ResultLost
           \/ Retry \/ GiveUp \/ Break \/ Outage \/ Restart \/ UNCHANGED vars
  BY <1>8, QuietSteps, QuietKeepsInv
<1>9. QED
  BY <1>1, <1>2, <1>3, <1>4, <1>5, <1>6, <1>7, <1>8 DEF Next, Worker

LEMMA InvHolds == Spec => []IInv
<1>1. Init => IInv
  BY InitInv
<1>2. IInv /\ [Next]_vars => IInv'
  BY StepInv
<1>3. QED
  BY <1>1, <1>2, PTL DEF Spec

LEMMA InvPermits == IInv => Permitted
BY DEF IInv, Permitted, LoginInv, RolesInv, Denied, Running

-----------------------------------------------------------------------------
(* The results. *)

\* A service, its validator, the audit record and the mail see the accepted
\* values of their own request (validateRequestParams, mse.cpp:446-520).
THEOREM InputsAreOwn == Spec => []OwnInputs
<1>1. IInv => OwnInputs
  BY DEF IInv
<1>2. QED
  BY <1>1, InvHolds, PTL

\* A secure service runs only for its logged in sender, with a role it names
\* (run and validateInputs, mse.cpp:532-657).
THEOREM OnlyPermitted == Spec => []Permitted
BY InvHolds, InvPermits, PTL

\* Mail goes to the sender or to the recipient that the request names
\* (send_mail, mse.cpp:565-621).
THEOREM MailReachesRecipient == Spec => []MailToRecipient
<1>1. IInv => MailToRecipient
  BY DEF IInv
<1>2. QED
  BY <1>1, InvHolds, PTL

\* Where the code's cut of a text is right: up to two statements, each is
\* executed and its result is the one returned (get_json, sql.cpp:173-187).
THEOREM TwoStatementsAreSplit ==
  ASSUME NEW sql \in SqlTexts, Len(sql.ends) <= 1, NEW k \in 1..Pieces(sql)
  PROVE  Accepted(sql, Cut(sql, k)) /\ Result(sql, Cut(sql, k)) = k
<1>1. sql.size \in Nat /\ sql.ends \in Seq(Nat)
  BY DEF SqlTexts
<1>2. CASE sql.ends = <<>>
  <2>1. Len(sql.ends) = 0
    BY <1>2
  <2>2. Pieces(sql) = 1 /\ k = 1 /\ sql.size > 0
    BY <1>1, <2>1 DEF Pieces, Start
  <2>3. Cut(sql, 1) = [first |-> 0, last |-> sql.size]
        /\ Statement(sql, 1) = [first |-> 0, last |-> sql.size]
    BY <1>1, <2>1 DEF Cut, Statement, Start
  <2>4. Within(sql, Cut(sql, 1)) = {1} /\ ~CutShort(sql, Cut(sql, 1))
    BY <1>1, <2>2, <2>3 DEF Within, CutShort
  <2>5. QED
    BY <2>2, <2>4 DEF Accepted, Result, Max
<1>3. CASE sql.ends # <<>>
  <2> DEFINE e == sql.ends[1]
  <2>1. Len(sql.ends) = 1 /\ e \in Nat /\ 0 < e /\ e < sql.size
    <3>0. Len(sql.ends) \in Nat /\ (Len(sql.ends) = 0 <=> sql.ends = <<>>)
      BY <1>1, LenProperties, EmptySeq
    <3>1. Len(sql.ends) = 1
      <4> DEFINE n == Len(sql.ends)
      <4>1. n \in Nat /\ n # 0 /\ n <= 1
        BY <1>3, <3>0
      <4> HIDE DEF n
      <4>2. n = 1
        BY <4>1
      <4>3. QED
        BY <4>2 DEF n
    <3>2. 1 \in DOMAIN sql.ends
      BY <1>1, <3>1
    <3>3. QED
      BY <1>1, <3>1, <3>2 DEF SqlTexts
  <2>2. /\ Start(sql, 1) = 0 /\ Start(sql, 2) = e + 1
        /\ Statement(sql, 1) = [first |-> 0, last |-> e]
        /\ Statement(sql, 2) = [first |-> e + 1, last |-> sql.size]
        /\ Cut(sql, 1) = [first |-> 0, last |-> e]
        /\ Cut(sql, 2) = [first |-> e + 1, last |-> sql.size]
    BY <1>1, <2>1 DEF Start, Statement, Cut
  <2>3. /\ Pieces(sql) \in {1, 2}
        /\ Pieces(sql) = 2 => e + 1 < sql.size
    BY <1>1, <2>1, <2>2 DEF Pieces
  <2>4. CASE k = 1
    <3>1. Within(sql, Cut(sql, 1)) = {1}
      BY <1>1, <2>1, <2>2, <2>3 DEF Within
    <3>2. ~CutShort(sql, Cut(sql, 1))
      BY <1>1, <2>1, <2>2, <2>3 DEF CutShort
    <3>3. QED
      BY <2>4, <3>1, <3>2 DEF Accepted, Result, Max
  <2>5. CASE k = 2
    <3>1. Pieces(sql) = 2
      BY <2>3, <2>5
    <3>2. Within(sql, Cut(sql, 2)) = {2}
      BY <1>1, <2>1, <2>2, <3>1 DEF Within
    <3>3. ~CutShort(sql, Cut(sql, 2))
      BY <1>1, <2>1, <2>2, <2>3, <3>1 DEF CutShort
    <3>4. QED
      BY <2>5, <3>2, <3>3 DEF Accepted, Result, Max
  <2>6. QED
    BY <2>3, <2>4, <2>5
<1>4. QED
  BY <1>2, <1>3
-----------------------------------------------------------------------------
(* The second inductive invariant: the answer and the modification.         *)

\* What the JSON buffer is made of.
Chunks ==
  {Piece(text) : text \in {"open", "close", "ok", "document", "error",
                           "db error", "denied", "invalid"}}
  \cup ({"part"} \X Nat \X Nat)

AnswerTypes ==
  /\ login \in Users \cup {Nobody} /\ from \in Users \cup {Nobody}
  /\ pc \in {"idle", "session", "validate", "query", "recover", "mail", "reply"}
  /\ stmt \in 0..Pieces(Entry.sql)
  /\ retries \in 0..MaxRetries
  /\ link \in {"ok", "cut", "bad"}
  /\ up \in BOOLEAN /\ steady \in BOOLEAN /\ refused \in BOOLEAN
  /\ faults \in 0..MaxFaults
  /\ applied \in Nat /\ lost \in Nat
  /\ buffer \in Seq(Chunks)

\* The JSON buffer holds no more than the longest answer.
BufferInv == \E s \in Services : Len(buffer) <= Pieces(Config[s].sql) + 2

\* Every retry was caused by a fault, as long as the database is up.
FaultInv ==
  /\ lost <= faults
  /\ applied <= 1 + lost
  /\ steady => up
  /\ steady /\ pc = "query" => retries <= faults + 1
  /\ steady /\ (pc = "recover" \/ (pc = "query" /\ link # "ok")) =>
       retries <= faults

\* Nothing has happened before the service is entered.
EarlyInv ==
  pc \in {"idle", "session", "validate"} =>
    stmt = 0 /\ retries = 0 /\ applied = 0 /\ lost = 0 /\ ~refused

\* The texts of get_json()'s several statements are where its cut is right.
CutsFit ==
  \A s \in Services :
    Config[s].func = "dbgetm" => Len(Config[s].sql.ends) <= 1

\* A dbgetm answer up to its n-th result.
Collected(answer, n) ==
  /\ answer[1] = Piece("open")
  /\ \A k \in 1..n : answer[k + 1] \in {"part"} \X {k} \X Nat
  /\ CutsFit => \A k \in 1..n : answer[k + 1] = Part(k, k)

\* While a statement is executed the buffer holds the results of those before
\* it, and a modification has been applied only where its result was lost.
QueryInv ==
  pc \in {"query", "recover"} =>
    /\ ~refused
    /\ applied <= lost
    /\ stmt = 0 \/ Entry.func # "dbexec" => applied = 0
    /\ Entry.func # "dbgetm" => stmt <= 1
    /\ stmt = 0 \/ Entry.func # "dbgetm" => buffer = <<>>
    /\ stmt # 0 /\ Entry.func = "dbgetm" =>
         Len(buffer) = stmt /\ Collected(buffer, stmt - 1)

\* How a service may end: done, with all its results, refused by the database
\* with nothing but the error, or cut short by an outage.
Done ==
  \/ Entry.func = "dbexec" /\ buffer = <<Piece("ok")>> /\ applied >= 1
  \/ Entry.func \in {"dbget", "dbget_json"} /\ buffer = <<Piece("document")>>
Whole ==
  /\ Entry.func = "dbgetm"
  /\ Len(buffer) = Pieces(Entry.sql) + 2
  /\ Collected(buffer, Pieces(Entry.sql))
  /\ buffer[Len(buffer)] = Piece("close")
Failed ==
  /\ buffer = <<ErrorText>> /\ applied <= lost
  /\ refused \/ ~CutsFit \/ ~Recoverable
Interrupted ==
  /\ Entry.func = "dbgetm" /\ ~Recoverable
  /\ Len(buffer) \in 2..Pieces(Entry.sql) + 1 /\ buffer[1] = Piece("open")
Outcome == Done \/ Whole \/ Failed \/ Interrupted

ReplyInv ==
  /\ pc = "mail" => Outcome
  /\ pc = "reply" =>
       \/ reply = "buffer" /\ Outcome
       \/ /\ reply = "buffer" /\ applied = 0
          /\ buffer \in {<<Piece("denied")>>, <<Piece("invalid")>>}
       \/ reply \in {"401", "no such path"} /\ applied = 0
       \/ /\ reply = "system error" /\ applied = 0
          /\ refused \/ ~Recoverable

AInv ==
  /\ AnswerTypes
  /\ BufferInv
  /\ FaultInv
  /\ EarlyInv
  /\ QueryInv
  /\ ReplyInv
-----------------------------------------------------------------------------
(* The operators of the answer. *)

\* A nonempty set of positions has a greatest one.
LEMMA MaxOfRange ==
  ASSUME NEW n \in Nat, NEW S \in SUBSET (1..n), S # {}
  PROVE  Max(S) \in S
<1> DEFINE R == {pair \in Nat \X Nat : pair[1] < pair[2]}
           T == {n - x : x \in S}
<1>1. PICK x0 \in S : TRUE
  OBVIOUS
<1>2. T \subseteq Nat /\ n - x0 \in T
  OBVIOUS
<1>3. IsWellFoundedOn(R, Nat)
  BY NatLessThanWellFounded DEF OpToRel
<1> HIDE DEF R
<1>4. PICK t \in T : \A y \in T : ~(<<y, t>> \in R)
  BY <1>2, <1>3, WFMin
<1> USE DEF R
<1>5. PICK x \in S : t = n - x
  BY <1>4
<1>6. ASSUME NEW y \in S PROVE x >= y
  <2>1. n - y \in T /\ ~(<<n - y, t>> \in R)
    BY <1>4
  <2>2. n - y \in Nat /\ t \in Nat
    OBVIOUS
  <2>3. ~(n - y < t)
    BY <2>1, <2>2
  <2>4. QED
    BY <2>3, <1>5
<1>7. QED
  BY <1>6 DEF Max

LEMMA EndsType ==
  ASSUME NEW sql \in SqlTexts
  PROVE  /\ sql.size \in Nat \ {0} /\ Len(sql.ends) \in Nat
         /\ \A k \in 1..Len(sql.ends) : sql.ends[k] \in Nat /\ sql.ends[k] < sql.size
<1>1. sql.size \in Nat \ {0} /\ sql.ends \in Seq(Nat)
  BY DEF SqlTexts
<1>2. Len(sql.ends) \in Nat /\ DOMAIN sql.ends = 1..Len(sql.ends)
  BY <1>1, LenProperties
<1>3. \A k \in DOMAIN sql.ends : sql.ends[k] < sql.size
  BY DEF SqlTexts
<1>4. QED
  BY <1>1, <1>2, <1>3, ElementOfSeq

LEMMA PiecesType ==
  ASSUME NEW sql \in SqlTexts
  PROVE  Pieces(sql) \in Nat \ {0}
<1> DEFINE n == Len(sql.ends)
<1>1. n \in Nat /\ sql.size \in Nat \ {0}
  BY EndsType
<1>2. CASE n = 0
  BY <1>1, <1>2 DEF Pieces, Start
<1>3. CASE n # 0
  BY <1>1, <1>3 DEF Pieces
<1>4. QED
  BY <1>2, <1>3

\* A text that is given to PQexec as a whole is accepted.
LEMMA WholeText ==
  ASSUME NEW sql \in SqlTexts
  PROVE  Accepted(sql, [first |-> 0, last |-> sql.size])
<1> DEFINE piece == [first |-> 0, last |-> sql.size]
<1>1. Pieces(sql) \in Nat \ {0}
  BY PiecesType
<1>2. ASSUME NEW k \in 1..Pieces(sql)
      PROVE  Statement(sql, k).last <= sql.size /\ Statement(sql, k).last \in Nat
  <2>1. CASE k <= Len(sql.ends)
    BY <2>1, <1>1, EndsType DEF Statement
  <2>2. CASE ~(k <= Len(sql.ends))
    BY <2>2, <1>1, EndsType DEF Statement
  <2>3. QED
    BY <2>1, <2>2
<1>3. ~CutShort(sql, piece)
  <2>1. SUFFICES ASSUME NEW k \in 1..Pieces(sql), sql.size < Statement(sql, k).last
                 PROVE  FALSE
    BY DEF CutShort
  <2>2. QED
    BY <1>2, <2>1, EndsType
<1>4. 1 \in Within(sql, piece)
  <2>1. Statement(sql, 1).first = 0
    BY DEF Statement, Start
  <2>2. 1 \in 1..Pieces(sql)
    BY <1>1
  <2>3. QED
    BY <1>2, <2>1, <2>2 DEF Within
<1>5. QED
  BY <1>3, <1>4 DEF Accepted

LEMMA ResultType ==
  ASSUME NEW sql \in SqlTexts, NEW piece, Accepted(sql, piece)
  PROVE  Result(sql, piece) \in Nat
<1>1. Within(sql, piece) \in SUBSET (1..Pieces(sql)) /\ Within(sql, piece) # {}
  BY DEF Within, Accepted
<1>2. Pieces(sql) \in Nat
  BY PiecesType
<1>3. Max(Within(sql, piece)) \in Within(sql, piece)
  BY <1>1, <1>2, MaxOfRange
<1>4. QED
  BY <1>1, <1>2, <1>3 DEF Result

LEMMA PiecesDiffer == ASSUME NEW t, NEW u, t # u PROVE Piece(t) # Piece(u)
BY DEF Piece

LEMMA PartIsNoPiece ==
  ASSUME NEW t, NEW k, NEW x \in {"part"} \X {k} \X Nat PROVE x # Piece(t)
BY DEF Piece

LEMMA ChunkTypes ==
  /\ \A text \in {"open", "close", "ok", "document", "error", "db error",
                  "denied", "invalid"} : Piece(text) \in Chunks
  /\ \A k \in Nat : \A r \in Nat : Part(k, r) \in Chunks
<1>1. ASSUME NEW text \in {"open", "close", "ok", "document", "error",
                          "db error", "denied", "invalid"}
      PROVE  Piece(text) \in Chunks
  BY DEF Chunks
<1>2. ASSUME NEW k \in Nat, NEW r \in Nat
      PROVE  Part(k, r) \in Chunks
  BY DEF Chunks, Part
<1>3. QED
  BY <1>1, <1>2

LEMMA Appended ==
  ASSUME NEW s \in Seq(Chunks), NEW m \in Nat, Len(s) = m, NEW e \in Chunks
  PROVE  /\ Append(s, e) \in Seq(Chunks) /\ Len(Append(s, e)) = m + 1
         /\ Append(s, e)[m + 1] = e
         /\ \A i \in 1..m : Append(s, e)[i] = s[i]
BY AppendProperties

\* The next result goes under its own tag.
LEMMA Extend ==
  ASSUME NEW b \in Seq(Chunks), NEW n \in Nat, Len(b) = n + 1, Collected(b, n),
         NEW r \in Nat, CutsFit => r = n + 1
  PROVE  LET c == Append(b, Part(n + 1, r))
         IN  c \in Seq(Chunks) /\ Len(c) = n + 2 /\ Collected(c, n + 1)
<1> DEFINE c == Append(b, Part(n + 1, r))
<1>1. Part(n + 1, r) \in Chunks
  <2>1. n + 1 \in Nat
    OBVIOUS
  <2>2. QED
    BY <2>1, ChunkTypes
<1>2. /\ c \in Seq(Chunks) /\ Len(c) = n + 2
      /\ \A i \in 1..n + 1 : c[i] = b[i]
      /\ c[n + 2] = Part(n + 1, r)
  BY <1>1, AppendProperties
<1>3. Part(n + 1, r) \in {"part"} \X {n + 1} \X Nat
  BY DEF Part
<1> HIDE DEF c
<1>4. c[1] = Piece("open")
  BY <1>2 DEF Collected
<1>5. ASSUME NEW k \in 1..n + 1
      PROVE  /\ c[k + 1] \in {"part"} \X {k} \X Nat
             /\ CutsFit => c[k + 1] = Part(k, k)
  <2>1. CASE k = n + 1
    <3>1. c[k + 1] = Part(n + 1, r)
      BY <1>2, <2>1
    <3>2. QED
      BY <1>3, <2>1, <3>1
  <2>2. CASE k # n + 1
    <3>1. k \in 1..n /\ k + 1 \in 1..n + 1
      BY <2>2
    <3>2. c[k + 1] = b[k + 1]
      BY <1>2, <3>1
    <3>3. QED
      BY <3>1, <3>2 DEF Collected
  <2>3. QED
    BY <2>1, <2>2
<1>6. Collected(c, n + 1)
  BY <1>4, <1>5 DEF Collected
<1>7. QED
  BY <1>2, <1>6 DEF c

LEMMA CloseUp ==
  ASSUME NEW b \in Seq(Chunks), NEW n \in Nat, Len(b) = n + 1, Collected(b, n),
         NEW r \in Nat, CutsFit => r = n + 1
  PROVE  LET c == b \o <<Part(n + 1, r), Piece("close")>>
         IN  /\ c \in Seq(Chunks) /\ Len(c) = n + 3 /\ Collected(c, n + 1)
             /\ c[n + 3] = Piece("close")
<1> DEFINE d == Append(b, Part(n + 1, r))
           c == b \o <<Part(n + 1, r), Piece("close")>>
<1>1. d \in Seq(Chunks) /\ Len(d) = n + 2 /\ Collected(d, n + 1)
  BY Extend
<1>2. Piece("close") \in Chunks /\ Part(n + 1, r) \in Chunks
  <2>1. n + 1 \in Nat
    OBVIOUS
  <2>2. QED
    BY <2>1, ChunkTypes
<1>3. c = Append(d, Piece("close"))
  BY <1>2
<1> HIDE DEF c, d
<1>4. /\ c \in Seq(Chunks) /\ Len(c) = n + 3 /\ c[n + 3] = Piece("close")
      /\ \A i \in 1..n + 2 : c[i] = d[i]
  <2>1. n + 2 \in Nat /\ (n + 2) + 1 = n + 3
    OBVIOUS
  <2>2. /\ c \in Seq(Chunks) /\ Len(c) = (n + 2) + 1 /\ c[(n + 2) + 1] = Piece("close")
        /\ \A i \in 1..n + 2 : c[i] = d[i]
    BY <1>1, <1>2, <1>3, <2>1, Appended
  <2>3. QED
    BY <2>1, <2>2
<1>5. c[1] = d[1] /\ \A k \in 1..n + 1 : c[k + 1] = d[k + 1]
  BY <1>4
<1>6. Collected(c, n + 1)
  BY <1>1, <1>5 DEF Collected
<1>7. QED
  BY <1>4, <1>6 DEF c
-----------------------------------------------------------------------------
(* The second invariant is kept. *)

LEMMA SqlType ==
  ASSUME Types
  PROVE  /\ Entry.sql \in SqlTexts /\ Pieces(Entry.sql) \in Nat \ {0}
         /\ Entry.func \in {"dbget_json", "dbget", "dbgetm", "dbexec"}
<1>1. Entry \in ServiceRecords
  BY EntryType
<1>2. Entry.sql \in SqlTexts /\ Entry.func \in {"dbget_json", "dbget", "dbgetm", "dbexec"}
  BY <1>1 DEF ServiceRecords
<1>3. QED
  BY <1>2, PiecesType

\* A short buffer is no longer than any answer.
LEMMA ShortBuffer ==
  ASSUME Types, NEW n \in Nat, n <= Pieces(Entry.sql) + 2
  PROVE  \E s \in Services : n <= Pieces(Config[s].sql) + 2
BY DEF Types, Entry

\* More faults do not make a request recoverable.
LEMMA Fades ==
  ASSUME AnswerTypes, AnswerTypes', faults' >= faults, steady' => steady
  PROVE  Recoverable' => Recoverable
BY BoundsAssumption DEF AnswerTypes, Recoverable

LEMMA OutcomeStays ==
  ASSUME Outcome, UNCHANGED <<service, buffer, applied, lost, refused>>,
         Recoverable' => Recoverable
  PROVE  Outcome'
<1>1. Entry' = Entry /\ ErrorText' = ErrorText
  BY DEF Entry, ErrorText
<1>2. Done => Done'
  BY <1>1 DEF Done
<1>3. Whole => Whole'
  BY <1>1 DEF Whole, Collected
<1>4. Failed => Failed'
  BY <1>1 DEF Failed
<1>5. Interrupted => Interrupted'
  BY <1>1 DEF Interrupted
<1>6. QED
  BY <1>2, <1>3, <1>4, <1>5 DEF Outcome

\* The parts of the invariant that look at nothing the step changes.
LEMMA QueryStays ==
  ASSUME QueryInv, pc' \in {"query", "recover"} => pc \in {"query", "recover"},
         UNCHANGED <<service, stmt, buffer, refused>>,
         applied' = applied, lost' >= lost, lost \in Nat, lost' \in Nat, applied \in Nat
  PROVE  QueryInv'
<1>1. Entry' = Entry
  BY DEF Entry
<1>2. applied <= lost => applied' <= lost'
  OBVIOUS
<1>3. Collected(buffer, stmt - 1)' = Collected(buffer, stmt - 1)
  BY DEF Collected
<1>4. QED
  BY <1>1, <1>2, <1>3 DEF QueryInv

LEMMA AInitInv == ASSUME Init PROVE AInv
<1>1. Types
  BY InitInv DEF IInv
<1>2. Pieces(Entry.sql) \in Nat \ {0}
  BY <1>1, SqlType
<1>3. AnswerTypes
  <2>1. link \in {"ok", "cut", "bad"} /\ up \in BOOLEAN
    BY DEF Init
  <2>2. stmt \in 0..Pieces(Entry.sql) /\ retries \in 0..MaxRetries
        /\ faults \in 0..MaxFaults
    BY <1>2, BoundsAssumption DEF Init
  <2>3. QED
    BY <2>1, <2>2, EmptySeq DEF Init, AnswerTypes
<1>4. BufferInv
  <2>1. Len(buffer) = 0
    BY DEF Init
  <2>2. QED
    BY <1>1, <1>2, <2>1, ShortBuffer DEF BufferInv
<1>5. FaultInv /\ EarlyInv /\ QueryInv /\ ReplyInv
  BY DEF Init, FaultInv, EarlyInv, QueryInv, ReplyInv
<1>6. QED
  BY <1>3, <1>4, <1>5 DEF AInv

\* The database and the stuttering step.
LEMMA DatabaseSteps ==
  ASSUME IInv, AInv, Break \/ Outage \/ Restart \/ UNCHANGED vars
  PROVE  AInv'
<1> USE DEF AInv, historyVars, requestVars, engineVars, dbVars
<1>1. /\ UNCHANGED <<pc, login, from, service, stmt, retries, buffer, reply,
                     applied, lost, refused>>
      /\ steady' => steady
      /\ faults' = faults \/ (faults < MaxFaults /\ faults' = faults + 1)
      /\ link' \in {"ok", "cut", "bad"}
  <2>0. link \in {"ok", "cut", "bad"} /\ steady \in BOOLEAN
    BY DEF AnswerTypes
  <2>1. CASE Break
    BY <2>0, <2>1 DEF Break
  <2>2. CASE Outage
    BY <2>0, <2>2 DEF Outage
  <2>3. CASE Restart
    BY <2>0, <2>3 DEF Restart
  <2>4. CASE UNCHANGED vars
    BY <2>0, <2>4 DEF vars
  <2>5. QED
    BY <2>1, <2>2, <2>3, <2>4
<1>2. Entry' = Entry
  BY <1>1 DEF Entry
<1>3. AnswerTypes'
  <2>1. up' \in BOOLEAN /\ steady' \in BOOLEAN /\ refused' \in BOOLEAN
    BY DEF Break, Outage, Restart, vars, AnswerTypes
  <2>2. faults' \in 0..MaxFaults
    BY <1>1, BoundsAssumption DEF AnswerTypes
  <2>3. QED
    BY <1>1, <1>2, <2>1, <2>2 DEF AnswerTypes
<1>4. faults \in Nat /\ faults' \in Nat /\ faults' >= faults
  BY <1>1, BoundsAssumption DEF AnswerTypes
<1>5. Recoverable' => Recoverable
  BY <1>1, <1>3, <1>4, Fades
<1>6. BufferInv' /\ EarlyInv'
  BY <1>1 DEF BufferInv, EarlyInv
<1>7. FaultInv'
  <2>1. lost \in Nat /\ applied \in Nat /\ retries \in Nat
    BY DEF AnswerTypes
  <2>2. lost' <= faults' /\ applied' <= 1 + lost'
    BY <1>1, <1>4, <2>1 DEF FaultInv
  <2>3. steady' => up'
    <3>1. steady => up
      BY DEF FaultInv
    <3>2. CASE Break
      BY <3>1, <3>2 DEF Break
    <3>3. CASE Outage
      BY <3>3 DEF Outage
    <3>4. CASE Restart
      BY <3>4 DEF Restart
    <3>5. CASE UNCHANGED vars
      BY <3>1, <3>5 DEF vars
    <3>6. QED
      BY <3>2, <3>3, <3>4, <3>5
  <2>4. steady' => (link' = link \/ (link' # "ok" /\ faults' = faults + 1))
    BY DEF Break, Outage, Restart, vars
  <2>5. ASSUME steady', pc' = "query" PROVE retries' <= faults' + 1
    <3>1. steady /\ pc = "query" /\ retries' = retries
      BY <1>1, <2>5
    <3>2. retries <= faults + 1
      BY <3>1 DEF FaultInv
    <3> DEFINE f == faults'
    <3>3. f \in Nat /\ faults <= f
      BY <1>4
    <3> HIDE DEF f
    <3>4. retries <= f + 1
      BY <3>2, <3>3, <1>4, <2>1
    <3>5. QED
      BY <3>1, <3>4 DEF f
  <2>6. ASSUME steady', pc' = "recover" \/ (pc' = "query" /\ link' # "ok")
        PROVE  retries' <= faults'
    <3>1. steady /\ retries' = retries /\ retries <= faults + 1
      BY <1>1, <1>4, <2>1, <2>6 DEF FaultInv
    <3>2. CASE link' = link
      BY <1>1, <1>4, <2>1, <2>6, <3>1, <3>2 DEF FaultInv
    <3>3. CASE faults' = faults + 1
      BY <3>1, <3>3
    <3>4. QED
      BY <2>4, <2>6, <3>2, <3>3
  <2>7. QED
    BY <2>2, <2>3, <2>5, <2>6 DEF FaultInv
<1>8. QueryInv'
  BY <1>1, QueryStays DEF AnswerTypes
<1>9. ReplyInv'
  <2>1. Outcome => Outcome'
    BY <1>1, <1>5, OutcomeStays
  <2>2. QED
    BY <1>1, <1>5, <2>1 DEF ReplyInv
<1>10. QED
  BY <1>3, <1>6, <1>7, <1>8, <1>9

\* run() up to the service: microservice(), the session, the roles, the inputs.
LEMMA EarlySteps ==
  ASSUME IInv, AInv,
         \/ \E u \in Users \cup {Nobody}, s \in Services, a \in [Params -> Sent] :
              Receive(u, s, a)
         \/ \E u \in Users \cup {Nobody} : ReceiveUnknown(u)
         \/ FindSession \/ RefuseSession
  PROVE  AInv'
<1> USE DEF AInv, historyVars, requestVars, engineVars, dbVars, Goto, Answer
<1> DEFINE Received == \E u \in Users \cup {Nobody}, s \in Services, a \in [Params -> Sent] :
                         Receive(u, s, a)
           Unknown == \E u \in Users \cup {Nobody} : ReceiveUnknown(u)
<1>a. pc \in {"idle", "session"} /\ pc' \in {"session", "validate", "reply"}
  BY DEF Receive, ReceiveUnknown, FindSession, RefuseSession
<1>b. UNCHANGED <<stmt, retries, buffer, applied, lost, refused, link, faults, up>>
  BY DEF Receive, ReceiveUnknown, FindSession, RefuseSession
<1>c. steady' => up
  <2>1. steady => up
    BY DEF FaultInv
  <2>2. Received => (steady' => up)
    BY DEF Receive
  <2>3. Unknown \/ FindSession \/ RefuseSession => steady' = steady
    BY DEF ReceiveUnknown, FindSession, RefuseSession
  <2>4. QED
    BY <2>1, <2>2, <2>3
<1>d. pc' = "reply" => reply' \in {"401", "no such path"}
  BY DEF Receive, ReceiveUnknown, FindSession, RefuseSession
<1>1. /\ pc \in {"idle", "session"} /\ pc' \in {"session", "validate", "reply"}
      /\ UNCHANGED <<stmt, retries, buffer, applied, lost, refused, link, faults, up>>
      /\ steady' => up
      /\ pc' = "reply" => reply' \in {"401", "no such path"}
  BY <1>a, <1>b, <1>c, <1>d
<1>2. /\ service' \in Services
      /\ from' \in Users \cup {Nobody} /\ login' \in Users \cup {Nobody}
  BY DEF Receive, ReceiveUnknown, FindSession, RefuseSession, AnswerTypes, IInv, Types
<1>3. stmt = 0 /\ applied = 0 /\ retries = 0 /\ lost = 0 /\ ~refused
  BY <1>1 DEF EarlyInv
<1>4. AnswerTypes'
  <2>1. Pieces(Entry.sql)' \in Nat
    <3>1. Config[service'] \in ServiceRecords
      BY <1>2, ServicesAssumption
    <3>2. Config[service'].sql \in SqlTexts
      BY <3>1 DEF ServiceRecords
    <3>3. Pieces(Config[service'].sql) \in Nat
      BY <3>2, PiecesType
    <3>4. QED
      BY <3>3 DEF Entry
  <2>2. stmt' \in 0..Pieces(Entry.sql)'
    <3>1. stmt' = 0
      BY <1>1, <1>3
    <3>2. QED
      BY <2>1, <3>1
  <2>3. steady' \in BOOLEAN
    BY DEF Receive, ReceiveUnknown, FindSession, RefuseSession, AnswerTypes
  <2>4. QED
    BY <1>1, <1>2, <2>2, <2>3 DEF AnswerTypes
<1>5. BufferInv' /\ FaultInv'
  BY <1>1, <1>3 DEF BufferInv, FaultInv
<1>6. EarlyInv' /\ QueryInv' /\ ReplyInv'
  BY <1>1, <1>3 DEF EarlyInv, QueryInv, ReplyInv
<1>7. QED
  BY <1>4, <1>5, <1>6
LEMMA SingletonSeq ==
  ASSUME NEW S, NEW c \in S
  PROVE  <<c>> \in Seq(S) /\ Len(<<c>>) = 1 /\ <<c>>[1] = c
OBVIOUS

LEMMA Single ==
  ASSUME NEW text \in {"open", "close", "ok", "document", "error", "db error",
                       "denied", "invalid"},
         NEW b, b = <<Piece(text)>>
  PROVE  b \in Seq(Chunks) /\ Len(b) = 1 /\ b[1] = Piece(text)
<1>1. Piece(text) \in Chunks
  BY ChunkTypes
<1>2. QED
  BY <1>1, SingletonSeq

\* DenyAccess and RefuseInputs end the request.
LEMMA RefusingSteps == ASSUME IInv, AInv, DenyAccess \/ RefuseInputs PROVE AInv'
<1> USE DEF AInv, historyVars, requestVars, engineVars, dbVars, Goto, Answer
<1>1. /\ pc = "validate" /\ pc' = "reply" /\ reply' = "buffer"
      /\ buffer' \in {<<Piece("denied")>>, <<Piece("invalid")>>}
  BY DEF DenyAccess, RefuseInputs
<1>2. UNCHANGED <<login, from, service, stmt, retries, applied, lost, refused,
                  link, faults, up, steady>>
  BY DEF DenyAccess, RefuseInputs
<1>3. stmt = 0 /\ applied = 0 /\ retries = 0 /\ lost = 0 /\ ~refused
  BY <1>1 DEF EarlyInv
<1>4. buffer' \in Seq(Chunks) /\ Len(buffer') = 1
  BY <1>1, Single
<1>5. Entry' = Entry
  BY <1>2 DEF Entry
<1>6. AnswerTypes'
  BY <1>1, <1>2, <1>4, <1>5 DEF AnswerTypes
<1>7. BufferInv'
  <2>1. \E s \in Services : 1 <= Pieces(Config[s].sql) + 2
    BY ShortBuffer, SqlType DEF IInv
  <2>2. QED
    BY <1>4, <2>1 DEF BufferInv
<1>8. FaultInv' /\ EarlyInv' /\ QueryInv' /\ ReplyInv'
  BY <1>1, <1>2, <1>3 DEF FaultInv, EarlyInv, QueryInv, ReplyInv
<1>9. QED
  BY <1>6, <1>7, <1>8

\* The first statement of the service is about to be executed.
LEMMA Entering ==
  ASSUME Types, pc' = "query", service' = service, stmt' = 1, buffer' = Opening,
         applied' = 0, lost' \in Nat, ~refused'
  PROVE  QueryInv' /\ BufferInv' /\ buffer' \in Seq(Chunks)
         /\ stmt' \in 0..Pieces(Entry'.sql)
<1>1. Entry' = Entry
  BY DEF Entry
<1>2. Pieces(Entry.sql) \in Nat \ {0}
  BY SqlType
<1>3. CASE Entry.func = "dbgetm"
  <2>1. buffer' = <<Piece("open")>>
    BY <1>3 DEF Opening
  <2>2. buffer' \in Seq(Chunks) /\ Len(buffer') = 1 /\ buffer'[1] = Piece("open")
    BY <2>1, Single
  <2>3. Collected(buffer', 0)
    BY <2>2 DEF Collected
  <2>4. BufferInv'
    <3>1. \E s \in Services : 1 <= Pieces(Config[s].sql) + 2
      BY ShortBuffer, SqlType
    <3>2. QED
      BY <2>2, <3>1 DEF BufferInv
  <2>5. QueryInv'
    <3>1. stmt' - 1 = 0 /\ Len(buffer') = stmt' /\ stmt' # 0
      BY <2>2
    <3>2. Collected(buffer', stmt' - 1)
      BY <2>3, <3>1
    <3>3. QED
      BY <1>1, <1>3, <3>1, <3>2 DEF QueryInv
  <2>6. QED
    BY <1>1, <1>2, <2>2, <2>4, <2>5
<1>4. CASE Entry.func # "dbgetm"
  <2>1. buffer' = <<>>
    BY <1>4 DEF Opening
  <2>2. buffer' \in Seq(Chunks) /\ Len(buffer') = 0
    BY <2>1
  <2>3. BufferInv'
    <3>1. \E s \in Services : 0 <= Pieces(Config[s].sql) + 2
      BY ShortBuffer, SqlType
    <3>2. QED
      BY <2>2, <3>1 DEF BufferInv
  <2>4. QueryInv'
    BY <1>1, <1>4, <2>1 DEF QueryInv
  <2>5. QED
    BY <1>1, <1>2, <2>2, <2>3, <2>4
<1>5. QED
  BY <1>3, <1>4

\* The service is entered, or its validator.
LEMMA AcceptingStep == ASSUME IInv, AInv, AcceptInputs PROVE AInv'
<1> USE DEF AInv, historyVars, requestVars, engineVars, dbVars, Goto
<1>1. pc = "validate" /\ pc' = "query" /\ retries' = 0
  BY DEF AcceptInputs
<1>2. UNCHANGED <<login, from, service, applied, lost, refused, link, faults, up, steady>>
  BY DEF AcceptInputs
<1>3. stmt = 0 /\ applied = 0 /\ retries = 0 /\ lost = 0 /\ ~refused
  BY <1>1 DEF EarlyInv
<1>4. \/ stmt' = 0 /\ buffer' = <<>>
      \/ stmt' = 1 /\ buffer' = Opening
  BY DEF AcceptInputs
<1>5. QueryInv' /\ BufferInv' /\ buffer' \in Seq(Chunks)
      /\ stmt' \in 0..Pieces(Entry'.sql)
  <2>1. CASE stmt' = 0 /\ buffer' = <<>>
    <3>1. Entry' = Entry /\ Pieces(Entry.sql) \in Nat \ {0}
      BY <1>2, SqlType DEF Entry, IInv
    <3>2. buffer' \in Seq(Chunks) /\ Len(buffer') = 0
      BY <2>1
    <3>3. BufferInv'
      <4>1. \E s \in Services : 0 <= Pieces(Config[s].sql) + 2
        BY ShortBuffer, SqlType DEF IInv
      <4>2. QED
        BY <3>2, <4>1 DEF BufferInv
    <3>4. QueryInv'
      BY <1>2, <1>3, <2>1 DEF QueryInv
    <3>5. QED
      BY <2>1, <3>1, <3>2, <3>3, <3>4
  <2>2. CASE stmt' = 1 /\ buffer' = Opening
    BY <1>1, <1>2, <1>3, <2>2, Entering DEF IInv
  <2>3. QED
    BY <1>4, <2>1, <2>2
<1>6. AnswerTypes'
  BY <1>1, <1>2, <1>5, BoundsAssumption DEF AnswerTypes
<1>7. FaultInv'
  <2>1. faults \in Nat
    BY DEF AnswerTypes
  <2>2. QED
    BY <1>1, <1>2, <1>3, <2>1 DEF FaultInv
<1>8. EarlyInv' /\ ReplyInv'
  BY <1>1 DEF EarlyInv, ReplyInv
<1>9. QED
  BY <1>5, <1>6, <1>7, <1>8

LEMMA ValidatorStep == ASSUME IInv, AInv, ValidatorAnswers PROVE AInv'
<1> USE DEF AInv, historyVars, requestVars, engineVars, dbVars, Goto, Answer
<1>1. UNCHANGED <<login, from, service, applied, lost, refused, link, faults, up, steady>>
  BY DEF ValidatorAnswers
<1>2. pc = "query" /\ stmt = 0 /\ link = "ok"
  BY DEF ValidatorAnswers
<1>3. applied = 0 /\ ~refused /\ lost \in Nat /\ faults \in Nat
  BY <1>2 DEF QueryInv, AnswerTypes
<1>4. CASE pc' = "query" /\ stmt' = 1 /\ retries' = 0 /\ buffer' = Opening
  <2>1. QueryInv' /\ BufferInv' /\ buffer' \in Seq(Chunks)
        /\ stmt' \in 0..Pieces(Entry'.sql)
    BY <1>1, <1>3, <1>4, Entering DEF IInv
  <2>2. AnswerTypes'
    BY <1>1, <1>4, <2>1, BoundsAssumption DEF AnswerTypes
  <2>3. FaultInv'
    BY <1>1, <1>3, <1>4 DEF FaultInv
  <2>4. EarlyInv' /\ ReplyInv'
    BY <1>4 DEF EarlyInv, ReplyInv
  <2>5. QED
    BY <2>1, <2>2, <2>3, <2>4
<1>5. CASE /\ pc' = "reply" /\ reply' = "buffer" /\ buffer' = <<Piece("invalid")>>
           /\ UNCHANGED <<stmt, retries>>
  <2>1. buffer' \in Seq(Chunks) /\ Len(buffer') = 1
    BY <1>5, Single
  <2>2. Entry' = Entry
    BY <1>1 DEF Entry
  <2>3. AnswerTypes'
    BY <1>1, <1>5, <2>1, <2>2 DEF AnswerTypes
  <2>4. BufferInv'
    <3>1. \E s \in Services : 1 <= Pieces(Config[s].sql) + 2
      BY ShortBuffer, SqlType DEF IInv
    <3>2. QED
      BY <2>1, <3>1 DEF BufferInv
  <2>5. FaultInv' /\ EarlyInv' /\ QueryInv' /\ ReplyInv'
    BY <1>1, <1>3, <1>5 DEF FaultInv, EarlyInv, QueryInv, ReplyInv
  <2>6. QED
    BY <2>3, <2>4, <2>5
<1>6. QED
  BY <1>4, <1>5 DEF ValidatorAnswers
\* The end of a service: what the other conjuncts need.
LEMMA Ending ==
  ASSUME Types, AnswerTypes, pc' = "mail",
         UNCHANGED <<login, from, service, stmt, retries, link, faults, up, steady>>,
         applied' \in Nat, lost' = lost, refused' \in BOOLEAN, lost <= faults,
         applied' <= lost + 1, steady => up, Outcome',
         buffer' \in Seq(Chunks), Len(buffer') <= Pieces(Entry.sql) + 2
  PROVE  AInv'
<1>1. Entry' = Entry
  BY DEF Entry
<1>2. AnswerTypes'
  BY <1>1 DEF AnswerTypes
<1>3. BufferInv'
  BY DEF BufferInv, Types, Entry
<1>4. FaultInv'
  <2>1. applied' <= 1 + lost
    BY DEF AnswerTypes
  <2>2. QED
    BY <2>1 DEF FaultInv
<1>5. EarlyInv' /\ QueryInv' /\ ReplyInv'
  BY DEF EarlyInv, QueryInv, ReplyInv
<1>6. QED
  BY <1>2, <1>3, <1>4, <1>5 DEF AInv

LEMMA StatementStep == ASSUME IInv, AInv, StatementAnswers PROVE AInv'
<1> USE DEF AInv, historyVars, requestVars, engineVars, dbVars, Goto
<1>1. /\ pc = "query" /\ pc' = "mail" /\ stmt = 1 /\ Entry.func # "dbgetm"
      /\ UNCHANGED <<login, from, service, stmt, retries, link, faults, up, steady,
                     lost, refused>>
  BY DEF StatementAnswers
<1>2. buffer = <<>> /\ applied <= lost /\ (Entry.func # "dbexec" => applied = 0)
  BY <1>1 DEF QueryInv
<1>3. lost \in Nat /\ applied \in Nat
  BY DEF AnswerTypes
<1>4. Entry' = Entry
  BY <1>1 DEF Entry
<1>5. Outcome' /\ buffer' \in Seq(Chunks) /\ Len(buffer') = 1
      /\ applied' \in Nat /\ applied' <= lost + 1
  <2>1. CASE Entry.func = "dbexec"
    <3>1. buffer' = <<Piece("ok")>> /\ applied' = applied + 1
      BY <1>1, <1>2, <2>1 DEF StatementAnswers, Modifies
    <3>2. buffer' \in Seq(Chunks) /\ Len(buffer') = 1
      BY <3>1, Single
    <3>3. applied + 1 \in Nat /\ applied + 1 >= 1 /\ applied + 1 <= lost + 1
      BY <1>2, <1>3
    <3>4. Done'
      BY <1>4, <2>1, <3>1, <3>3 DEF Done
    <3>5. QED
      BY <3>1, <3>2, <3>3, <3>4 DEF Outcome
  <2>2. CASE Entry.func # "dbexec"
    <3>1. buffer' = <<Piece("document")>> /\ applied' = 0
      BY <1>1, <1>2, <2>2 DEF StatementAnswers, Modifies
    <3>2. buffer' \in Seq(Chunks) /\ Len(buffer') = 1
      BY <3>1, Single
    <3>3. Entry.func \in {"dbget", "dbget_json"}
      BY <1>1, <2>2, SqlType DEF IInv
    <3>4. Done'
      BY <1>4, <3>1, <3>3 DEF Done
    <3>5. QED
      BY <1>3, <3>1, <3>2, <3>4 DEF Outcome
  <2>3. QED
    BY <2>1, <2>2
<1>6. Len(buffer') <= Pieces(Entry.sql) + 2
  BY <1>5, SqlType DEF IInv
<1>7. lost <= faults /\ (steady => up) /\ refused' \in BOOLEAN
  BY <1>1 DEF FaultInv, AnswerTypes
<1>8. QED
  BY <1>1, <1>5, <1>6, <1>7, Ending DEF IInv

LEMMA NextStatementStep == ASSUME IInv, AInv, NextStatementAnswers PROVE AInv'
<1> USE DEF AInv, historyVars, requestVars, engineVars, dbVars, Goto
<1> DEFINE n == stmt - 1
           r == Result(Entry.sql, Text)
           part == Part(stmt, r)
<1>1. /\ pc = "query" /\ stmt >= 1 /\ link = "ok" /\ Entry.func = "dbgetm"
      /\ Accepted(Entry.sql, Text)
      /\ UNCHANGED <<login, from, service, retries, link, faults, up, steady,
                     applied, lost, refused>>
  BY DEF NextStatementAnswers
<1>2. /\ stmt \in 1..Pieces(Entry.sql) /\ Pieces(Entry.sql) \in Nat
      /\ Entry.sql \in SqlTexts
  BY <1>1, SqlType DEF AnswerTypes, IInv
<1>3. n \in Nat /\ stmt = n + 1 /\ stmt # 0
  BY <1>2
<1>4. Len(buffer) = n + 1 /\ Collected(buffer, n) /\ buffer \in Seq(Chunks)
      /\ applied = 0 /\ ~refused
  BY <1>1, <1>3 DEF QueryInv, AnswerTypes
<1>5. r \in Nat
  BY <1>1, <1>2, ResultType
<1>6. CutsFit => r = n + 1
  <2>1. SUFFICES ASSUME CutsFit PROVE r = stmt
    BY <1>3
  <2>2. Len(Entry.sql.ends) <= 1
    BY <1>1, <2>1 DEF CutsFit, Entry, IInv, Types
  <2>3. Text = Cut(Entry.sql, stmt)
    BY <1>1 DEF Text
  <2>4. QED
    BY <1>2, <2>2, <2>3, TwoStatementsAreSplit
<1>7. Entry' = Entry
  BY <1>1 DEF Entry
<1>8. faults \in Nat /\ lost \in Nat /\ lost <= faults /\ (steady => up)
  BY DEF FaultInv, AnswerTypes
<1>9. CASE stmt < Pieces(Entry.sql)
  <2>1. pc' = "query" /\ stmt' = stmt + 1 /\ buffer' = Append(buffer, Part(n + 1, r))
    BY <1>3, <1>9 DEF NextStatementAnswers
  <2> HIDE DEF n, r
  <2>2. buffer' \in Seq(Chunks) /\ Len(buffer') = n + 2 /\ Collected(buffer', n + 1)
    BY <1>3, <1>4, <1>5, <1>6, <2>1, Extend
  <2>3. n + 2 = stmt + 1 /\ n + 1 = stmt /\ (stmt + 1) - 1 = stmt
        /\ n + 2 \in Nat /\ n + 2 <= Pieces(Entry.sql) + 2
        /\ stmt + 1 \in 0..Pieces(Entry.sql)
    BY <1>2, <1>3, <1>9
  <2>4. Len(buffer') = stmt' /\ Collected(buffer', stmt' - 1) /\ stmt' # 0
    BY <1>2, <2>1, <2>2, <2>3
  <2>5. AnswerTypes'
    BY <1>1, <1>7, <2>1, <2>2, <2>3 DEF AnswerTypes
  <2>6. BufferInv'
    <3>1. \E s \in Services : n + 2 <= Pieces(Config[s].sql) + 2
      BY <2>3, ShortBuffer DEF IInv
    <3>2. QED
      BY <2>2, <3>1 DEF BufferInv
  <2>7. FaultInv'
    BY <1>1, <2>1 DEF FaultInv
  <2>8. QueryInv'
    BY <1>1, <1>4, <1>7, <1>8, <2>1, <2>4 DEF QueryInv
  <2>9. EarlyInv' /\ ReplyInv'
    BY <2>1 DEF EarlyInv, ReplyInv
  <2>10. QED
    BY <2>5, <2>6, <2>7, <2>8, <2>9
<1>10. CASE ~(stmt < Pieces(Entry.sql))
  <2>1. pc' = "mail" /\ stmt' = stmt
        /\ buffer' = buffer \o <<Part(n + 1, r), Piece("close")>>
    BY <1>3, <1>10 DEF NextStatementAnswers
  <2> HIDE DEF n, r
  <2>2. buffer' \in Seq(Chunks) /\ Len(buffer') = n + 3 /\ Collected(buffer', n + 1)
        /\ buffer'[n + 3] = Piece("close")
    BY <1>3, <1>4, <1>5, <1>6, <2>1, CloseUp
  <2>3. n + 3 = Pieces(Entry.sql) + 2 /\ n + 1 = Pieces(Entry.sql)
    BY <1>2, <1>3, <1>10
  <2>4. Whole'
    BY <1>1, <1>7, <2>2, <2>3 DEF Whole
  <2>5. Len(buffer') <= Pieces(Entry.sql) + 2
    BY <1>2, <2>2, <2>3
  <2>6. applied' \in Nat /\ applied' <= lost + 1 /\ refused' \in BOOLEAN
    BY <1>1, <1>4, <1>8 DEF AnswerTypes
  <2>7. QED
    BY <1>1, <1>8, <2>1, <2>2, <2>4, <2>5, <2>6, Ending DEF Outcome, IInv
<1>11. QED
  BY <1>9, <1>10
\* A statement is rejected on a good connection either by the database, which
\* is then on record, or because the text was cut in the wrong place.
LEMMA CutCause ==
  ASSUME Types, stmt \in 1..Pieces(Entry.sql), ~Accepted(Entry.sql, Text)
  PROVE  Entry.func = "dbgetm" /\ ~CutsFit
<1>1. Entry.sql \in SqlTexts
  BY SqlType
<1>2. Entry.func = "dbgetm"
  <2>1. SUFFICES ASSUME Entry.func # "dbgetm" PROVE FALSE
    OBVIOUS
  <2>2. Text = [first |-> 0, last |-> Entry.sql.size]
    BY <2>1 DEF Text
  <2>3. QED
    BY <1>1, <2>2, WholeText
<1>3. ~CutsFit
  <2>1. SUFFICES ASSUME CutsFit PROVE FALSE
    OBVIOUS
  <2>2. Len(Entry.sql.ends) <= 1
    BY <1>2, <2>1 DEF CutsFit, Entry, Types
  <2>3. Text = Cut(Entry.sql, stmt)
    BY <1>2 DEF Text
  <2>4. QED
    BY <1>1, <2>2, <2>3, TwoStatementsAreSplit
<1>4. QED
  BY <1>2, <1>3

LEMMA ErrorChunk ==
  ASSUME NEW b, b = <<ErrorText>>
  PROVE  b \in Seq(Chunks) /\ Len(b) = 1
BY Single DEF ErrorText

\* The validator or get_json_record() throws.
LEMMA Throwing ==
  ASSUME IInv, AInv, pc \in {"query", "recover"}, Throws,
         pc' = "reply", reply' = "system error", refused' \in BOOLEAN,
         UNCHANGED <<login, from, service, stmt, retries, link, faults, up, steady,
                     applied, lost, buffer>>,
         refused' \/ ~Recoverable'
  PROVE  AInv'
<1> USE DEF AInv
<1>1. Entry' = Entry
  BY DEF Entry
<1>2. applied = 0
  BY DEF Throws, QueryInv
<1>3. AnswerTypes'
  BY <1>1 DEF AnswerTypes
<1>4. BufferInv' /\ FaultInv'
  BY DEF BufferInv, FaultInv
<1>5. EarlyInv' /\ QueryInv' /\ ReplyInv'
  BY <1>2 DEF EarlyInv, QueryInv, ReplyInv
<1>6. QED
  BY <1>3, <1>4, <1>5

LEMMA RejectedStep == ASSUME IInv, AInv, Rejected PROVE AInv'
<1> USE DEF AInv, requestVars, engineVars, dbVars, Answer, Goto
<1>1. /\ pc = "query" /\ refused' = (refused \/ stmt = 0 \/ Accepted(Entry.sql, Text))
      /\ UNCHANGED <<login, from, service, stmt, retries, link, faults, up, steady,
                     applied, lost>>
  BY DEF Rejected
<1>2. refused' \in BOOLEAN
  BY <1>1
<1>3. CASE Throws
  <2>1. pc' = "reply" /\ reply' = "system error" /\ buffer' = buffer
    BY <1>1, <1>3 DEF Rejected, Fail
  <2>2. stmt = 0 \/ Accepted(Entry.sql, Text)
    <3>1. SUFFICES ASSUME stmt # 0, ~Accepted(Entry.sql, Text) PROVE FALSE
      OBVIOUS
    <3>2. stmt \in 1..Pieces(Entry.sql)
      BY <3>1, SqlType DEF AnswerTypes, IInv
    <3>3. QED
      BY <1>3, <3>1, <3>2, CutCause DEF Throws, IInv
  <2>3. refused'
    BY <1>1, <2>2
  <2>4. QED
    BY <1>1, <1>2, <1>3, <2>1, <2>3, Throwing
<1>4. CASE ~Throws
  <2>1. pc' = "mail" /\ buffer' = <<ErrorText>>
    BY <1>4 DEF Rejected, Fail
  <2>2. buffer' \in Seq(Chunks) /\ Len(buffer') = 1
    BY <2>1, ErrorChunk
  <2>3. applied <= lost /\ lost \in Nat /\ applied \in Nat
    BY <1>1 DEF QueryInv, AnswerTypes
  <2>4. refused' \/ ~CutsFit
    <3>1. SUFFICES ASSUME ~Accepted(Entry.sql, Text) PROVE ~CutsFit
      BY <1>1
    <3>2. stmt \in 1..Pieces(Entry.sql)
      BY <1>4, SqlType DEF AnswerTypes, IInv, Throws
    <3>3. QED
      BY <3>1, <3>2, CutCause DEF IInv
  <2>5. ErrorText' = ErrorText
    BY <1>1 DEF ErrorText, Entry
  <2>6. Failed'
    BY <1>1, <2>1, <2>3, <2>4, <2>5 DEF Failed
  <2>7. Len(buffer') <= Pieces(Entry.sql) + 2
    BY <2>2, SqlType DEF IInv
  <2>8. lost <= faults /\ (steady => up) /\ applied' \in Nat /\ applied' <= lost + 1
    BY <1>1, <2>3 DEF FaultInv
  <2>9. QED
    BY <1>1, <1>2, <2>1, <2>2, <2>6, <2>7, <2>8, Ending DEF Outcome, IInv
<1>5. QED
  BY <1>3, <1>4

LEMMA GiveUpStep == ASSUME IInv, AInv, GiveUp PROVE AInv'
<1> USE DEF AInv, requestVars, engineVars, dbVars, historyVars, Answer, Goto
<1>1. /\ pc = "recover" /\ retries = MaxRetries
      /\ UNCHANGED <<login, from, service, stmt, retries, link, faults, up, steady,
                     applied, lost, refused>>
  BY DEF GiveUp
<1>2. ~Recoverable /\ ~Recoverable'
  <2>1. steady => ~(faults < MaxRetries)
    BY <1>1, BoundsAssumption DEF FaultInv, AnswerTypes
  <2>2. QED
    BY <1>1, <2>1 DEF Recoverable
<1>3. refused' \in BOOLEAN
  BY <1>1 DEF AnswerTypes
<1>4. CASE Throws
  <2>1. pc' = "reply" /\ reply' = "system error" /\ buffer' = buffer
    BY <1>1, <1>4 DEF GiveUp, Fail
  <2>2. QED
    BY <1>1, <1>2, <1>3, <1>4, <2>1, Throwing
<1>5. CASE ~Throws
  <2>1. pc' = "mail" /\ buffer' = Append(buffer, ErrorText)
    BY <1>5 DEF GiveUp, Fail
  <2>2. stmt \in 1..Pieces(Entry.sql) /\ Pieces(Entry.sql) \in Nat
    BY <1>5, SqlType DEF AnswerTypes, IInv, Throws
  <2>3. applied <= lost /\ lost \in Nat /\ applied \in Nat
    BY <1>1 DEF QueryInv, AnswerTypes
  <2>4. ErrorText' = ErrorText /\ Entry' = Entry
    BY <1>1 DEF ErrorText, Entry
  <2>5. Outcome' /\ buffer' \in Seq(Chunks) /\ Len(buffer') <= Pieces(Entry.sql) + 2
    <3>1. CASE Entry.func # "dbgetm"
      <4>1. buffer = <<>>
        BY <1>1, <3>1 DEF QueryInv
      <4>2. buffer' = <<ErrorText>>
        BY <2>1, <4>1
      <4>3. buffer' \in Seq(Chunks) /\ Len(buffer') = 1
        BY <4>2, ErrorChunk
      <4>4. Failed'
        BY <1>1, <1>2, <2>3, <2>4, <4>2 DEF Failed
      <4>5. QED
        BY <2>2, <4>3, <4>4 DEF Outcome
    <3>2. CASE Entry.func = "dbgetm"
      <4>1. Len(buffer) = stmt /\ Collected(buffer, stmt - 1) /\ buffer \in Seq(Chunks)
        BY <1>1, <2>2, <3>2 DEF QueryInv, AnswerTypes
      <4>2. buffer[1] = Piece("open")
        BY <4>1 DEF Collected
      <4>3. ErrorText \in Chunks
        BY ChunkTypes DEF ErrorText
      <4>4. buffer' \in Seq(Chunks) /\ Len(buffer') = stmt + 1 /\ buffer'[1] = buffer[1]
        BY <2>1, <2>2, <4>1, <4>3, AppendProperties
      <4>5. stmt + 1 \in 2..Pieces(Entry.sql) + 1 /\ stmt + 1 <= Pieces(Entry.sql) + 2
        BY <2>2
      <4>6. Interrupted'
        BY <1>2, <2>4, <3>2, <4>2, <4>4, <4>5 DEF Interrupted
      <4>7. QED
        BY <4>4, <4>5, <4>6 DEF Outcome
    <3>3. QED
      BY <3>1, <3>2
  <2>6. lost <= faults /\ (steady => up) /\ applied' \in Nat /\ applied' <= lost + 1
    BY <1>1, <2>3 DEF FaultInv
  <2>7. QED
    BY <1>1, <1>3, <2>1, <2>5, <2>6, Ending DEF IInv
<1>6. QED
  BY <1>4, <1>5
LEMMA CallFailsStep == ASSUME IInv, AInv, CallFails PROVE AInv'
<1> USE DEF AInv, requestVars, engineVars, historyVars, Goto
<1>1. /\ pc = "query" /\ pc' = "recover" /\ link # "ok" /\ link' = "bad"
      /\ UNCHANGED <<login, from, service, stmt, retries, up, faults, steady,
                     applied, lost, refused, buffer>>
  BY DEF CallFails
<1>2. Entry' = Entry
  BY <1>1 DEF Entry
<1>3. AnswerTypes'
  BY <1>1, <1>2 DEF AnswerTypes
<1>4. BufferInv' /\ FaultInv' /\ EarlyInv' /\ ReplyInv'
  BY <1>1 DEF BufferInv, FaultInv, EarlyInv, ReplyInv
<1>5. QueryInv'
  BY <1>1, QueryStays DEF AnswerTypes
<1>6. QED
  BY <1>3, <1>4, <1>5

LEMMA ResultLostStep == ASSUME IInv, AInv, ResultLost PROVE AInv'
<1> USE DEF AInv, requestVars, engineVars, Goto
<1>1. /\ pc = "query" /\ pc' = "recover" /\ link = "ok" /\ link' = "bad"
      /\ UNCHANGED <<login, from, service, stmt, retries, up, steady, refused, buffer>>
      /\ faults < MaxFaults /\ faults' = faults + 1 /\ lost' = lost + 1
  BY DEF ResultLost
<1>2. Entry' = Entry
  BY <1>1 DEF Entry
<1>3. /\ applied \in Nat /\ lost \in Nat /\ faults \in Nat /\ retries \in Nat
      /\ faults + 1 \in 0..MaxFaults
      /\ applied <= lost /\ lost <= faults
      /\ stmt = 0 \/ Entry.func # "dbexec" => applied = 0
  BY <1>1, BoundsAssumption DEF AnswerTypes, QueryInv, FaultInv
<1>4. /\ applied' = applied \/ (applied' = applied + 1 /\ Modifies)
  BY DEF ResultLost
<1>5. /\ applied' \in Nat /\ applied' <= lost + 1
      /\ stmt = 0 \/ Entry.func # "dbexec" => applied' = 0
  <2>1. CASE applied' = applied
    BY <1>3, <2>1
  <2>2. CASE applied' = applied + 1 /\ Modifies
    <3>1. applied + 1 \in Nat /\ applied + 1 <= lost + 1
      BY <1>3
    <3>2. ~(stmt = 0 \/ Entry.func # "dbexec")
      BY <2>2 DEF Modifies
    <3>3. QED
      BY <2>2, <3>1, <3>2
  <2>3. QED
    BY <1>4, <2>1, <2>2
<1>6. AnswerTypes'
  BY <1>1, <1>2, <1>3, <1>5 DEF AnswerTypes
<1>7. FaultInv'
  <2>1. lost + 1 <= faults + 1 /\ lost + 1 \in Nat
    BY <1>3
  <2>2. applied' <= 1 + lost'
    <3>1. PICK a \in Nat : a = applied'
      BY <1>5
    <3>2. a <= 1 + (lost + 1)
      BY <1>3, <1>5, <3>1
    <3>3. QED
      BY <1>1, <3>1, <3>2
  <2>3. steady' => up'
    BY <1>1 DEF FaultInv
  <2>4. steady' => retries <= faults + 1
    BY <1>1 DEF FaultInv
  <2>5. steady' => retries' <= faults'
    BY <1>1, <2>4
  <2>6. QED
    BY <1>1, <2>1, <2>2, <2>3, <2>5 DEF FaultInv
<1>8. QueryInv'
  <2>1. Collected(buffer, stmt - 1)' = Collected(buffer, stmt - 1)
    BY <1>1 DEF Collected
  <2>2. applied' <= lost'
    BY <1>1, <1>5
  <2>3. QED
    BY <1>1, <1>2, <1>5, <2>1, <2>2 DEF QueryInv
<1>9. BufferInv' /\ EarlyInv' /\ ReplyInv'
  BY <1>1 DEF BufferInv, EarlyInv, ReplyInv
<1>10. QED
  BY <1>6, <1>7, <1>8, <1>9

LEMMA RetryStep == ASSUME IInv, AInv, Retry PROVE AInv'
<1> USE DEF AInv, requestVars, engineVars, historyVars, Goto
<1>1. /\ pc = "recover" /\ pc' = "query" /\ retries # MaxRetries /\ retries' = retries + 1
      /\ link' = IF up THEN "ok" ELSE "bad"
      /\ UNCHANGED <<login, from, service, stmt, up, faults, steady, applied, lost,
                     refused, buffer>>
  BY DEF Retry
<1>2. Entry' = Entry
  BY <1>1 DEF Entry
<1>3. retries + 1 \in 0..MaxRetries /\ retries \in Nat /\ faults \in Nat
  BY <1>1, BoundsAssumption DEF AnswerTypes
<1>4. AnswerTypes'
  <2>1. link' \in {"ok", "cut", "bad"}
    BY <1>1
  <2>2. QED
    BY <1>1, <1>2, <1>3, <2>1 DEF AnswerTypes
<1>5. FaultInv'
  <2>1. lost' <= faults' /\ applied' <= 1 + lost' /\ (steady' => up')
    BY <1>1 DEF FaultInv
  <2>2. steady' => up /\ retries <= faults
    BY <1>1 DEF FaultInv
  <2>3. steady' => link' = "ok"
    BY <1>1, <2>2
  <2>4. steady' => retries + 1 <= faults + 1
    BY <1>3, <2>2
  <2>5. steady' => retries' <= faults' + 1
    BY <1>1, <2>4
  <2>6. QED
    BY <1>1, <2>1, <2>3, <2>5 DEF FaultInv
<1>6. QueryInv'
  BY <1>1, QueryStays DEF AnswerTypes
<1>7. BufferInv' /\ EarlyInv' /\ ReplyInv'
  BY <1>1 DEF BufferInv, EarlyInv, ReplyInv
<1>8. QED
  BY <1>4, <1>5, <1>6, <1>7

LEMMA SendMailStep == ASSUME IInv, AInv, SendMail PROVE AInv'
<1> USE DEF AInv, requestVars, engineVars, dbVars, Answer, Goto
<1>1. /\ pc = "mail" /\ pc' = "reply" /\ reply' = "buffer"
      /\ UNCHANGED <<login, from, service, stmt, retries, link, up, faults, steady,
                     applied, lost, refused, buffer>>
  BY DEF SendMail
<1>2. Entry' = Entry /\ Recoverable' = Recoverable
  BY <1>1 DEF Entry, Recoverable
<1>3. AnswerTypes'
  BY <1>1, <1>2 DEF AnswerTypes
<1>4. Outcome'
  BY <1>1, <1>2, OutcomeStays DEF ReplyInv
<1>5. BufferInv' /\ FaultInv'
  BY <1>1 DEF BufferInv, FaultInv
<1>6. EarlyInv' /\ QueryInv' /\ ReplyInv'
  BY <1>1, <1>4 DEF EarlyInv, QueryInv, ReplyInv
<1>7. QED
  BY <1>3, <1>5, <1>6

LEMMA ReplyStep == ASSUME IInv, AInv, Reply PROVE AInv'
<1> USE DEF AInv, requestVars, engineVars, dbVars, Goto
<1>1. /\ pc' = "idle" /\ from' = Nobody /\ service' = NoService
      /\ stmt' = 0 /\ retries' = 0 /\ applied' = 0 /\ lost' = 0
      /\ refused' = FALSE /\ steady' = FALSE
      /\ UNCHANGED <<login, link, up, faults, buffer>>
  BY DEF Reply
<1>2. stmt' \in 0..Pieces(Entry'.sql)
  <2>1. Config[NoService].sql \in SqlTexts
    BY NoServiceType, ServicesAssumption DEF ServiceRecords
  <2>2. Pieces(Config[NoService].sql) \in Nat
    BY <2>1, PiecesType
  <2>3. Entry' = Config[NoService]
    BY <1>1 DEF Entry
  <2>4. QED
    BY <1>1, <2>2, <2>3
<1>3. AnswerTypes'
  <2>1. retries' \in 0..MaxRetries
    BY <1>1, BoundsAssumption
  <2>2. applied' \in Nat /\ lost' \in Nat
    BY <1>1
  <2>3. refused' \in BOOLEAN /\ steady' \in BOOLEAN
    BY <1>1
  <2>4. QED
    BY <1>1, <1>2, <2>1, <2>2, <2>3 DEF AnswerTypes
<1>4. BufferInv'
  BY <1>1 DEF BufferInv
<1>5. FaultInv'
  <2>1. faults \in Nat
    BY BoundsAssumption DEF AnswerTypes
  <2>2. ~steady'
    BY <1>1
  <2>3. lost' <= faults' /\ applied' <= 1 + lost'
    BY <1>1, <2>1
  <2>4. QED
    BY <2>2, <2>3 DEF FaultInv
<1>6. EarlyInv' /\ QueryInv' /\ ReplyInv'
  <2>1. ~refused'
    BY <1>1
  <2>2. QED
    BY <1>1, <2>1 DEF EarlyInv, QueryInv, ReplyInv
<1>7. QED
  BY <1>3, <1>4, <1>5, <1>6

LEMMA StepAInv == ASSUME IInv, AInv, [Next]_vars PROVE AInv'
<1>1. CASE \/ \E u \in Users \cup {Nobody}, s \in Services, a \in [Params -> Sent] :
                Receive(u, s, a)
           \/ \E u \in Users \cup {Nobody} : ReceiveUnknown(u)
           \/ FindSession \/ RefuseSession
  BY <1>1, EarlySteps
<1>2. CASE DenyAccess \/ RefuseInputs \/ AcceptInputs \/ ValidatorAnswers
  BY <1>2, RefusingSteps, AcceptingStep, ValidatorStep
<1>3. CASE StatementAnswers \/ NextStatementAnswers \/ Rejected \/ CallFails
  BY <1>3, StatementStep, NextStatementStep, RejectedStep, CallFailsStep
<1>4. CASE ResultLost \/ Retry \/ GiveUp \/ SendMail \/ Reply
  BY <1>4, ResultLostStep, RetryStep, GiveUpStep, SendMailStep, ReplyStep
<1>5. CASE Break \/ Outage \/ Restart \/ UNCHANGED vars
  BY <1>5, DatabaseSteps
<1>6. QED
  BY <1>1, <1>2, <1>3, <1>4, <1>5 DEF Next, Worker

LEMMA AInvHolds == Spec => []AInv
<1>1. Init => AInv
  BY AInitInv
<1>2. IInv /\ AInv /\ [Next]_vars => AInv'
  BY StepAInv
<1>3. QED
  BY <1>1, <1>2, InvHolds, PTL DEF Spec
-----------------------------------------------------------------------------
(* The results about the answer. *)

LEMMA HeadOfOne == ASSUME NEW c PROVE Head(<<c>>) = c /\ Len(<<c>>) = 1 /\ <<c>>[1] = c
OBVIOUS

LEMMA InvTypes == IInv /\ AInv => TypeOK
<1>1. SUFFICES ASSUME IInv, AInv PROVE TypeOK
  OBVIOUS
<1>2. applied \in 0..1 + MaxFaults
  <2>1. /\ applied \in Nat /\ lost \in Nat /\ faults \in Nat /\ MaxFaults \in Nat
        /\ faults <= MaxFaults /\ lost <= faults /\ applied <= 1 + lost
    BY <1>1, BoundsAssumption DEF AInv, AnswerTypes, FaultInv
  <2>2. QED
    BY <2>1
<1>3. QED
  BY <1>1, <1>2 DEF IInv, AInv, Types, AnswerTypes, BufferInv, TypeOK

LEMMA InvDocument == IInv /\ AInv => OneDocument
<1>1. SUFFICES ASSUME IInv, AInv, pc = "reply", reply = "buffer", Recoverable
               PROVE  \/ Len(buffer) = 1 /\ buffer[1] # Piece("open")
                      \/ /\ Len(buffer) = Pieces(Entry.sql) + 2
                         /\ buffer[1] = Piece("open")
                         /\ buffer[Len(buffer)] = Piece("close")
                         /\ \A k \in 1..Pieces(Entry.sql) :
                              buffer[k + 1] \in {"part"} \X {k} \X Nat
  BY DEF OneDocument
<1>2. ASSUME NEW text, text # "open", buffer = <<Piece(text)>>
      PROVE  Len(buffer) = 1 /\ buffer[1] # Piece("open")
  BY <1>2, HeadOfOne, PiecesDiffer
<1>3. Outcome \/ buffer = <<Piece("denied")>> \/ buffer = <<Piece("invalid")>>
  BY <1>1 DEF AInv, ReplyInv
<1>4. CASE Done
  BY <1>2, <1>4 DEF Done
<1>5. CASE Whole
  BY <1>5 DEF Whole, Collected
<1>6. CASE Failed
  <2>1. PICK text \in {"error", "db error"} : ErrorText = Piece(text)
    BY DEF ErrorText
  <2>2. buffer = <<Piece(text)>> /\ text # "open"
    BY <1>6, <2>1 DEF Failed
  <2>3. QED
    BY <1>2, <2>2
<1>7. CASE Interrupted
  BY <1>1, <1>7 DEF Interrupted
<1>8. CASE buffer = <<Piece("denied")>> \/ buffer = <<Piece("invalid")>>
  BY <1>2, <1>8
<1>9. QED
  BY <1>3, <1>4, <1>5, <1>6, <1>7, <1>8 DEF Outcome

LEMMA InvEffect == IInv /\ AInv => EffectMatchesReply
<1>1. SUFFICES ASSUME IInv, AInv PROVE EffectMatchesReply
  OBVIOUS
<1>2. applied <= 1 + lost
  BY <1>1 DEF AInv, FaultInv
<1>3. ASSUME pc = "reply", reply # "buffer" PROVE applied = 0
  BY <1>1, <1>3 DEF AInv, ReplyInv
<1>4. ASSUME pc = "reply", reply = "buffer"
      PROVE  /\ Head(buffer) = Piece("ok") => applied >= 1
             /\ Head(buffer) = Piece("error") => applied <= lost
             /\ Head(buffer) \in {Piece("denied"), Piece("invalid")} => applied = 0
  <2>1. Outcome \/ (applied = 0 /\ buffer \in {<<Piece("denied")>>, <<Piece("invalid")>>})
    BY <1>1, <1>4 DEF AInv, ReplyInv
  <2>2. lost \in Nat /\ buffer \in Seq(Chunks)
    BY <1>1 DEF AInv, AnswerTypes
  <2>3. /\ Piece("ok") \notin {Piece("error"), Piece("denied"), Piece("invalid")}
        /\ Piece("error") \notin {Piece("denied"), Piece("invalid"), Piece("ok")}
        /\ Piece("db error") \notin {Piece("error"), Piece("denied"), Piece("invalid"), Piece("ok")}
        /\ Piece("document") \notin {Piece("error"), Piece("denied"), Piece("invalid"), Piece("ok")}
        /\ Piece("open") \notin {Piece("error"), Piece("denied"), Piece("invalid"), Piece("ok")}
        /\ Piece("denied") \notin {Piece("ok"), Piece("error")}
        /\ Piece("invalid") \notin {Piece("ok"), Piece("error")}
    BY PiecesDiffer
  <2>4. CASE Done
    <3>1. CASE buffer = <<Piece("ok")>> /\ applied >= 1
      <4>1. Head(buffer) = Piece("ok")
        BY <3>1, HeadOfOne
      <4>2. QED
        BY <2>3, <3>1, <4>1
    <3>2. CASE buffer = <<Piece("document")>>
      <4>1. Head(buffer) = Piece("document")
        BY <3>2, HeadOfOne
      <4>2. QED
        BY <2>3, <4>1
    <3>3. QED
      BY <2>4, <3>1, <3>2 DEF Done
  <2>5. CASE Failed
    <3>1. Head(buffer) = ErrorText /\ applied <= lost
      BY <2>5, HeadOfOne DEF Failed
    <3>2. ErrorText \in {Piece("error"), Piece("db error")}
      BY DEF ErrorText
    <3>3. QED
      BY <2>3, <3>1, <3>2
  <2>6. CASE Whole \/ Interrupted
    <3>1. buffer[1] = Piece("open")
      BY <2>6 DEF Whole, Interrupted, Collected
    <3>2. buffer # <<>>
      <4>1. Pieces(Entry.sql) \in Nat
        BY <1>1, SqlType DEF IInv
      <4>2. Len(buffer) # 0
        BY <2>6, <4>1 DEF Whole, Interrupted
      <4>3. QED
        BY <4>2
    <3>3. Head(buffer) = Piece("open")
      BY <2>2, <3>1, <3>2
    <3>4. QED
      BY <2>3, <3>3
  <2>7. CASE applied = 0 /\ buffer \in {<<Piece("denied")>>, <<Piece("invalid")>>}
    <3>1. Head(buffer) \in {Piece("denied"), Piece("invalid")}
      BY <2>7, HeadOfOne
    <3>2. QED
      BY <2>2, <2>3, <2>7, <3>1
  <2>8. QED
    BY <2>1, <2>4, <2>5, <2>6, <2>7 DEF Outcome
<1>5. QED
  BY <1>2, <1>3, <1>4 DEF EffectMatchesReply

LEMMA InvMasked ==
  ASSUME CutsFit
  PROVE  IInv /\ AInv => FaultsMasked
<1>1. SUFFICES ASSUME IInv, AInv, pc = "reply", Recoverable, ~refused
               PROVE  /\ reply # "system error"
                      /\ reply = "buffer" =>
                           buffer[Len(buffer)] \notin {Piece("error"), Piece("db error")}
  BY DEF FaultsMasked
<1>2. reply # "system error"
  BY <1>1 DEF AInv, ReplyInv
<1>3. ASSUME reply = "buffer"
      PROVE  buffer[Len(buffer)] \notin {Piece("error"), Piece("db error")}
  <2>1. ASSUME NEW text, text \notin {"error", "db error"},
               buffer[Len(buffer)] = Piece(text)
        PROVE  buffer[Len(buffer)] \notin {Piece("error"), Piece("db error")}
    BY <2>1, PiecesDiffer
  <2>2. ASSUME NEW text, text \notin {"error", "db error"}, buffer = <<Piece(text)>>
        PROVE  buffer[Len(buffer)] \notin {Piece("error"), Piece("db error")}
    <3>1. buffer[Len(buffer)] = Piece(text)
      BY <2>2, HeadOfOne
    <3>2. QED
      BY <2>1, <2>2, <3>1
  <2>3. ~Failed /\ ~Interrupted
    BY <1>1 DEF Failed, Interrupted
  <2>4. Done \/ Whole \/ buffer = <<Piece("denied")>> \/ buffer = <<Piece("invalid")>>
    BY <1>1, <1>3, <2>3 DEF AInv, ReplyInv, Outcome
  <2>5. CASE Done
    <3>1. buffer = <<Piece("ok")>> \/ buffer = <<Piece("document")>>
      BY <2>5 DEF Done
    <3>2. QED
      BY <2>2, <3>1
  <2>6. CASE Whole
    <3>1. buffer[Len(buffer)] = Piece("close")
      BY <2>6 DEF Whole
    <3>2. Piece("close") \notin {Piece("error"), Piece("db error")}
      BY PiecesDiffer
    <3>3. QED
      BY <3>1, <3>2
  <2>7. CASE buffer = <<Piece("denied")>> \/ buffer = <<Piece("invalid")>>
    BY <2>2, <2>7
  <2>8. QED
    BY <2>4, <2>5, <2>6, <2>7
<1>4. QED
  BY <1>2, <1>3

\* An answer with every result is the one that is promised.
LEMMA WholeAnswer ==
  ASSUME NEW n \in Nat, NEW b \in Seq(Chunks), Len(b) = n + 2,
         b[1] = Piece("open"), b[n + 2] = Piece("close"),
         \A k \in 1..n : b[k + 1] = Part(k, k)
  PROVE  b = <<Piece("open")>> \o [k \in 1..n |-> Part(k, k)] \o <<Piece("close")>>
<1> DEFINE open == Piece("open")
           close == Piece("close")
           parts == [k \in 1..n |-> Part(k, k)]
           c == <<open>> \o parts
           d == c \o <<close>>
<1>1. open \in Chunks /\ close \in Chunks
  BY ChunkTypes
<1>2. parts \in Seq(Chunks) /\ Len(parts) = n
  <2>1. ASSUME NEW k \in 1..n PROVE Part(k, k) \in Chunks
    <3>1. k \in Nat
      OBVIOUS
    <3>2. QED
      BY <3>1, ChunkTypes
  <2>2. QED
    BY <2>1
<1>3. \A k \in 1..n : parts[k] = b[k + 1]
  OBVIOUS
<1>4. b[1] = open /\ b[n + 2] = close
  OBVIOUS
<1> HIDE DEF open, close, parts
<1>5. <<open>> \in Seq(Chunks) /\ Len(<<open>>) = 1 /\ <<open>>[1] = open
  BY <1>1, SingletonSeq
<1>6. <<close>> \in Seq(Chunks) /\ Len(<<close>>) = 1 /\ <<close>>[1] = close
  BY <1>1, SingletonSeq
<1>7. /\ c \in Seq(Chunks) /\ Len(c) = n + 1
      /\ \A i \in 1..n + 1 : c[i] = IF i <= 1 THEN <<open>>[i] ELSE parts[i - 1]
  BY <1>2, <1>5, ConcatProperties
<1> HIDE DEF c
<1>8. /\ d \in Seq(Chunks) /\ Len(d) = n + 2
      /\ \A i \in 1..n + 2 : d[i] = IF i <= n + 1 THEN c[i] ELSE <<close>>[i - (n + 1)]
  BY <1>6, <1>7, ConcatProperties
<1> HIDE DEF d
<1>9. ASSUME NEW i \in 1..n + 2 PROVE b[i] = d[i]
  <2>1. CASE i = 1
    <3>1. i \in 1..n + 1 /\ i <= n + 1 /\ i <= 1
      BY <2>1
    <3>2. d[i] = c[i] /\ c[i] = <<open>>[i]
      BY <1>7, <1>8, <3>1
    <3>3. QED
      BY <1>4, <1>5, <2>1, <3>2
  <2>2. CASE i = n + 2
    <3>1. ~(i <= n + 1) /\ i - (n + 1) = 1
      BY <2>2
    <3>2. d[i] = <<close>>[1]
      BY <1>8, <3>1
    <3>3. QED
      BY <1>4, <1>6, <2>2, <3>2
  <2>3. CASE i # 1 /\ i # n + 2
    <3>1. i \in 1..n + 1 /\ i <= n + 1 /\ ~(i <= 1) /\ i - 1 \in 1..n /\ (i - 1) + 1 = i
      BY <2>3
    <3>2. d[i] = c[i] /\ c[i] = parts[i - 1]
      BY <1>7, <1>8, <3>1
    <3>3. parts[i - 1] = b[(i - 1) + 1]
      BY <1>3, <3>1
    <3>4. QED
      BY <3>1, <3>2, <3>3
  <2>4. QED
    BY <2>1, <2>2, <2>3
<1>10. b = d
  BY <1>8, <1>9, SeqEqual
<1>11. QED
  BY <1>10 DEF d, c, open, close, parts

LEMMA InvResultsets ==
  ASSUME CutsFit
  PROVE  IInv /\ AInv => MultipleResultsets
<1>1. SUFFICES ASSUME IInv, AInv, pc = "reply", reply = "buffer",
                      Entry.func = "dbgetm", Recoverable, ~refused,
                      Head(buffer) \notin {Piece("denied"), Piece("invalid")}
               PROVE  buffer = <<Piece("open")>>
                               \o [k \in 1..Pieces(Entry.sql) |-> Part(k, k)]
                               \o <<Piece("close")>>
  BY DEF MultipleResultsets
<1>2. buffer \notin {<<Piece("denied")>>, <<Piece("invalid")>>}
  BY <1>1, HeadOfOne
<1>3. ~Failed /\ ~Interrupted /\ ~Done
  BY <1>1 DEF Failed, Interrupted, Done
<1>4. Whole
  BY <1>1, <1>2, <1>3 DEF AInv, ReplyInv, Outcome
<1>5. buffer \in Seq(Chunks) /\ Pieces(Entry.sql) \in Nat
  BY <1>1, SqlType DEF AInv, AnswerTypes, IInv
<1>6. /\ Len(buffer) = Pieces(Entry.sql) + 2 /\ buffer[1] = Piece("open")
      /\ buffer[Len(buffer)] = Piece("close")
      /\ \A k \in 1..Pieces(Entry.sql) : buffer[k + 1] = Part(k, k)
  BY <1>4 DEF Whole, Collected
<1>7. QED
  BY <1>5, <1>6, WholeAnswer

\* The variables keep their types, and the JSON buffer never outgrows the
\* longest answer, though only the next request clears it.
THEOREM TypeCorrectness == Spec => []TypeOK
BY InvHolds, AInvHolds, InvTypes, PTL

\* An answer is one document, complete or an error alone, as long as the
\* retries have a chance (the functions of mse.cpp over get_json, sql.cpp:166).
THEOREM AnswerIsOneDocument == Spec => []OneDocument
BY InvHolds, AInvHolds, InvDocument, PTL

\* What the client is told of a modification is what happened to the data, up
\* to the executions whose result was lost (exec_sql, sql.cpp:228-255).
THEOREM RepliesTellEffects == Spec => []EffectMatchesReply
BY InvHolds, AInvHolds, InvEffect, PTL

\* The retries hide broken connections from the clients, for texts of at most
\* two statements (longer ones are cut wrongly: see MultipleResultsets).
THEOREM FaultsAreMasked ==
  ASSUME CutsFit
  PROVE  Spec => []FaultsMasked
BY InvHolds, AInvHolds, InvMasked, PTL

\* The j-th tag of a dbgetm answer holds the result of the j-th statement, for
\* texts of at most two statements (get_json, sql.cpp:166-226).
THEOREM ResultsUnderTheirTags ==
  ASSUME CutsFit
  PROVE  Spec => []MultipleResultsets
BY InvHolds, AInvHolds, InvResultsets, PTL
=============================================================================
