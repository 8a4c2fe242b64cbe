-------------------------- MODULE EpollServerProofs --------------------------
(***************************************************************************)
(* Proofs about EpollServer, for any number of connections, descriptors,   *)
(* workers and requests.                                                   *)
(*                                                                         *)
(* It holds whatever the clients do: bytes stay with their connection, no  *)
(* edge is lost, the metrics count what there is.  EpollServiceProofs goes *)
(* on with clients that wait for their answers.                            *)
(***************************************************************************)
EXTENDS EpollServer, SequenceTheorems, FiniteSetTheorems, TLAPS

-----------------------------------------------------------------------------
(* The invariant, whatever the clients do. *)

Units == [conn : Conns, n : Nat, kind : Kinds, i : Nat]
Responses == [conn : Conns \cup {NoConn}, n : Nat, bad : BOOLEAN]
Requests ==
  [payload : Seq(Units), method : {"", "GET", "POST"}, bodyStart : Nat, contentLength : Nat,
   err : BOOLEAN, response : Seq(Responses), pos : Nat]

ClientTypes ==
  /\ sent \in [Conns -> Seq(Kinds)]
  /\ wire \in [Conns -> Seq(Units)]
  /\ delivered \in [Conns -> Seq(Responses)]

KernelTypes ==
  /\ conn \in [Conns -> {"new", "backlog", "open", "closed"}]
  /\ inbox \in [Conns -> Seq(Units)]
  /\ fin \in [Conns -> BOOLEAN]
  /\ full \in [Conns -> BOOLEAN]
  /\ owner \in [Fds -> Conns \cup {NoConn}]
  /\ interest \in [Fds -> {"in", "out", "none"}]
  /\ ready \in SUBSET Fds

ProgramTypes ==
  /\ main \in [fd : Fds \cup {NoFd}, hup : BOOLEAN, in : BOOLEAN, out : BOOLEAN]
  /\ request \in [Fds -> Requests]
  /\ pending \in Seq(Fds)
  /\ running \in [Workers -> Fds \cup {NoFd}]
  /\ at \in [Workers -> {"idle", "read", "respond", "arm"}]
  /\ seen \in [Workers -> Responses]

Types == ClientTypes /\ KernelTypes /\ ProgramTypes

\* An open connection has one descriptor, which epoll watches.
OwnerInv ==
  /\ \A fd \in Fds : owner[fd] # NoConn =>
       /\ conn[owner[fd]] = "open"
       /\ interest[fd] \in {"in", "out"}
       /\ \A fd2 \in Fds : owner[fd2] = owner[fd] => fd2 = fd
  /\ \A fd \in ready : owner[fd] # NoConn

\* The event in the hands of the main thread is of an open connection, and what
\* has happened to it since epoll_wait is on the ready list.
MainInv ==
  IF main.fd = NoFd THEN main = Polling
  ELSE /\ owner[main.fd] # NoConn
       /\ main.hup \/ main.in \/ main.out
       /\ main.hup => fin[owner[main.fd]]
       /\ ~main.hup /\ fin[owner[main.fd]] => main.fd \in ready
       /\ main.out => interest[main.fd] = "out"
       /\ ~main.hup /\ main.in /\ interest[main.fd] = "out" /\ Level(main.fd, "out")
            => main.fd \in ready

WorkerInv == \A w \in Workers : at[w] = "idle" <=> running[w] = NoFd

\* Bytes on their way are of the connection they are on.
UnitsInv ==
  \A c \in Conns :
    /\ \A i \in DOMAIN wire[c] : wire[c][i].conn = c
    /\ \A i \in DOMAIN inbox[c] : inbox[c][i].conn = c

IInv ==
  Types /\ OwnerInv /\ MainInv /\ WorkerInv /\ UnitsInv /\ PayloadOfOwner /\ NoLostEdge

-----------------------------------------------------------------------------
(* Lemmas about packets and request objects. *)

LEMMA Split ==
  ASSUME NEW S, NEW s \in Seq(S), s # <<>>, NEW k \in 1..Len(s)
  PROVE  /\ SubSeq(s, 1, k) \in Seq(S) /\ SubSeq(s, 1, k) # <<>>
         /\ SubSeq(s, k + 1, Len(s)) \in Seq(S)
         /\ SubSeq(s, 1, k) \o SubSeq(s, k + 1, Len(s)) = s
         /\ \A i \in DOMAIN SubSeq(s, 1, k) : \E j \in DOMAIN s : SubSeq(s, 1, k)[i] = s[j]
         /\ \A i \in DOMAIN SubSeq(s, k + 1, Len(s)) :
              \E j \in DOMAIN s : SubSeq(s, k + 1, Len(s))[i] = s[j]
<1>1. Len(s) \in Nat /\ DOMAIN s = 1..Len(s) /\ \A i \in 1..Len(s) : s[i] \in S
  BY LenProperties, ElementOfSeq
<1>2. /\ SubSeq(s, 1, k) \in Seq(S) /\ Len(SubSeq(s, 1, k)) = k
      /\ \A i \in 1..k : SubSeq(s, 1, k)[i] = s[i]
  <2>1. k \in Nat /\ 1 <= k /\ \A i \in 1..k : s[i] \in S
    BY <1>1
  <2> QED
    BY <2>1, SubSeqProperties
<1>3. /\ SubSeq(s, k + 1, Len(s)) \in Seq(S) /\ Len(SubSeq(s, k + 1, Len(s))) = Len(s) - k
      /\ \A i \in 1..Len(s) - k : SubSeq(s, k + 1, Len(s))[i] = s[k + i]
  <2> DEFINE m == k + 1
             n == Len(s)
  <2>1. m \in Int /\ n \in Int /\ \A i \in m..n : s[i] \in S
    BY <1>1
  <2>2. /\ SubSeq(s, m, n) \in Seq(S)
        /\ Len(SubSeq(s, m, n)) = IF m <= n THEN n - m + 1 ELSE 0
        /\ \A i \in 1..n - m + 1 : SubSeq(s, m, n)[i] = s[m + i - 1]
    <3> HIDE DEF m, n
    <3> QED
      BY <2>1, SubSeqProperties
  <2>0. n \in Nat /\ k \in Nat /\ k <= n
    BY <1>1
  <2>3. n - m + 1 = n - k /\ (m <= n \/ n - k = 0)
    <3> HIDE DEF n
    <3> QED
      BY <2>0
  <2>4. \A i \in 1..n - k : m + i - 1 = k + i
    BY <1>1
  <2>5. Len(SubSeq(s, m, n)) = n - k
    BY <1>1, <2>2, <2>3
  <2> QED
    BY <2>2, <2>3, <2>4, <2>5
<1>4. SubSeq(s, 1, k) # <<>>
  BY <1>2, EmptySeq
<1>5. SubSeq(s, 1, k) \o SubSeq(s, k + 1, Len(s)) = s
  <2>1. SubSeq(s, 1, k) \o SubSeq(s, k + 1, Len(s)) = SubSeq(s, 1, Len(s))
    <3>1. 1 \in 1..Len(s) + 1 /\ k \in 1 - 1..Len(s) /\ Len(s) \in k..Len(s)
      BY <1>1
    <3> QED
      BY <3>1, ConcatAdjacentSubSeq
  <2> QED
    BY <2>1, SubSeqFull
<1>6. DOMAIN SubSeq(s, 1, k) = 1..k /\ DOMAIN SubSeq(s, k + 1, Len(s)) = 1..Len(s) - k
  BY <1>2, <1>3, LenProperties
<1>7. \A i \in 1..Len(s) - k : k + i \in 1..Len(s)
  BY <1>1
<1>8. \A i \in 1..k : i \in 1..Len(s)
  BY <1>1
<1> QED
  BY <1>1, <1>2, <1>3, <1>4, <1>5, <1>6, <1>7, <1>8

\* Concatenation keeps what holds of every element.
LEMMA ConcatOf ==
  ASSUME NEW S, NEW c, NEW s \in Seq(S), NEW t \in Seq(S),
         \A i \in DOMAIN s : s[i].conn = c, \A i \in DOMAIN t : t[i].conn = c
  PROVE  \A i \in DOMAIN (s \o t) : (s \o t)[i].conn = c
<1>1. /\ Len(s) \in Nat /\ DOMAIN s = 1..Len(s) /\ Len(t) \in Nat /\ DOMAIN t = 1..Len(t)
      /\ s \o t \in Seq(S)
  BY LenProperties, ConcatProperties
<1>2. /\ Len(s \o t) = Len(s) + Len(t) /\ DOMAIN (s \o t) = 1..Len(s \o t)
      /\ \A i \in 1..Len(s) + Len(t) :
           (s \o t)[i] = IF i <= Len(s) THEN s[i] ELSE t[i - Len(s)]
  BY <1>1, ConcatProperties, LenProperties
<1>3. \A m, n \in Nat : \A i \in 1..m + n : i \in 1..m \/ (~(i <= m) /\ i - m \in 1..n)
  OBVIOUS
<1>4. ASSUME NEW i \in 1..Len(s) + Len(t) PROVE (s \o t)[i].conn = c
  <2>1. CASE i \in 1..Len(s)
    <3>1. i <= Len(s)
      BY <2>1
    <3>2. (s \o t)[i] = s[i]
      BY <1>2, <3>1
    <3> QED
      BY <1>1, <2>1, <3>2
  <2>2. CASE ~(i <= Len(s)) /\ i - Len(s) \in 1..Len(t)
    <3>1. (s \o t)[i] = t[i - Len(s)]
      BY <1>2, <2>2
    <3> QED
      BY <1>1, <2>2, <3>1
  <2> QED
    BY <1>1, <1>3, <2>1, <2>2
<1> QED
  BY <1>2, <1>4

LEMMA MessageType ==
  ASSUME NEW c \in Conns, NEW n \in Nat, NEW k \in Kinds
  PROVE  /\ Message(c, n, k) \in Seq(Units)
         /\ Len(Message(c, n, k)) = HeadLen + k.body
         /\ \A i \in 1..HeadLen + k.body : Message(c, n, k)[i] = Unit(c, n, k, i)
<1>1. HeadLen + k.body \in Nat
  BY KindsAssumption, LengthsAssumption
<1>2. Message(c, n, k) \in [1..HeadLen + k.body -> Units]
  BY <1>1 DEF Message, Unit, Units
<1> QED
  BY <1>1, <1>2, SeqDef DEF Message

\* read_request() appends the packet and leaves the response alone.
LEMMA ReceivedType ==
  ASSUME NEW r \in Requests, NEW packet \in Seq(Units), packet # <<>>
  PROVE  /\ Received(r, packet) \in Requests
         /\ Received(r, packet).payload = r.payload \o packet
         /\ Received(r, packet).response = r.response
         /\ Received(r, packet).pos = r.pos
<1> DEFINE a == [r EXCEPT !.payload = @ \o packet]
<1>1. a \in Requests /\ a.payload = r.payload \o packet /\ a.response = r.response
      /\ a.pos = r.pos
  BY ConcatProperties DEF Requests
<1>2. ASSUME r.payload = <<>>
      PROVE  /\ Parse(a) \in Requests /\ Parse(a).payload = a.payload
             /\ Parse(a).response = a.response /\ Parse(a).pos = a.pos
  <2>1. a.payload = packet /\ a.payload[1] \in Units
    <3>1. a.payload = packet
      BY <1>1, <1>2, ConcatEmptySeq
    <3>2. Len(packet) \in Nat /\ Len(packet) # 0
      BY EmptySeq
    <3>3. packet[1] \in Units
      BY <3>2, ElementOfSeq
    <3> QED
      BY <3>1, <3>3
  <2>2. a.payload[1].kind \in Kinds
    BY <2>1 DEF Units
  <2>3. /\ a.payload[1].kind.method \in {"", "GET", "POST"}
        /\ a.payload[1].kind.body \in Nat
    <3> HIDE DEF a
    <3> QED
      BY <2>2, KindsAssumption
  <2>4. HeadLen \in Nat
    BY LengthsAssumption
  <2> HIDE DEF a
  <2> QED
    BY <1>1, <2>3, <2>4 DEF Parse, Requests
<1> QED
  BY <1>1, <1>2 DEF Received

-----------------------------------------------------------------------------
(* Initial states. *)

LEMMA InitInv == Init => IInv
<1> SUFFICES ASSUME Init PROVE IInv
  OBVIOUS
<1>1. \A S : <<>> \in Seq(S)
  BY EmptySeq
<1>2. ClientTypes /\ KernelTypes
  BY <1>1 DEF Init, ClientTypes, KernelTypes
<1>3. ProgramTypes
  <2>1. EmptyRequest \in Requests
    BY <1>1 DEF EmptyRequest, Requests
  <2>2. NoResponse \in Responses
    BY DEF NoResponse, Response, Responses
  <2>3. Polling \in [fd : Fds \cup {NoFd}, hup : BOOLEAN, in : BOOLEAN, out : BOOLEAN]
    BY DEF Polling, Event
  <2> QED
    BY <1>1, <2>1, <2>2, <2>3 DEF Init, ProgramTypes
<1>4. OwnerInv /\ MainInv /\ WorkerInv
  BY DEF Init, OwnerInv, MainInv, WorkerInv, Polling, Event
<1>5. DOMAIN <<>> = {}
  OBVIOUS
<1>6. UnitsInv /\ PayloadOfOwner /\ NoLostEdge
  BY <1>5 DEF Init, UnitsInv, PayloadOfOwner, NoLostEdge
<1> QED
  BY <1>2, <1>3, <1>4, <1>6 DEF IInv, Types

-----------------------------------------------------------------------------
(* Types. *)

\* The steps one thread or client takes; the names of the groups of variables
\* are expanded in every proof.
Step ==
  \/ \E c \in Conns : Client(c) \/ Network(c)
  \/ MainStep
  \/ \E w \in Workers : Worker(w)

LEMMA ClientTypesStep == ASSUME IInv, Step PROVE ClientTypes'
<1> USE DEF Client, Network, MainStep, Worker, clientVars, kernelVars, epollVars, poolVars
<1>1. /\ sent \in [Conns -> Seq(Kinds)] /\ wire \in [Conns -> Seq(Units)]
      /\ delivered \in [Conns -> Seq(Responses)]
  BY DEF IInv, Types, ClientTypes
<1>2. ASSUME NEW c \in Conns, SendRequest(c) PROVE ClientTypes'
  <2>1. PICK k \in Kinds :
          /\ sent' = [sent EXCEPT ![c] = Append(@, k)]
          /\ wire' = [wire EXCEPT ![c] = @ \o Message(c, Len(sent[c]) + 1, k)]
          /\ delivered' = delivered
    BY <1>2 DEF SendRequest
  <2>2. Len(sent[c]) + 1 \in Nat /\ Append(sent[c], k) \in Seq(Kinds)
    BY <1>1, LenProperties, AppendProperties
  <2>3. wire[c] \o Message(c, Len(sent[c]) + 1, k) \in Seq(Units)
    BY <1>1, <2>2, MessageType, ConcatProperties
  <2> QED
    BY <1>1, <2>1, <2>2, <2>3 DEF ClientTypes
<1>3. ASSUME NEW c \in Conns, Deliver(c) PROVE ClientTypes'
  <2>1. PICK k \in 1..Len(wire[c]) :
          wire' = [wire EXCEPT ![c] = SubSeq(wire[c], k + 1, Len(wire[c]))]
    BY <1>1, <1>3 DEF Deliver
  <2>2. SubSeq(wire[c], k + 1, Len(wire[c])) \in Seq(Units)
    BY <1>1, <1>3, Split DEF Deliver
  <2>3. UNCHANGED <<sent, delivered>>
    BY <1>3 DEF Deliver
  <2> QED
    BY <1>1, <2>1, <2>2, <2>3 DEF ClientTypes
<1>4. ASSUME NEW c \in Conns, Hangup(c) PROVE ClientTypes'
  BY <1>1, <1>4, EmptySeq DEF Hangup, ClientTypes
<1>5. ASSUME NEW c \in Conns, WriteAll(c) PROVE ClientTypes'
  <2>1. main.fd \in Fds
    BY <1>5 DEF WriteAll, Writing, IInv, MainInv, Polling, Event, Types, ProgramTypes
  <2>2. request[main.fd].response \in Seq(Responses)
    BY <2>1 DEF IInv, Types, ProgramTypes, Requests
  <2>3. delivered[c] \o request[main.fd].response \in Seq(Responses)
    BY <1>1, <2>2, ConcatProperties
  <2>4. /\ delivered' = [delivered EXCEPT ![c] = @ \o request[main.fd].response]
        /\ UNCHANGED <<sent, wire>>
    BY <1>5 DEF WriteAll
  <2> QED
    BY <1>1, <2>3, <2>4 DEF ClientTypes
<1>6. ASSUME NEW c \in Conns,
             \/ Connect(c) \/ Drain(c) \/ ReadPacket(c) \/ ReadBlocked(c)
             \/ ReadFailed(c) \/ WriteSome(c) \/ WriteFailed(c)
      PROVE  ClientTypes'
  BY <1>1, <1>6
     DEF Connect, Drain, ReadPacket, ReadBlocked, ReadFailed, WriteSome, WriteFailed, ClientTypes
<1>7. CASE \/ \E fd \in Fds : Wait(fd) \/ \E c \in Conns : Accept(c, fd)
           \/ CloseConnection
           \/ \E w \in Workers : Take(w) \/ ReadRequest(w) \/ Respond(w) \/ Arm(w)
  BY <1>1, <1>7
     DEF Wait, Accept, CloseConnection, Take, ReadRequest, Respond, Arm, ClientTypes
<1> QED
  BY <1>2, <1>3, <1>4, <1>5, <1>6, <1>7 DEF Step

\* The event of the main thread, while it has one, is of an open connection.
LEMMA MainFd ==
  ASSUME IInv, main.hup \/ main.in \/ main.out
  PROVE  /\ main.fd \in Fds /\ owner[main.fd] \in Conns
         /\ request[main.fd] \in Requests
BY DEF IInv, MainInv, Polling, Event, Types, ProgramTypes, KernelTypes

\* What read() returns is a part of the inbox.
LEMMA Packet ==
  ASSUME IInv, NEW c \in Conns, ReadPacket(c)
  PROVE  /\ main.fd \in Fds /\ owner[main.fd] = c /\ request[main.fd] \in Requests
         /\ main.in /\ ~main.hup
         /\ inbox[c] \in Seq(Units) /\ inbox[c] # <<>>
         /\ \E k \in 1..Len(inbox[c]) :
              LET packet == SubSeq(inbox[c], 1, k)
              IN  /\ inbox' = [inbox EXCEPT ![c] = SubSeq(inbox[c], k + 1, Len(inbox[c]))]
                  /\ request' = [request EXCEPT ![main.fd] =
                                   Received(request[main.fd], packet)]
                  /\ IF Complete(request[main.fd], packet)
                       THEN main' = Polling /\ Queue!Push(main.fd)
                       ELSE UNCHANGED <<main, pending, running>>
<1>1. inbox \in [Conns -> Seq(Units)] /\ request \in [Fds -> Requests]
  BY DEF IInv, Types, KernelTypes, ProgramTypes
<1>2. /\ main.fd \in Fds /\ owner[main.fd] = c /\ request[main.fd] \in Requests
      /\ main.in /\ ~main.hup /\ inbox[c] # <<>>
  BY MainFd DEF ReadPacket, Reading
<1> DEFINE k == IF Len(inbox[c]) < ReadSize THEN Len(inbox[c]) ELSE ReadSize
<1>3. k \in 1..Len(inbox[c])
  <2>1. Len(inbox[c]) \in Nat \ {0}
    BY <1>1, <1>2, EmptySeq
  <2> QED
    BY <2>1, LengthsAssumption
<1>4. /\ inbox' = [inbox EXCEPT ![c] = SubSeq(inbox[c], k + 1, Len(inbox[c]))]
      /\ request' = [request EXCEPT ![main.fd] =
                       Received(request[main.fd], SubSeq(inbox[c], 1, k))]
      /\ IF Complete(request[main.fd], SubSeq(inbox[c], 1, k))
           THEN main' = Polling /\ Queue!Push(main.fd)
           ELSE UNCHANGED <<main, pending, running>>
  BY <1>1, <1>2 DEF ReadPacket
<1> HIDE DEF k
<1> QED
  BY <1>1, <1>2, <1>3, <1>4

LEMMA KernelTypesStep == ASSUME IInv, Step PROVE KernelTypes'
<1> USE DEF Client, Network, MainStep, Worker, clientVars, kernelVars, epollVars, poolVars
<1>1. KernelTypes /\ ClientTypes /\ ProgramTypes
  BY DEF IInv, Types
<1>2. inbox' \in [Conns -> Seq(Units)]
  <2>1. ASSUME NEW c \in Conns, Deliver(c) PROVE inbox' \in [Conns -> Seq(Units)]
    <3>1. PICK k \in 1..Len(wire[c]) :
            inbox' = [inbox EXCEPT ![c] = @ \o SubSeq(wire[c], 1, k)]
      BY <2>1 DEF Deliver
    <3>2. SubSeq(wire[c], 1, k) \in Seq(Units)
      BY <1>1, <2>1, Split DEF Deliver, ClientTypes
    <3>3. inbox[c] \o SubSeq(wire[c], 1, k) \in Seq(Units)
      BY <1>1, <3>2, ConcatProperties DEF KernelTypes
    <3> QED
      BY <1>1, <3>1, <3>3 DEF KernelTypes
  <2>2. ASSUME NEW c \in Conns, ReadPacket(c) PROVE inbox' \in [Conns -> Seq(Units)]
    <3>1. PICK k \in 1..Len(inbox[c]) :
            inbox' = [inbox EXCEPT ![c] = SubSeq(inbox[c], k + 1, Len(inbox[c]))]
      BY <2>2, Packet
    <3>2. SubSeq(inbox[c], k + 1, Len(inbox[c])) \in Seq(Units)
      BY <1>1, <2>2, Split DEF ReadPacket, KernelTypes
    <3> QED
      BY <1>1, <3>1, <3>2 DEF KernelTypes
  <2>3. CASE \A c \in Conns : ~Deliver(c) /\ ~ReadPacket(c)
    BY <1>1, <2>3
       DEF Step, KernelTypes, Connect, SendRequest, Hangup, Drain, Wait, Accept,
           CloseConnection, ReadBlocked, ReadFailed, WriteAll, WriteSome, WriteFailed, Take,
           ReadRequest, Respond, Arm
  <2> QED
    BY <2>1, <2>2, <2>3
<1>3. /\ conn' \in [Conns -> {"new", "backlog", "open", "closed"}]
      /\ fin' \in [Conns -> BOOLEAN] /\ full' \in [Conns -> BOOLEAN]
  BY <1>1
     DEF Step, KernelTypes, Connect, SendRequest, Deliver, Hangup, Drain, Wait, Accept,
         CloseConnection, ReadPacket, ReadBlocked, ReadFailed, WriteAll, WriteSome,
         WriteFailed, Take, ReadRequest, Respond, Arm
<1>4. owner' \in [Fds -> Conns \cup {NoConn}]
  BY <1>1
     DEF Step, KernelTypes, Connect, SendRequest, Deliver, Hangup, Drain, Wait, Accept,
         CloseConnection, ReadPacket, ReadBlocked, ReadFailed, WriteAll, WriteSome,
         WriteFailed, FinishWrite, Modify, Take, ReadRequest, Respond, Arm
<1>5. interest' \in [Fds -> {"in", "out", "none"}] /\ ready' \in SUBSET Fds
  <2>1. ASSUME NEW c \in Conns, Client(c) \/ Network(c)
        PROVE  interest' = interest /\ ready' \in SUBSET Fds
    BY <1>1, <2>1
       DEF KernelTypes, FdOf, Connect, SendRequest, Deliver, Hangup, Drain
  <2>2. ASSUME NEW fd \in Fds, Wait(fd) \/ \E c \in Conns : Accept(c, fd)
        PROVE  interest' \in [Fds -> {"in", "out", "none"}] /\ ready' \in SUBSET Fds
    BY <1>1, <2>2 DEF KernelTypes, Wait, Accept, Register
  <2>3. CASE CloseConnection
    BY <1>1, <2>3 DEF KernelTypes, CloseConnection
  <2>4. ASSUME NEW c \in Conns,
               ReadPacket(c) \/ ReadBlocked(c) \/ ReadFailed(c) \/ WriteSome(c)
        PROVE  UNCHANGED <<interest, ready>>
    BY <2>4 DEF ReadPacket, ReadBlocked, ReadFailed, WriteSome
  <2>5. ASSUME NEW c \in Conns, WriteAll(c) \/ WriteFailed(c)
        PROVE  interest' \in [Fds -> {"in", "out", "none"}] /\ ready' \in SUBSET Fds
    <3>1. main.fd \in Fds
      BY <2>5, MainFd DEF WriteAll, WriteFailed, Writing
    <3> QED
      BY <1>1, <2>5, <3>1 DEF KernelTypes, WriteAll, WriteFailed, FinishWrite, Modify
  <2>6. ASSUME NEW w \in Workers, Take(w) \/ ReadRequest(w) \/ Respond(w)
        PROVE  UNCHANGED <<interest, ready>>
    BY <2>6 DEF Take, ReadRequest, Respond
  <2>7. ASSUME NEW w \in Workers, Arm(w)
        PROVE  interest' \in [Fds -> {"in", "out", "none"}] /\ ready' \in SUBSET Fds
    <3>1. running[w] \in Fds
      BY <1>1, <2>7 DEF Arm, Queue!Release, ProgramTypes
    <3> QED
      BY <1>1, <2>7, <3>1 DEF KernelTypes, Arm, Modify
  <2> QED
    BY <1>1, <2>1, <2>2, <2>3, <2>4, <2>5, <2>6, <2>7 DEF Step, KernelTypes
<1> QED
  BY <1>2, <1>3, <1>4, <1>5 DEF KernelTypes

LEMMA RequestTypesStep == ASSUME IInv, Step PROVE request' \in [Fds -> Requests]
<1> USE DEF Client, Network, MainStep, Worker, clientVars, kernelVars, epollVars, poolVars
<1>1. request \in [Fds -> Requests] /\ seen \in [Workers -> Responses]
      /\ running \in [Workers -> Fds \cup {NoFd}]
  BY DEF IInv, Types, ProgramTypes
<1>2. EmptyRequest \in Requests
  BY EmptySeq DEF EmptyRequest, Requests
<1>3. ASSUME NEW c \in Conns, NEW fd \in Fds, Accept(c, fd) PROVE request' \in [Fds -> Requests]
  BY <1>1, <1>2, <1>3 DEF Accept, Register
<1>4. ASSUME NEW c \in Conns, ReadPacket(c) PROVE request' \in [Fds -> Requests]
  <2>1. PICK k \in 1..Len(inbox[c]) :
          request' = [request EXCEPT ![main.fd] =
                        Received(request[main.fd], SubSeq(inbox[c], 1, k))]
    BY <1>4, Packet
  <2>a. inbox[c] \in Seq(Units) /\ inbox[c] # <<>>
    BY <1>4, Packet
  <2>2. SubSeq(inbox[c], 1, k) \in Seq(Units) /\ SubSeq(inbox[c], 1, k) # <<>>
    BY <2>a, Split
  <2>3. Received(request[main.fd], SubSeq(inbox[c], 1, k)) \in Requests
    BY <1>4, <2>2, Packet, ReceivedType
  <2> QED
    BY <1>1, <2>1, <2>3
<1>5. ASSUME NEW c \in Conns, ReadFailed(c) \/ WriteAll(c) \/ WriteFailed(c)
      PROVE  request' \in [Fds -> Requests]
  BY <1>1, <1>2, <1>5 DEF ReadFailed, WriteAll, WriteFailed, FinishWrite, Clear
<1>6. ASSUME NEW c \in Conns, WriteSome(c) PROVE request' \in [Fds -> Requests]
  <2>1. request[main.fd] \in Requests /\ request[main.fd].pos \in Nat
        /\ Len(request[main.fd].response) \in Nat
    BY <1>6, MainFd, LenProperties DEF WriteSome, Writing, Requests
  <2>2. PICK k \in 1..Remaining(request[main.fd]) - 1 :
          request' = [request EXCEPT ![main.fd].pos = @ + k]
    BY <1>6 DEF WriteSome
  <2>3. request[main.fd].pos + k \in Nat
    BY <2>1, <2>2 DEF Remaining, ResponseLen
  <2> DEFINE r == [request[main.fd] EXCEPT !.pos = @ + k]
  <2>4. r \in Requests
    BY <2>1, <2>3 DEF Requests
  <2>5. request' = [request EXCEPT ![main.fd] = r]
    BY <2>2
  <2> HIDE DEF r
  <2> QED
    BY <1>1, <2>4, <2>5
<1>7. ASSUME NEW w \in Workers, Respond(w) PROVE request' \in [Fds -> Requests]
  <2>1. request' = [request EXCEPT ![running[w]].response = Append(@, seen[w])]
    BY <1>7 DEF Respond
  <2>2. ASSUME running[w] \in Fds PROVE request' \in [Fds -> Requests]
    <3> DEFINE r == [request[running[w]] EXCEPT !.response = Append(@, seen[w])]
    <3>1. request[running[w]] \in Requests
      BY <1>1, <2>2
    <3>2. request[running[w]].response \in Seq(Responses)
      BY <3>1 DEF Requests
    <3>3. Append(request[running[w]].response, seen[w]) \in Seq(Responses)
      BY <1>1, <3>2, AppendProperties
    <3>4. r \in Requests
      BY <3>1, <3>3 DEF Requests
    <3>5. request' = [request EXCEPT ![running[w]] = r]
      BY <2>1
    <3> HIDE DEF r
    <3> QED
      BY <1>1, <3>4, <3>5
  <2>3. running[w] # NoFd
    BY <1>7 DEF Respond, IInv, WorkerInv
  <2> QED
    BY <1>1, <2>2, <2>3
<1>8. ASSUME NEW c \in Conns,
             Connect(c) \/ SendRequest(c) \/ Hangup(c) \/ Deliver(c) \/ Drain(c) \/ ReadBlocked(c)
      PROVE  request' \in [Fds -> Requests]
  BY <1>1, <1>8 DEF Connect, SendRequest, Hangup, Deliver, Drain, ReadBlocked
<1>9. CASE \/ \E fd \in Fds : Wait(fd)
           \/ CloseConnection
           \/ \E w \in Workers : Take(w) \/ ReadRequest(w) \/ Arm(w)
  BY <1>1, <1>9 DEF Wait, CloseConnection, Take, ReadRequest, Arm
<1> QED
  BY <1>3, <1>4, <1>5, <1>6, <1>7, <1>8, <1>9 DEF Step

LEMMA PoolStep ==
  ASSUME IInv, Step
  PROVE  /\ pending' \in Seq(Fds) /\ running' \in [Workers -> Fds \cup {NoFd}]
         /\ at' \in [Workers -> {"idle", "read", "respond", "arm"}]
         /\ WorkerInv'
<1> USE DEF Client, Network, MainStep, Worker, clientVars, kernelVars, epollVars, poolVars
<1>1. /\ pending \in Seq(Fds) /\ running \in [Workers -> Fds \cup {NoFd}]
      /\ at \in [Workers -> {"idle", "read", "respond", "arm"}]
      /\ WorkerInv
  BY DEF IInv, Types, ProgramTypes
<1> DEFINE Goal == /\ pending' \in Seq(Fds) /\ running' \in [Workers -> Fds \cup {NoFd}]
                   /\ at' \in [Workers -> {"idle", "read", "respond", "arm"}]
                   /\ WorkerInv'
<1>2. ASSUME NEW c \in Conns, ReadPacket(c) PROVE Goal
  <2>1. main.fd \in Fds
    BY <1>2, Packet
  <2>2. /\ \/ UNCHANGED <<pending, running>>
           \/ pending' = Append(pending, main.fd) /\ UNCHANGED running
        /\ UNCHANGED at
    BY <1>2, Packet DEF ReadPacket, Queue!Push
  <2>3. Append(pending, main.fd) \in Seq(Fds)
    BY <1>1, <2>1, AppendProperties
  <2> QED
    BY <1>1, <2>2, <2>3 DEF WorkerInv
<1>3. ASSUME NEW w \in Workers, Take(w) PROVE Goal
  <2>1. Head(pending) \in Fds /\ Tail(pending) \in Seq(Fds)
    BY <1>1, <1>3, HeadTailProperties DEF Take, Queue!Pop
  <2>2. /\ running' = [running EXCEPT ![w] = Head(pending)] /\ pending' = Tail(pending)
        /\ at' = [at EXCEPT ![w] = "read"]
    BY <1>3 DEF Take, Queue!Pop
  <2>3. Head(pending) # NoFd
    BY <2>1, ConnsAssumption
  <2> QED
    BY <1>1, <2>1, <2>2, <2>3 DEF WorkerInv
<1>4. ASSUME NEW w \in Workers, ReadRequest(w) \/ Respond(w) \/ Arm(w) PROVE Goal
  BY <1>1, <1>4 DEF ReadRequest, Respond, Arm, Queue!Release, WorkerInv
<1>5. CASE /\ \A c \in Conns : ~ReadPacket(c)
           /\ \A w \in Workers : ~Worker(w)
  <2>1. UNCHANGED <<pending, running, at>>
    BY <1>5
       DEF Step, Connect, SendRequest, Deliver, Hangup, Drain, Wait, Accept,
           CloseConnection, ReadBlocked, ReadFailed, WriteAll, WriteSome, WriteFailed
  <2> QED
    BY <1>1, <2>1 DEF WorkerInv
<1> QED
  BY <1>2, <1>3, <1>4, <1>5

LEMMA SeenStep == ASSUME IInv, Step PROVE seen' \in [Workers -> Responses]
<1> USE DEF Client, Network, MainStep, Worker, clientVars, kernelVars, epollVars, poolVars
<1>1. seen \in [Workers -> Responses] /\ running \in [Workers -> Fds \cup {NoFd}]
      /\ request \in [Fds -> Requests]
  BY DEF IInv, Types, ProgramTypes
<1>2. NoResponse \in Responses
  BY DEF NoResponse, Response, Responses
<1>3. ASSUME NEW w \in Workers, ReadRequest(w) PROVE seen' \in [Workers -> Responses]
  <2> DEFINE r == request[running[w]]
  <2>1. running[w] \in Fds
    BY <1>1, <1>3 DEF ReadRequest, IInv, WorkerInv
  <2>2. r \in Requests
    BY <1>1, <2>1
  <2>3. ASSUME r.payload # <<>>
        PROVE  Response(r.payload[1].conn, r.payload[1].n, r.err) \in Responses
    <3>1. r.payload \in Seq(Units) /\ r.err \in BOOLEAN
      BY <2>2 DEF Requests
    <3>2. Len(r.payload) \in Nat \ {0}
      BY <2>3, <3>1, EmptySeq
    <3>3. r.payload[1] \in Units
      BY <3>1, <3>2, ElementOfSeq
    <3> QED
      BY <3>1, <3>3 DEF Response, Responses, Units
  <2>4. seen' = [seen EXCEPT ![w] =
                   IF r.payload = <<>> THEN NoResponse
                   ELSE Response(r.payload[1].conn, r.payload[1].n, r.err)]
    BY <1>3 DEF ReadRequest
  <2> HIDE DEF r
  <2> QED
    BY <1>1, <1>2, <2>3, <2>4
<1>4. ASSUME NEW w \in Workers, Arm(w) PROVE seen' \in [Workers -> Responses]
  BY <1>1, <1>2, <1>4 DEF Arm
<1>5. CASE \A w \in Workers : ~ReadRequest(w) /\ ~Arm(w)
  <2>1. seen' = seen
    BY <1>5
       DEF Step, Connect, SendRequest, Deliver, Hangup, Drain, Wait, Accept,
           CloseConnection, ReadPacket, ReadBlocked, ReadFailed, WriteAll, WriteSome,
           WriteFailed, Take, Respond
  <2> QED
    BY <1>1, <2>1
<1> QED
  BY <1>3, <1>4, <1>5

LEMMA TypesStep == ASSUME IInv, Step PROVE Types'
<1> USE DEF Client, Network, MainStep, Worker, clientVars, kernelVars, epollVars, poolVars
<1>1. main' \in [fd : Fds \cup {NoFd}, hup : BOOLEAN, in : BOOLEAN, out : BOOLEAN]
  <2>1. Polling \in [fd : Fds \cup {NoFd}, hup : BOOLEAN, in : BOOLEAN, out : BOOLEAN]
    BY DEF Polling, Event
  <2>2. main \in [fd : Fds \cup {NoFd}, hup : BOOLEAN, in : BOOLEAN, out : BOOLEAN]
    BY DEF IInv, Types, ProgramTypes
  <2>3. ASSUME NEW fd \in Fds, Wait(fd)
        PROVE  main' \in [fd : Fds \cup {NoFd}, hup : BOOLEAN, in : BOOLEAN, out : BOOLEAN]
    <3>1. fin[owner[fd]] \in BOOLEAN
      BY <2>3 DEF Wait, IInv, OwnerInv, Types, KernelTypes
    <3> QED
      BY <2>2, <2>3, <3>1 DEF Wait, Event
  <2>4. CASE \A fd \in Fds : ~Wait(fd)
    <3>1. main' = main \/ main' = Polling
      BY <2>4
         DEF Step, Connect, SendRequest, Deliver, Hangup, Drain, Accept,
             CloseConnection, ReadPacket, ReadBlocked, ReadFailed, WriteAll, WriteSome,
             WriteFailed, FinishWrite, Take, ReadRequest, Respond, Arm
    <3> QED
      BY <2>1, <2>2, <3>1
  <2> QED
    BY <2>3, <2>4
<1>2. ProgramTypes'
  BY <1>1, RequestTypesStep, PoolStep, SeenStep DEF ProgramTypes
<1> QED
  BY <1>2, ClientTypesStep, KernelTypesStep DEF Types

-----------------------------------------------------------------------------
(* Descriptors and the event of the main thread. *)

LEMMA OwnerStep == ASSUME IInv, Step PROVE OwnerInv'
<1> USE DEF Client, Network, MainStep, Worker, clientVars, kernelVars, epollVars, poolVars
<1>1. /\ OwnerInv /\ conn \in [Conns -> {"new", "backlog", "open", "closed"}]
      /\ owner \in [Fds -> Conns \cup {NoConn}] /\ interest \in [Fds -> {"in", "out", "none"}]
      /\ running \in [Workers -> Fds \cup {NoFd}] /\ ready \subseteq Fds
  BY DEF IInv, Types, KernelTypes, ProgramTypes
<1>2. ASSUME NEW c \in Conns, Connect(c) PROVE OwnerInv'
  BY <1>1, <1>2 DEF Connect, OwnerInv
<1>3. ASSUME NEW c \in Conns,
             SendRequest(c) \/ Deliver(c) \/ Hangup(c) \/ Drain(c)
      PROVE  OwnerInv'
  <2>1. /\ UNCHANGED <<conn, owner, interest>>
        /\ \A fd \in ready' : fd \in ready \/ owner[fd] = c
    BY <1>3 DEF SendRequest, Deliver, Hangup, Drain, FdOf
  <2> QED
    BY <1>1, <2>1, ConnsAssumption DEF OwnerInv
<1>4. ASSUME NEW fd \in Fds, Wait(fd) PROVE OwnerInv'
  BY <1>1, <1>4 DEF Wait, OwnerInv
<1>5. ASSUME NEW c \in Conns, NEW fd \in Fds, Accept(c, fd) PROVE OwnerInv'
  <2>1. /\ conn' = [conn EXCEPT ![c] = "open"] /\ owner' = [owner EXCEPT ![fd] = c]
        /\ interest' = [interest EXCEPT ![fd] = "in"] /\ ready' \subseteq ready \cup {fd}
        /\ conn[c] = "backlog" /\ owner[fd] = NoConn
    BY <1>5 DEF Accept, Register
  <2> QED
    BY <1>1, <2>1, ConnsAssumption DEF OwnerInv
<1>6. CASE CloseConnection
  <2>1. /\ main.fd \in Fds /\ owner[main.fd] \in Conns
    BY <1>6, MainFd DEF CloseConnection
  <2>2. /\ conn' = [conn EXCEPT ![owner[main.fd]] = "closed"]
        /\ owner' = [owner EXCEPT ![main.fd] = NoConn]
        /\ interest' = [interest EXCEPT ![main.fd] = "none"] /\ ready' = ready \ {main.fd}
    BY <1>6 DEF CloseConnection
  <2> QED
    BY <1>1, <2>1, <2>2, ConnsAssumption DEF OwnerInv
<1>7. ASSUME NEW c \in Conns, WriteAll(c) \/ WriteFailed(c) PROVE OwnerInv'
  <2>1. main.fd \in Fds /\ owner[main.fd] \in Conns
    BY <1>7, MainFd DEF WriteAll, WriteFailed, Writing
  <2>2. /\ UNCHANGED <<conn, owner>> /\ interest' = [interest EXCEPT ![main.fd] = "in"]
        /\ ready' \subseteq ready \cup {main.fd}
    BY <1>7 DEF WriteAll, WriteFailed, FinishWrite, Modify
  <2> QED
    BY <1>1, <2>1, <2>2, ConnsAssumption DEF OwnerInv
<1>8. ASSUME NEW c \in Conns,
             ReadPacket(c) \/ ReadBlocked(c) \/ ReadFailed(c) \/ WriteSome(c)
      PROVE  OwnerInv'
  BY <1>1, <1>8 DEF ReadPacket, ReadBlocked, ReadFailed, WriteSome, OwnerInv
<1>9. ASSUME NEW w \in Workers, Take(w) \/ ReadRequest(w) \/ Respond(w) PROVE OwnerInv'
  BY <1>1, <1>9 DEF Take, ReadRequest, Respond, OwnerInv
<1>10. ASSUME NEW w \in Workers, Arm(w) PROVE OwnerInv'
  <2>1. running[w] \in Fds
    BY <1>1, <1>10 DEF Arm, Queue!Release
  <2> QED
    BY <1>1, <1>10, <2>1 DEF Arm, Modify, OwnerInv
<1> QED
  BY <1>2, <1>3, <1>4, <1>5, <1>6, <1>7, <1>8, <1>9, <1>10 DEF Step

LEMMA UnitsStep == ASSUME IInv, Step PROVE UnitsInv'
<1> USE DEF Client, Network, MainStep, Worker, clientVars, kernelVars, epollVars, poolVars
<1>1. /\ UnitsInv /\ sent \in [Conns -> Seq(Kinds)]
      /\ wire \in [Conns -> Seq(Units)] /\ inbox \in [Conns -> Seq(Units)]
  BY DEF IInv, Types, ClientTypes, KernelTypes
<1>3. ASSUME NEW c \in Conns, SendRequest(c) PROVE UnitsInv'
  <2>1. PICK k \in Kinds :
          wire' = [wire EXCEPT ![c] = wire[c] \o Message(c, Len(sent[c]) + 1, k)]
    BY <1>1, <1>3 DEF SendRequest
  <2>2. Len(sent[c]) + 1 \in Nat
    BY <1>1, LenProperties
  <2> DEFINE m == Message(c, Len(sent[c]) + 1, k)
  <2>3. m \in Seq(Units) /\ \A i \in DOMAIN m : m[i].conn = c
    <3>1. m \in Seq(Units) /\ Len(m) = HeadLen + k.body
          /\ \A i \in 1..HeadLen + k.body : m[i] = Unit(c, Len(sent[c]) + 1, k, i)
      BY <2>2, MessageType
    <3>2. DOMAIN m = 1..HeadLen + k.body
      BY <3>1, LenProperties
    <3>3. \A i : Unit(c, Len(sent[c]) + 1, k, i).conn = c
      BY DEF Unit
    <3> HIDE DEF m
    <3> QED
      BY <3>1, <3>2, <3>3
  <2>4. wire' = [wire EXCEPT ![c] = wire[c] \o m]
    BY <2>1
  <2> HIDE DEF m
  <2>5. \A i \in DOMAIN (wire[c] \o m) : (wire[c] \o m)[i].conn = c
    BY <1>1, <2>3, ConcatOf DEF UnitsInv
  <2>6. inbox' = inbox
    BY <1>3 DEF SendRequest
  <2> QED
    BY <1>1, <2>4, <2>5, <2>6 DEF UnitsInv
<1>4. ASSUME NEW c \in Conns, Deliver(c) PROVE UnitsInv'
  <2>1. PICK k \in 1..Len(wire[c]) :
          /\ inbox' = [inbox EXCEPT ![c] = inbox[c] \o SubSeq(wire[c], 1, k)]
          /\ wire' = [wire EXCEPT ![c] = SubSeq(wire[c], k + 1, Len(wire[c]))]
    BY <1>1, <1>4 DEF Deliver
  <2> DEFINE s == SubSeq(wire[c], 1, k)
             t == SubSeq(wire[c], k + 1, Len(wire[c]))
  <2>2. wire[c] \in Seq(Units) /\ wire[c] # <<>>
    BY <1>1, <1>4 DEF Deliver
  <2>3. /\ s \in Seq(Units) /\ \A i \in DOMAIN s : \E j \in DOMAIN wire[c] : s[i] = wire[c][j]
        /\ \A i \in DOMAIN t : \E j \in DOMAIN wire[c] : t[i] = wire[c][j]
    BY <2>2, Split
  <2>4. inbox' = [inbox EXCEPT ![c] = inbox[c] \o s] /\ wire' = [wire EXCEPT ![c] = t]
    BY <2>1
  <2> HIDE DEF s, t
  <2>5. (\A i \in DOMAIN s : s[i].conn = c) /\ \A i \in DOMAIN t : t[i].conn = c
    BY <1>1, <2>3 DEF UnitsInv
  <2>6. \A i \in DOMAIN (inbox[c] \o s) : (inbox[c] \o s)[i].conn = c
    BY <1>1, <2>3, <2>5, ConcatOf DEF UnitsInv
  <2> QED
    BY <1>1, <2>4, <2>5, <2>6 DEF UnitsInv
<1>5. ASSUME NEW c \in Conns, Hangup(c) PROVE UnitsInv'
  BY <1>1, <1>5 DEF Hangup, UnitsInv
<1>6. ASSUME NEW c \in Conns, ReadPacket(c) PROVE UnitsInv'
  <2>1. inbox[c] \in Seq(Units) /\ inbox[c] # <<>>
    BY <1>6, Packet
  <2>2. PICK k \in 1..Len(inbox[c]) :
          inbox' = [inbox EXCEPT ![c] = SubSeq(inbox[c], k + 1, Len(inbox[c]))]
    BY <1>6, Packet
  <2> DEFINE t == SubSeq(inbox[c], k + 1, Len(inbox[c]))
  <2>3. \A i \in DOMAIN t : \E j \in DOMAIN inbox[c] : t[i] = inbox[c][j]
    BY <2>1, Split
  <2>4. inbox' = [inbox EXCEPT ![c] = t] /\ wire' = wire
    BY <1>6, <2>2 DEF ReadPacket
  <2> HIDE DEF t
  <2> QED
    BY <1>1, <2>3, <2>4 DEF UnitsInv
<1>7. CASE \A c \in Conns : ~(SendRequest(c) \/ Deliver(c) \/ Hangup(c) \/ ReadPacket(c))
  <2>1. wire' = wire /\ inbox' = inbox
    BY <1>7
       DEF Step, Connect, Drain, Wait, Accept, CloseConnection, ReadBlocked, ReadFailed,
           WriteAll, WriteSome, WriteFailed, Take, ReadRequest, Respond, Arm
  <2> QED
    BY <1>1, <2>1 DEF UnitsInv
<1> QED
  BY <1>3, <1>4, <1>5, <1>6, <1>7

LEMMA MainStepInv == ASSUME IInv, Step PROVE MainInv'
<1> USE DEF Client, Network, MainStep, Worker, clientVars, kernelVars, epollVars, poolVars
<1>1. /\ MainInv /\ Polling.fd = NoFd
      /\ fin \in [Conns -> BOOLEAN] /\ full \in [Conns -> BOOLEAN]
      /\ interest \in [Fds -> {"in", "out", "none"}] /\ owner \in [Fds -> Conns \cup {NoConn}]
      /\ main.fd \in Fds \cup {NoFd}
  BY DEF IInv, Types, KernelTypes, ProgramTypes, Polling, Event
<1>2. ASSUME main' = Polling PROVE MainInv'
  BY <1>1, <1>2 DEF MainInv, Polling, Event
<1>3. ASSUME NEW c \in Conns, Connect(c) \/ SendRequest(c) \/ Deliver(c) PROVE MainInv'
  <2>1. UNCHANGED <<main, owner, interest, fin, full>> /\ ready \subseteq ready'
    BY <1>3 DEF Connect, SendRequest, Deliver
  <2> QED
    BY <1>1, <2>1 DEF MainInv, Level, Readable, Writable, Polling, Event
<1>4. ASSUME NEW c \in Conns, Hangup(c) PROVE MainInv'
  <2>1. /\ UNCHANGED <<main, owner, interest, full>>
        /\ fin' = [fin EXCEPT ![c] = TRUE] /\ ready' = ready \cup FdOf(c)
    BY <1>4 DEF Hangup
  <2> QED
    BY <1>1, <2>1 DEF MainInv, Level, Readable, Writable, Polling, Event, FdOf
<1>5. ASSUME NEW c \in Conns, Drain(c) PROVE MainInv'
  <2>1. /\ UNCHANGED <<main, owner, interest, fin>>
        /\ full' = [full EXCEPT ![c] = FALSE]
        /\ ready' = ready \cup {fd \in FdOf(c) : interest[fd] = "out"}
    BY <1>5 DEF Drain
  <2> QED
    BY <1>1, <2>1 DEF MainInv, Level, Readable, Writable, Polling, Event, FdOf
<1>6. ASSUME NEW fd \in Fds, Wait(fd) PROVE MainInv'
  <2>1. /\ UNCHANGED <<owner, interest, fin, full>>
        /\ main = Polling /\ owner[fd] # NoConn /\ fd # NoFd
        /\ fin[owner[fd]] \in BOOLEAN
        /\ main' = IF Level(fd, interest[fd])
                     THEN Event(fd, fin[owner[fd]],
                                interest[fd] = "in" /\ Readable(fd),
                                interest[fd] = "out" /\ Writable(fd))
                     ELSE main
    BY <1>1, <1>6, ConnsAssumption DEF Wait, IInv, OwnerInv
  <2> QED
    BY <1>1, <1>2, <2>1 DEF MainInv, Level, Event
<1>7. ASSUME NEW c \in Conns, NEW fd \in Fds, Accept(c, fd) PROVE MainInv'
  BY <1>2, <1>7 DEF Accept
<1>8. CASE CloseConnection
  BY <1>2, <1>8 DEF CloseConnection
<1>9. ASSUME NEW c \in Conns, ReadPacket(c) PROVE MainInv'
  <2>1. UNCHANGED <<owner, interest, fin, full, ready>> /\ (main' = main \/ main' = Polling)
    BY <1>9 DEF ReadPacket
  <2> QED
    BY <1>1, <1>2, <2>1 DEF MainInv, Level, Readable, Writable, Polling, Event
<1>10. ASSUME NEW c \in Conns,
              ReadBlocked(c) \/ ReadFailed(c) \/ WriteAll(c) \/ WriteSome(c) \/ WriteFailed(c)
       PROVE  MainInv'
  BY <1>2, <1>10 DEF ReadBlocked, ReadFailed, WriteAll, WriteSome, WriteFailed, FinishWrite
<1>11. ASSUME NEW w \in Workers, Take(w) \/ ReadRequest(w) \/ Respond(w) PROVE MainInv'
  <2>1. UNCHANGED <<main, owner, interest, fin, full, ready>>
    BY <1>11 DEF Take, ReadRequest, Respond
  <2> QED
    BY <1>1, <2>1 DEF MainInv, Level, Readable, Writable, Polling, Event
<1>12. ASSUME NEW w \in Workers, Arm(w) PROVE MainInv'
  <2>1. /\ UNCHANGED <<main, owner, fin, full>>
        /\ \/ UNCHANGED <<interest, ready>>
           \/ /\ interest' = [interest EXCEPT ![running[w]] = "out"]
              /\ ready' = IF Level(running[w], "out") THEN ready \cup {running[w]} ELSE ready
    BY <1>12 DEF Arm, Modify
  <2>2. CASE UNCHANGED <<interest, ready>>
    BY <1>1, <2>1, <2>2 DEF MainInv, Level, Readable, Writable, Polling, Event
  <2>3. CASE /\ interest' = [interest EXCEPT ![running[w]] = "out"]
             /\ ready' = IF Level(running[w], "out") THEN ready \cup {running[w]} ELSE ready
    <3>1. ASSUME main.fd # NoFd PROVE MainInv'
      <4>1. /\ main' = main /\ owner' = owner /\ fin' = fin /\ full' = full
            /\ ready \subseteq ready' /\ main.fd \in Fds
            /\ interest'[main.fd] = interest[main.fd] \/ main.fd = running[w]
            /\ interest[main.fd] = "out" => interest'[main.fd] = "out"
        BY <1>1, <2>1, <2>3, <3>1
      <4>2. Level(main.fd, "out")' <=> Level(main.fd, "out")
        BY <4>1 DEF Level, Writable
      <4>3. main.fd = running[w] /\ Level(main.fd, "out") => main.fd \in ready'
        BY <2>3
      <4>4. /\ main.hup => fin[owner[main.fd]]
            /\ ~main.hup /\ fin[owner[main.fd]] => main.fd \in ready
            /\ main.out => interest[main.fd] = "out"
            /\ owner[main.fd] # NoConn /\ (main.hup \/ main.in \/ main.out)
            /\ ~main.hup /\ main.in /\ interest[main.fd] = "out" /\ Level(main.fd, "out")
                 => main.fd \in ready
        BY <1>1, <3>1 DEF MainInv
      <4> QED
        BY <3>1, <4>1, <4>2, <4>3, <4>4 DEF MainInv
    <3>2. ASSUME main.fd = NoFd PROVE MainInv'
      BY <1>1, <1>2, <2>1, <3>2 DEF MainInv
    <3> QED
      BY <3>1, <3>2
  <2> QED
    BY <2>1, <2>2, <2>3
<1> QED
  BY <1>3, <1>4, <1>5, <1>6, <1>7, <1>8, <1>9, <1>10, <1>11, <1>12 DEF Step

\* The payloads of other objects stay; the one in hand gets bytes of its owner,
\* or is emptied.
LEMMA PayloadStep == ASSUME IInv, Step PROVE PayloadOfOwner'
<1> USE DEF Client, Network, MainStep, Worker, clientVars, kernelVars, epollVars, poolVars
<1>1. /\ PayloadOfOwner /\ UnitsInv /\ request \in [Fds -> Requests]
      /\ owner \in [Fds -> Conns \cup {NoConn}]
  BY DEF IInv, Types, KernelTypes, ProgramTypes
<1>2. DOMAIN <<>> = {} /\ EmptyRequest.payload = <<>>
  BY DEF EmptyRequest
<1>3. ASSUME \A fd \in Fds :
               \/ request'[fd].payload = <<>> \/ owner'[fd] = NoConn
               \/ request'[fd].payload = request[fd].payload /\ owner'[fd] = owner[fd]
      PROVE  PayloadOfOwner'
  BY <1>1, <1>2, <1>3 DEF PayloadOfOwner
<1>4. ASSUME NEW c \in Conns, ReadPacket(c) PROVE PayloadOfOwner'
  <2>1. /\ main.fd \in Fds /\ owner[main.fd] = c /\ request[main.fd] \in Requests
        /\ inbox[c] \in Seq(Units) /\ inbox[c] # <<>>
    BY <1>4, Packet
  <2>2. PICK k \in 1..Len(inbox[c]) :
          request' = [request EXCEPT ![main.fd] =
                        Received(request[main.fd], SubSeq(inbox[c], 1, k))]
    BY <1>4, Packet
  <2> DEFINE packet == SubSeq(inbox[c], 1, k)
             old == request[main.fd].payload
  <2>3. /\ packet \in Seq(Units) /\ packet # <<>>
        /\ \A i \in DOMAIN packet : \E j \in DOMAIN inbox[c] : packet[i] = inbox[c][j]
    <3>1. inbox[c] \in Seq(Units) /\ inbox[c] # <<>>
      BY <2>1
    <3>2. SubSeq(inbox[c], 1, k) \in Seq(Units) /\ SubSeq(inbox[c], 1, k) # <<>>
      BY <3>1, Split
    <3>3. \A i \in DOMAIN SubSeq(inbox[c], 1, k) :
            \E j \in DOMAIN inbox[c] : SubSeq(inbox[c], 1, k)[i] = inbox[c][j]
      BY <3>1, Split
    <3> QED
      BY <3>2, <3>3
  <2>4. request' = [request EXCEPT ![main.fd] = Received(request[main.fd], packet)]
    BY <2>2
  <2> HIDE DEF packet
  <2>5. \A i \in DOMAIN packet : packet[i].conn = c
    BY <1>1, <2>3 DEF UnitsInv
  <2>6. Received(request[main.fd], packet).payload = old \o packet
    BY <2>1, <2>3, ReceivedType
  <2>7. old \in Seq(Units) /\ \A i \in DOMAIN old : old[i].conn = c
    <3>1. c # NoConn
      BY ConnsAssumption
    <3> QED
      BY <1>1, <2>1, <3>1 DEF Requests, PayloadOfOwner
  <2> HIDE DEF old
  <2>8. \A i \in DOMAIN (old \o packet) : (old \o packet)[i].conn = c
    BY <2>3, <2>5, <2>7, ConcatOf
  <2>9. owner' = owner /\ request'[main.fd].payload = old \o packet
        /\ \A fd \in Fds : fd # main.fd => request'[fd] = request[fd]
    BY <1>1, <1>4, <2>1, <2>4, <2>6 DEF ReadPacket
  <2> QED
    BY <1>1, <2>1, <2>8, <2>9 DEF PayloadOfOwner
<1>5. ASSUME NEW c \in Conns, NEW fd \in Fds, Accept(c, fd) PROVE PayloadOfOwner'
  <2>1. owner' = [owner EXCEPT ![fd] = c] /\ request' = [request EXCEPT ![fd] = EmptyRequest]
    BY <1>5 DEF Accept, Register
  <2> QED
    BY <1>1, <1>2, <1>3, <2>1
<1>6. CASE CloseConnection
  <2>1. owner' = [owner EXCEPT ![main.fd] = NoConn] /\ request' = request
    BY <1>6 DEF CloseConnection
  <2> QED
    BY <1>1, <1>3, <2>1
<1>7. ASSUME NEW c \in Conns, ReadFailed(c) \/ WriteAll(c) \/ WriteFailed(c)
      PROVE  PayloadOfOwner'
  <2>1. owner' = owner /\ request' = [request EXCEPT ![main.fd] = EmptyRequest]
    BY <1>7 DEF ReadFailed, WriteAll, WriteFailed, FinishWrite, Clear
  <2> QED
    BY <1>1, <1>2, <1>3, <2>1
<1>8. ASSUME NEW c \in Conns, WriteSome(c) PROVE PayloadOfOwner'
  <2>1. PICK k : request' = [request EXCEPT ![main.fd].pos = @ + k]
    BY <1>8 DEF WriteSome
  <2>2. owner' = owner
    BY <1>8 DEF WriteSome
  <2>3. \A fd \in Fds : request'[fd].payload = request[fd].payload
    BY <1>1, <2>1 DEF Requests
  <2> QED
    BY <1>3, <2>2, <2>3
<1>9. ASSUME NEW w \in Workers, Respond(w) PROVE PayloadOfOwner'
  <2>1. owner' = owner
        /\ request' = [request EXCEPT ![running[w]].response = Append(@, seen[w])]
    BY <1>9 DEF Respond
  <2>2. \A fd \in Fds : request'[fd].payload = request[fd].payload
    BY <1>1, <2>1 DEF Requests
  <2> QED
    BY <1>3, <2>1, <2>2
<1>10. CASE \/ \E c \in Conns : Client(c) \/ Network(c) \/ ReadBlocked(c)
            \/ \E fd \in Fds : Wait(fd)
            \/ \E w \in Workers : Take(w) \/ ReadRequest(w) \/ Arm(w)
  <2>1. UNCHANGED <<owner, request>>
    BY <1>10
       DEF Connect, SendRequest, Deliver, Hangup, Drain, Wait, ReadBlocked, Take,
           ReadRequest, Arm
  <2> QED
    BY <1>3, <2>1
<1> QED
  BY <1>4, <1>5, <1>6, <1>7, <1>8, <1>9, <1>10 DEF Step

-----------------------------------------------------------------------------
(* Edges.  A descriptor is with the pool when it is queued or served. *)

InQueue(fd) == \E i \in DOMAIN pending : pending[i] = fd
InWork(fd) == \E w \in Workers : running[w] = fd

LEMMA WithPool ==
  ASSUME NEW fd
  PROVE  (Queued(fd) # {} <=> InQueue(fd)) /\ (Served(fd) # {} <=> InWork(fd))
BY DEF Queued, Served, InQueue, InWork

\* What push() and pop() do to the elements of the queue.
LEMMA AppendElements ==
  ASSUME NEW S, NEW s \in Seq(S), NEW x \in S, NEW y
  PROVE  (\E i \in DOMAIN Append(s, x) : Append(s, x)[i] = y)
           <=> (\E i \in DOMAIN s : s[i] = y) \/ y = x
<1>1. /\ Len(s) \in Nat /\ DOMAIN s = 1..Len(s)
      /\ DOMAIN Append(s, x) = 1..Len(s) + 1
      /\ \A i \in 1..Len(s) : Append(s, x)[i] = s[i]
      /\ Append(s, x)[Len(s) + 1] = x
  BY AppendProperties, LenProperties
<1>2. \A n \in Nat : n + 1 \in 1..n + 1 /\ \A i : i \in 1..n + 1 <=> i \in 1..n \/ i = n + 1
  OBVIOUS
<1> QED
  BY <1>1, <1>2

LEMMA TailElements ==
  ASSUME NEW S, NEW s \in Seq(S), s # <<>>, NEW y
  PROVE  (\E i \in DOMAIN s : s[i] = y)
           <=> (\E i \in DOMAIN Tail(s) : Tail(s)[i] = y) \/ y = Head(s)
<1>1. /\ Len(s) \in Nat \ {0} /\ DOMAIN s = 1..Len(s)
      /\ Tail(s) \in Seq(S) /\ Len(Tail(s)) = Len(s) - 1 /\ DOMAIN Tail(s) = 1..Len(s) - 1
      /\ \A i \in 1..Len(s) - 1 : Tail(s)[i] = s[i + 1]
      /\ Head(s) = s[1]
  BY HeadTailProperties, LenProperties, EmptySeq
<1>2. \A n \in Nat \ {0} :
        /\ 1 \in 1..n
        /\ \A i \in 1..n - 1 : i + 1 \in 1..n
        /\ \A i \in 1..n : i = 1 \/ (i - 1 \in 1..n - 1 /\ (i - 1) + 1 = i)
  OBVIOUS
<1> QED
  BY <1>1, <1>2

LEMMA PushElements ==
  ASSUME IInv, NEW fd \in Fds, pending' = Append(pending, fd), NEW fd2
  PROVE  InQueue(fd2)' <=> InQueue(fd2) \/ fd2 = fd
<1>1. pending \in Seq(Fds)
  BY DEF IInv, Types, ProgramTypes
<1> QED
  BY <1>1, AppendElements DEF InQueue

LEMMA PopElements ==
  ASSUME IInv, pending # <<>>, pending' = Tail(pending), NEW fd
  PROVE  InQueue(fd) <=> InQueue(fd)' \/ fd = Head(pending)
<1>1. pending \in Seq(Fds)
  BY DEF IInv, Types, ProgramTypes
<1> QED
  BY <1>1, TailElements DEF InQueue

\* The invariant for one descriptor.
Covered(fd) ==
  owner[fd] # NoConn /\ Level(fd, interest[fd]) =>
    \/ fd \in ready \/ main.fd = fd
    \/ interest[fd] = "in" /\ ~fin[owner[fd]] /\ (InQueue(fd) \/ InWork(fd))

LEMMA CoveredInv == NoLostEdge <=> \A fd \in Fds : Covered(fd)
BY WithPool DEF NoLostEdge, Covered

LEMMA EdgeStep == ASSUME IInv, Step PROVE NoLostEdge'
<1> USE DEF Client, Network, MainStep, Worker, clientVars, kernelVars, epollVars, poolVars
<1>1. /\ MainInv /\ OwnerInv /\ WorkerInv
      /\ fin \in [Conns -> BOOLEAN] /\ full \in [Conns -> BOOLEAN]
      /\ inbox \in [Conns -> Seq(Units)] /\ ready \subseteq Fds
      /\ interest \in [Fds -> {"in", "out", "none"}] /\ owner \in [Fds -> Conns \cup {NoConn}]
      /\ pending \in Seq(Fds) /\ running \in [Workers -> Fds \cup {NoFd}]
  BY DEF IInv, Types, KernelTypes, ProgramTypes
<1>2. \A fd \in Fds : Covered(fd) /\ fd # NoFd
  BY CoveredInv, ConnsAssumption DEF IInv
<1>3. NoLostEdge' <=> \A fd \in Fds : Covered(fd)'
  BY DEF NoLostEdge, Covered, Queued, Served, InQueue, InWork
\* Nothing of the descriptor changes but to its advantage.
<1>4. ASSUME NEW fd \in Fds,
             owner'[fd] = owner[fd], interest'[fd] = interest[fd],
             owner[fd] # NoConn =>
               /\ fin'[owner[fd]] = fin[owner[fd]] /\ full'[owner[fd]] = full[owner[fd]]
               /\ inbox'[owner[fd]] = inbox[owner[fd]],
             fd \in ready => fd \in ready', main.fd = fd => main'.fd = fd,
             InQueue(fd) \/ InWork(fd) => (InQueue(fd) \/ InWork(fd))'
      PROVE  Covered(fd)'
  BY <1>2, <1>4 DEF Covered, Level, Readable, Writable
<1>5. (UNCHANGED <<pending, running>>) =>
        \A fd : InQueue(fd) \/ InWork(fd) => (InQueue(fd) \/ InWork(fd))'
  BY DEF InQueue, InWork
<1>7. ASSUME NEW c \in Conns, Connect(c) \/ SendRequest(c) PROVE NoLostEdge'
  BY <1>3, <1>4, <1>5, <1>7 DEF Connect, SendRequest
<1>8. ASSUME NEW c \in Conns, Deliver(c) PROVE NoLostEdge'
  <2>1. /\ UNCHANGED <<owner, interest, fin, full, main, pending, running>>
        /\ \A d \in Conns : d # c => inbox'[d] = inbox[d]
        /\ ready' = ready \cup {fd \in FdOf(c) : interest[fd] = "in"}
    BY <1>1, <1>8 DEF Deliver
  <2>2. ASSUME NEW fd \in Fds, owner[fd] = c PROVE Covered(fd)'
    <3>1. interest[fd] = "in" => fd \in ready'
      BY <2>1, <2>2 DEF FdOf
    <3>2. interest[fd] # "in" => (Level(fd, interest[fd])' <=> Level(fd, interest[fd]))
      BY <2>1 DEF Level, Writable
    <3>3. fd \in ready => fd \in ready'
      BY <2>1
    <3> QED
      BY <1>2, <2>1, <3>1, <3>2, <3>3 DEF Covered
  <2>3. ASSUME NEW fd \in Fds, owner[fd] # c PROVE Covered(fd)'
    BY <1>1, <1>4, <1>5, <2>1, <2>3
  <2> QED
    BY <1>3, <2>2, <2>3
<1>9. ASSUME NEW c \in Conns, Hangup(c) PROVE NoLostEdge'
  <2>1. /\ UNCHANGED <<owner, interest, inbox, full, main, pending, running>>
        /\ \A d \in Conns : d # c => fin'[d] = fin[d]
        /\ ready' = ready \cup FdOf(c)
    BY <1>1, <1>9 DEF Hangup
  <2>2. ASSUME NEW fd \in Fds, owner[fd] = c PROVE Covered(fd)'
    BY <2>1, <2>2 DEF FdOf, Covered
  <2>3. ASSUME NEW fd \in Fds, owner[fd] # c PROVE Covered(fd)'
    BY <1>1, <1>4, <1>5, <2>1, <2>3
  <2> QED
    BY <1>3, <2>2, <2>3
<1>10. ASSUME NEW c \in Conns, Drain(c) PROVE NoLostEdge'
  <2>1. /\ UNCHANGED <<owner, interest, inbox, fin, main, pending, running>>
        /\ \A d \in Conns : d # c => full'[d] = full[d]
        /\ ready' = ready \cup {fd \in FdOf(c) : interest[fd] = "out"}
    BY <1>1, <1>10 DEF Drain
  <2>2. ASSUME NEW fd \in Fds, owner[fd] = c PROVE Covered(fd)'
    <3>1. interest[fd] = "out" => fd \in ready'
      BY <2>1, <2>2 DEF FdOf
    <3>2. interest[fd] # "out" => (Level(fd, interest[fd])' <=> Level(fd, interest[fd]))
      BY <2>1 DEF Level, Readable
    <3>3. fd \in ready => fd \in ready'
      BY <2>1
    <3>4. InQueue(fd) \/ InWork(fd) => (InQueue(fd) \/ InWork(fd))'
      BY <1>5, <2>1
    <3> QED
      BY <1>2, <2>1, <3>1, <3>2, <3>3, <3>4 DEF Covered
  <2>3. ASSUME NEW fd \in Fds, owner[fd] # c PROVE Covered(fd)'
    BY <1>1, <1>4, <1>5, <2>1, <2>3
  <2> QED
    BY <1>3, <2>2, <2>3
<1>11. ASSUME NEW fd \in Fds, Wait(fd) PROVE NoLostEdge'
  <2>1. /\ UNCHANGED <<owner, interest, inbox, fin, full, pending, running>>
        /\ ready' = ready \ {fd} /\ main.fd = NoFd
        /\ Level(fd, interest[fd]) => main'.fd = fd
    BY <1>11 DEF Wait, Event, Polling
  <2>2. Covered(fd)'
    <3>1. Level(fd, interest[fd])' <=> Level(fd, interest[fd])
      BY <2>1 DEF Level, Readable, Writable
    <3> QED
      BY <2>1, <3>1 DEF Covered
  <2>3. ASSUME NEW fd2 \in Fds, fd2 # fd PROVE Covered(fd2)'
    BY <1>2, <1>4, <1>5, <2>1, <2>3
  <2> QED
    BY <1>3, <2>2, <2>3
<1>12. ASSUME NEW c \in Conns, NEW fd \in Fds, Accept(c, fd) PROVE NoLostEdge'
  <2>1. /\ UNCHANGED <<inbox, fin, full, main, pending, running>>
        /\ owner' = [owner EXCEPT ![fd] = c] /\ interest' = [interest EXCEPT ![fd] = "in"]
        /\ ready' = IF fin[c] \/ inbox[c] # <<>> THEN ready \cup {fd} ELSE ready
    BY <1>12 DEF Accept, Register
  <2>2. Covered(fd)'
    BY <1>1, <2>1 DEF Covered, Level, Readable
  <2>3. ASSUME NEW fd2 \in Fds, fd2 # fd PROVE Covered(fd2)'
    BY <1>1, <1>4, <1>5, <2>1, <2>3
  <2> QED
    BY <1>3, <2>2, <2>3
<1>13. CASE CloseConnection
  <2>1. /\ UNCHANGED <<inbox, fin, full, pending, running>> /\ main.fd \in Fds
        /\ owner' = [owner EXCEPT ![main.fd] = NoConn]
        /\ interest' = [interest EXCEPT ![main.fd] = "none"]
        /\ ready' = ready \ {main.fd}
    BY <1>13, MainFd DEF CloseConnection
  <2>2. ASSUME NEW fd \in Fds, fd = main.fd PROVE Covered(fd)'
    BY <1>1, <2>1, <2>2 DEF Covered
  <2>3. ASSUME NEW fd2 \in Fds, fd2 # main.fd PROVE Covered(fd2)'
    BY <1>1, <1>4, <1>5, <2>1, <2>3
  <2> QED
    BY <1>3, <2>2, <2>3
\* What the main thread knows of the descriptor in its hands, and of the others.
<1>14. ASSUME NEW fd \in Fds, fd = main.fd
       PROVE  /\ owner[fd] \in Conns
              /\ ~main.hup /\ fin[owner[fd]] => fd \in ready
              /\ main.out => interest[fd] = "out"
              /\ ~main.hup /\ main.in /\ interest[fd] = "out" /\ Level(fd, "out")
                   => fd \in ready
  BY <1>1, <1>2, <1>14 DEF MainInv
<1>15. ASSUME NEW fd \in Fds, fd # main.fd, main.fd \in Fds, owner[fd] # NoConn
       PROVE  owner[fd] # owner[main.fd]
  BY <1>1, <1>15 DEF OwnerInv
<1>16. ASSUME NEW c \in Conns, ReadPacket(c) PROVE NoLostEdge'
  <2>1. /\ UNCHANGED <<owner, interest, fin, full, ready>>
        /\ main.fd \in Fds /\ owner[main.fd] = c /\ main.in /\ ~main.hup
        /\ \A d \in Conns : d # c => inbox'[d] = inbox[d]
        /\ \/ UNCHANGED <<main, pending, running>>
           \/ pending' = Append(pending, main.fd) /\ UNCHANGED running
    BY <1>1, <1>16, Packet DEF ReadPacket, Queue!Push
  <2>2. \A fd \in Fds : InQueue(fd) \/ InWork(fd) => (InQueue(fd) \/ InWork(fd))'
    <3>1. CASE pending' = Append(pending, main.fd) /\ UNCHANGED running
      BY <2>1, <3>1, PushElements DEF InWork
    <3> QED
      BY <1>5, <2>1, <3>1
  <2>3. ASSUME NEW fd \in Fds, fd # main.fd PROVE Covered(fd)'
    <3>1. owner[fd] # NoConn => owner[fd] # c
      BY <1>15, <2>1, <2>3
    <3> QED
      BY <1>1, <1>4, <2>1, <2>2, <2>3, <3>1
  <2>4. ASSUME NEW fd \in Fds, fd = main.fd PROVE Covered(fd)'
    <3>1. CASE UNCHANGED <<main, pending, running>>
      BY <2>4, <3>1 DEF Covered
    <3>2. CASE pending' = Append(pending, main.fd) /\ UNCHANGED running
      <4>1. InQueue(fd)'
        BY <2>4, <3>2, PushElements
      <4>2. CASE fin[owner[fd]]
        BY <1>14, <2>1, <2>4, <4>2 DEF Covered
      <4>3. CASE interest[fd] = "in" /\ ~fin[owner[fd]]
        BY <2>1, <4>1, <4>3 DEF Covered
      <4>4. CASE interest[fd] # "in"
        BY <1>14, <2>1, <2>4, <4>4 DEF Covered, Level, Writable
      <4> QED
        BY <4>2, <4>3, <4>4
    <3> QED
      BY <2>1, <3>1, <3>2
  <2> QED
    BY <1>3, <2>3, <2>4
<1>17. ASSUME NEW c \in Conns, ReadBlocked(c) PROVE NoLostEdge'
  <2>1. /\ UNCHANGED <<owner, interest, inbox, fin, full, ready, pending, running>>
        /\ main.fd \in Fds /\ owner[main.fd] = c /\ main.in /\ ~main.hup
        /\ inbox[c] = <<>> /\ ~fin[c]
    BY <1>17, MainFd DEF ReadBlocked, Reading
  <2>2. ASSUME NEW fd \in Fds, fd # main.fd PROVE Covered(fd)'
    BY <1>4, <1>5, <2>1, <2>2
  <2>3. ASSUME NEW fd \in Fds, fd = main.fd PROVE Covered(fd)'
    BY <1>14, <2>1, <2>3 DEF Covered, Level, Readable, Writable
  <2> QED
    BY <1>3, <2>2, <2>3
<1>18. ASSUME NEW c \in Conns, ReadFailed(c) PROVE NoLostEdge'
  <2>1. /\ UNCHANGED <<owner, interest, inbox, fin, full, ready, pending, running>>
        /\ main.fd \in Fds /\ owner[main.fd] = c /\ ~main.hup /\ fin[c]
    BY <1>18, MainFd DEF ReadFailed, Reading
  <2>2. ASSUME NEW fd \in Fds, fd # main.fd PROVE Covered(fd)'
    BY <1>4, <1>5, <2>1, <2>2
  <2>3. ASSUME NEW fd \in Fds, fd = main.fd PROVE Covered(fd)'
    BY <1>14, <2>1, <2>3 DEF Covered
  <2> QED
    BY <1>3, <2>2, <2>3
<1>19. ASSUME NEW c \in Conns, WriteAll(c) \/ WriteFailed(c) PROVE NoLostEdge'
  <2>1. /\ UNCHANGED <<owner, inbox, fin, full, pending, running>> /\ main.fd \in Fds
        /\ interest' = [interest EXCEPT ![main.fd] = "in"]
        /\ ready' = IF Level(main.fd, "in") THEN ready \cup {main.fd} ELSE ready
    BY <1>19, MainFd DEF WriteAll, WriteFailed, Writing, FinishWrite, Modify
  <2>2. ASSUME NEW fd \in Fds, fd # main.fd PROVE Covered(fd)'
    BY <1>1, <1>4, <1>5, <2>1, <2>2
  <2>3. ASSUME NEW fd \in Fds, fd = main.fd PROVE Covered(fd)'
    <3>1. interest'[fd] = "in"
      BY <1>1, <2>1, <2>3
    <3>2. Level(fd, interest[fd])' <=> Level(fd, "in")
      BY <2>1, <3>1 DEF Level, Readable, Writable
    <3>3. Level(fd, "in") => fd \in ready'
      BY <2>1, <2>3
    <3> QED
      BY <3>2, <3>3 DEF Covered
  <2> QED
    BY <1>3, <2>2, <2>3
<1>20. ASSUME NEW c \in Conns, WriteSome(c) PROVE NoLostEdge'
  <2>1. /\ UNCHANGED <<owner, interest, inbox, fin, ready, pending, running>>
        /\ main.fd \in Fds /\ owner[main.fd] = c /\ main.out /\ ~fin[c]
        /\ full' = [full EXCEPT ![c] = TRUE]
    BY <1>20, MainFd DEF WriteSome, Writing
  <2>2. ASSUME NEW fd \in Fds, fd # main.fd PROVE Covered(fd)'
    <3>1. owner[fd] # NoConn => owner[fd] # c
      BY <1>15, <2>1, <2>2
    <3> QED
      BY <1>1, <1>4, <1>5, <2>1, <2>2, <3>1
  <2>3. ASSUME NEW fd \in Fds, fd = main.fd PROVE Covered(fd)'
    <3>1. interest[fd] = "out" /\ owner[fd] = c /\ full'[c]
      BY <1>1, <1>14, <2>1, <2>3
    <3> QED
      BY <2>1, <3>1 DEF Covered, Level, Readable, Writable
  <2> QED
    BY <1>3, <2>2, <2>3
<1>21. ASSUME NEW w \in Workers, Take(w) PROVE NoLostEdge'
  <2>1. /\ UNCHANGED <<owner, interest, inbox, fin, full, ready, main>>
        /\ pending # <<>> /\ pending' = Tail(pending)
        /\ running' = [running EXCEPT ![w] = Head(pending)] /\ running[w] = NoFd
    BY <1>1, <1>21 DEF Take, Queue!Pop, WorkerInv
  <2>2. ASSUME NEW fd \in Fds, InQueue(fd) \/ InWork(fd) PROVE (InQueue(fd) \/ InWork(fd))'
    <3>1. CASE InQueue(fd)
      <4>1. InQueue(fd)' \/ fd = Head(pending)
        BY <2>1, <3>1, PopElements
      <4>2. fd = Head(pending) => InWork(fd)'
        BY <1>1, <2>1 DEF InWork
      <4> QED
        BY <4>1, <4>2
    <3>2. CASE InWork(fd)
      BY <1>1, <1>2, <2>1, <3>2 DEF InWork
    <3> QED
      BY <2>2, <3>1, <3>2
  <2> QED
    BY <1>3, <1>4, <2>1, <2>2
<1>22. ASSUME NEW w \in Workers, ReadRequest(w) \/ Respond(w) PROVE NoLostEdge'
  BY <1>3, <1>4, <1>5, <1>22 DEF ReadRequest, Respond
<1>23. ASSUME NEW w \in Workers, Arm(w) PROVE NoLostEdge'
  <2>1. /\ UNCHANGED <<owner, inbox, fin, full, main, pending>> /\ running[w] \in Fds
        /\ running' = [running EXCEPT ![w] = NoFd]
        /\ IF owner[running[w]] = NoConn THEN UNCHANGED <<interest, ready>>
           ELSE /\ interest' = [interest EXCEPT ![running[w]] = "out"]
                /\ ready' = IF Level(running[w], "out") THEN ready \cup {running[w]} ELSE ready
    BY <1>1, <1>23 DEF Arm, Queue!Release, Modify
  <2>2. ASSUME NEW fd \in Fds, fd # running[w] PROVE Covered(fd)'
    <3>1. InQueue(fd) \/ InWork(fd) => (InQueue(fd) \/ InWork(fd))'
      BY <1>1, <2>1, <2>2 DEF InQueue, InWork
    <3> QED
      BY <1>1, <1>4, <2>1, <2>2, <3>1
  <2>3. ASSUME NEW fd \in Fds, fd = running[w] PROVE Covered(fd)'
    <3>1. CASE owner[fd] = NoConn
      BY <2>1, <3>1 DEF Covered
    <3>2. CASE owner[fd] # NoConn
      <4>1. interest'[fd] = "out" /\ (Level(fd, "out") => fd \in ready')
        BY <1>1, <2>1, <2>3, <3>2
      <4>2. Level(fd, interest[fd])' <=> Level(fd, "out")
        BY <2>1, <4>1 DEF Level, Readable, Writable
      <4> QED
        BY <4>1, <4>2 DEF Covered
    <3> QED
      BY <3>1, <3>2
  <2> QED
    BY <1>3, <2>2, <2>3
<1> QED
  BY <1>7, <1>8, <1>9, <1>10, <1>11, <1>12, <1>13, <1>16, <1>17, <1>18, <1>19, <1>20,
     <1>21, <1>22, <1>23
     DEF Step

-----------------------------------------------------------------------------
(* The metrics.  Conns and Workers need not be finite: the connections that *)
(* are open and the workers that are busy are finitely many.                *)

CountInv ==
  /\ IsFiniteSet(OpenConns) /\ connections = Cardinality(OpenConns)
  /\ IsFiniteSet(Busy) /\ active = Cardinality(Busy)

LEMMA CountInit == Init => CountInv
<1> SUFFICES ASSUME Init PROVE CountInv
  OBVIOUS
<1>1. OpenConns = {} /\ Busy = {}
  BY DEF Init, OpenConns, Busy
<1> QED
  BY <1>1, FS_EmptySet DEF CountInv, Init

LEMMA ConnectionsStep ==
  ASSUME IInv, CountInv, Step
  PROVE  IsFiniteSet(OpenConns)' /\ (connections = Cardinality(OpenConns))'
<1> USE DEF Client, Network, MainStep, Worker, clientVars, kernelVars, epollVars, poolVars
<1>1. conn \in [Conns -> {"new", "backlog", "open", "closed"}]
      /\ IsFiniteSet(OpenConns) /\ connections = Cardinality(OpenConns)
  BY DEF IInv, Types, KernelTypes, CountInv
<1>2. Cardinality(OpenConns) \in Nat
  BY <1>1, FS_CardinalityType
<1>3. ASSUME NEW c \in Conns, NEW fd \in Fds, Accept(c, fd)
      PROVE  IsFiniteSet(OpenConns)' /\ (connections = Cardinality(OpenConns))'
  <2>1. conn[c] = "backlog" /\ conn' = [conn EXCEPT ![c] = "open"]
        /\ connections' = connections + 1
    BY <1>3 DEF Accept, UpdateConnections
  <2>2. OpenConns' = OpenConns \cup {c} /\ c \notin OpenConns
    BY <1>1, <2>1 DEF OpenConns
  <2> QED
    BY <1>1, <2>1, <2>2, FS_AddElement
<1>4. CASE CloseConnection
  <2>1. owner[main.fd] \in Conns /\ conn[owner[main.fd]] = "open"
    BY <1>4, MainFd, ConnsAssumption DEF CloseConnection, IInv, OwnerInv
  <2>2. conn' = [conn EXCEPT ![owner[main.fd]] = "closed"] /\ connections' = connections + -1
    BY <1>4 DEF CloseConnection, UpdateConnections
  <2>3. OpenConns' = OpenConns \ {owner[main.fd]} /\ owner[main.fd] \in OpenConns
    BY <1>1, <2>1, <2>2 DEF OpenConns
  <2>4. IsFiniteSet(OpenConns)' /\ Cardinality(OpenConns)' = Cardinality(OpenConns) - 1
    BY <1>1, <2>3, FS_RemoveElement
  <2> QED
    BY <1>1, <1>2, <2>2, <2>4
<1>5. ASSUME NEW c \in Conns, Connect(c)
      PROVE  IsFiniteSet(OpenConns)' /\ (connections = Cardinality(OpenConns))'
  <2>1. conn[c] = "new" /\ conn' = [conn EXCEPT ![c] = "backlog"] /\ connections' = connections
    BY <1>5 DEF Connect
  <2>2. OpenConns' = OpenConns
    BY <1>1, <2>1 DEF OpenConns
  <2> QED
    BY <1>1, <2>1, <2>2
<1>6. CASE /\ \A c \in Conns : ~Connect(c) /\ \A fd \in Fds : ~Accept(c, fd)
           /\ ~CloseConnection
  <2>1. UNCHANGED <<conn, connections>>
    BY <1>6
       DEF Step, SendRequest, Deliver, Hangup, Drain, Wait, ReadPacket, ReadBlocked,
           ReadFailed, WriteAll, WriteSome, WriteFailed, Take, ReadRequest, Respond, Arm
  <2>2. OpenConns' = OpenConns
    BY <2>1 DEF OpenConns
  <2> QED
    BY <1>1, <2>1, <2>2
<1> QED
  BY <1>3, <1>4, <1>5, <1>6

LEMMA ActiveStep ==
  ASSUME IInv, CountInv, Step
  PROVE  IsFiniteSet(Busy)' /\ (active = Cardinality(Busy))'
<1> USE DEF Client, Network, MainStep, Worker, clientVars, kernelVars, epollVars, poolVars
<1>1. at \in [Workers -> {"idle", "read", "respond", "arm"}]
      /\ IsFiniteSet(Busy) /\ active = Cardinality(Busy)
  BY DEF IInv, Types, ProgramTypes, CountInv
<1>2. Cardinality(Busy) \in Nat
  BY <1>1, FS_CardinalityType
<1>3. ASSUME NEW w \in Workers, ReadRequest(w)
      PROVE  IsFiniteSet(Busy)' /\ (active = Cardinality(Busy))'
  <2>1. at[w] = "read" /\ at' = [at EXCEPT ![w] = "respond"] /\ active' = active + 1
    BY <1>3 DEF ReadRequest
  <2>2. Busy' = Busy \cup {w} /\ w \notin Busy
    BY <1>1, <2>1 DEF Busy
  <2> QED
    BY <1>1, <2>1, <2>2, FS_AddElement
<1>4. ASSUME NEW w \in Workers, Respond(w)
      PROVE  IsFiniteSet(Busy)' /\ (active = Cardinality(Busy))'
  <2>1. at[w] = "respond" /\ at' = [at EXCEPT ![w] = "arm"] /\ active' = active - 1
    BY <1>4 DEF Respond
  <2>2. Busy' = Busy \ {w} /\ w \in Busy
    BY <1>1, <2>1 DEF Busy
  <2> QED
    BY <1>1, <2>1, <2>2, FS_RemoveElement
<1>5. ASSUME NEW w \in Workers, Take(w) \/ Arm(w)
      PROVE  IsFiniteSet(Busy)' /\ (active = Cardinality(Busy))'
  <2>1. active' = active /\ at[w] \in {"idle", "arm"}
        /\ \E a \in {"read", "idle"} : at' = [at EXCEPT ![w] = a]
    BY <1>5 DEF Take, Arm
  <2>2. Busy' = Busy
    BY <1>1, <2>1 DEF Busy
  <2> QED
    BY <1>1, <2>1, <2>2
<1>6. CASE \A w \in Workers : ~Worker(w)
  <2>1. UNCHANGED <<at, active>>
    BY <1>6
       DEF Step, Connect, SendRequest, Deliver, Hangup, Drain, Wait, Accept,
           CloseConnection, ReadPacket, ReadBlocked, ReadFailed, WriteAll, WriteSome,
           WriteFailed
  <2>2. Busy' = Busy
    BY <2>1 DEF Busy
  <2> QED
    BY <1>1, <2>1, <2>2
<1> QED
  BY <1>3, <1>4, <1>5, <1>6

-----------------------------------------------------------------------------
(* Whatever the clients do. *)

LEMMA StepInv == IInv /\ CountInv /\ [Next]_vars => (IInv /\ CountInv)'
<1> SUFFICES ASSUME IInv, CountInv, [Next]_vars PROVE (IInv /\ CountInv)'
  OBVIOUS
<1>1. CASE Step
  BY <1>1, TypesStep, OwnerStep, MainStepInv, PoolStep, UnitsStep, PayloadStep, EdgeStep,
     ConnectionsStep, ActiveStep
     DEF IInv, CountInv
<1>2. CASE UNCHANGED vars
  <2> USE <1>2 DEF vars, clientVars, kernelVars, epollVars, poolVars
  <2>1. Types'
    BY DEF IInv, Types, ClientTypes, KernelTypes, ProgramTypes
  <2>2. OwnerInv' /\ MainInv' /\ WorkerInv' /\ UnitsInv'
    BY DEF IInv, OwnerInv, MainInv, WorkerInv, UnitsInv, Level, Readable, Writable
  <2>3. PayloadOfOwner' /\ NoLostEdge'
    BY DEF IInv, PayloadOfOwner, NoLostEdge, Level, Readable, Writable, Queued, Served
  <2>4. CountInv'
    BY DEF CountInv, OpenConns, Busy
  <2> QED
    BY <2>1, <2>2, <2>3, <2>4 DEF IInv
<1>3. Next => Step
  BY DEF Next, Step
<1> QED
  BY <1>1, <1>2, <1>3

LEMMA Invariance == Spec => [](IInv /\ CountInv)
BY InitInv, CountInit, StepInv, PTL DEF Spec

\* The variables keep their types, and what /ms/metrics reports is the number
\* of open connections and of workers in a handler: every path that opens or
\* closes a connection, or enters or leaves a handler, counts it once.
THEOREM TypeCorrectness == Spec => []TypeOK
<1>1. IInv /\ CountInv => TypeOK
  <2> SUFFICES ASSUME IInv, CountInv PROVE TypeOK
    OBVIOUS
  <2>1. Types /\ CountInv
    BY DEF IInv
  <2>2. \A c \in Conns : Len(delivered[c]) \in Nat
    BY <2>1, LenProperties DEF Types, ClientTypes
  <2>3. main.fd \in Fds \cup {NoFd}
    BY <2>1 DEF Types, ProgramTypes
  <2> QED
    BY <2>1, <2>2, <2>3 DEF Types, ClientTypes, KernelTypes, ProgramTypes, CountInv, TypeOK
<1> QED
  BY <1>1, Invariance, PTL

\* read_request() appends to the object of a descriptor only bytes that came on
\* the connection that has it, and insert_or_assign() forgets those of the
\* connection before: no request is parsed out of two clients' bytes.
THEOREM BytesOfOneConnection == Spec => []PayloadOfOwner
BY Invariance, PTL DEF IInv

\* The edge-triggered loop never sleeps on a descriptor that has work: what is
\* there when epoll_wait is called again is on the ready list, or the pool has
\* the request and its epoll_ctl(EPOLL_CTL_MOD) will poll the descriptor.
THEOREM EdgesAreKept == Spec => []NoLostEdge
BY Invariance, PTL DEF IInv
=============================================================================
