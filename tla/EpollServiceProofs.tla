------------------------- MODULE EpollServiceProofs -------------------------
(***************************************************************************)
(* Proofs about EpollServer with clients that wait for their answers, for  *)
(* any number of connections, descriptors, workers and requests: a request *)
(* object is used by one thread at a time, and the server implements       *)
(* HttpService.                                                            *)
(***************************************************************************)
EXTENDS EpollServerProofs

-----------------------------------------------------------------------------
(* What the server needs of its clients: they stay until they are answered, *)
(* a head comes in one packet, and a request that is answered on its head   *)
(* (a GET, or one the parser refuses) has no body that would arrive later   *)
(* and be taken for a new request, or complete the old one once more.       *)

Polite ==
  /\ ~MayAbandon
  /\ HeadLen = 1
  /\ \A k \in Kinds : k.method = "GET" \/ ~k.ok => k.body = 0

\* The client's last request, and the response it is due.
Waiting(c) == Len(delivered[c]) < Len(sent[c])
LastKind(c) == sent[c][Len(sent[c])]
Asked(c) == Message(c, Len(sent[c]), LastKind(c))
Due(c) == Response(c, Len(sent[c]), ~LastKind(c).ok)

\* A client has one request out; until it is accepted, all of it is unread.
ClientInv(c) ==
  /\ Len(delivered[c]) <= Len(sent[c]) /\ Len(sent[c]) <= Len(delivered[c]) + 1
  /\ conn[c] = "new" => sent[c] = <<>>
  /\ fin[c] => ~Waiting(c)
  /\ conn[c] = "closed" => fin[c]
  /\ ~Waiting(c) => wire[c] = <<>> /\ inbox[c] = <<>>
  /\ Waiting(c) /\ conn[c] # "open" => inbox[c] \o wire[c] = Asked(c)

Unused(fd) == ~InQueue(fd) /\ ~InWork(fd)

\* A descriptor is with the pool once.
Once ==
  /\ \A i, j \in DOMAIN pending : pending[i] = pending[j] => i = j
  /\ \A v, w \in Workers : running[v] = running[w] /\ running[v] # NoFd => v = w
  /\ \A fd \in Fds : ~(InQueue(fd) /\ InWork(fd))

Parsed(r, k) ==
  r.method = k.method /\ r.bodyStart = 1 /\ r.contentLength = k.body /\ r.err = ~k.ok

\* The four states of a connection c with descriptor fd, in their order: the
\* client owes a request; it is arriving; the pool has it; it is answered.
IdleAt(fd, c) ==
  /\ ~Waiting(c)
  /\ Unused(fd) /\ interest[fd] = "in"
  /\ request[fd].payload = <<>> /\ request[fd].response = <<>> /\ request[fd].pos = 0
  /\ main.fd = fd => main.hup

ReceivingAt(fd, c) ==
  /\ Waiting(c)
  /\ Unused(fd) /\ interest[fd] = "in"
  /\ request[fd].payload \o (inbox[c] \o wire[c]) = Asked(c)
  /\ inbox[c] \o wire[c] # <<>>
  /\ request[fd].payload # <<>> => Parsed(request[fd], LastKind(c))
  /\ request[fd].response = <<>> /\ request[fd].pos = 0
  /\ main.fd = fd => main.in /\ ~main.hup

ServedAt(fd, c) ==
  /\ Waiting(c)
  /\ ~Unused(fd) /\ interest[fd] = "in"
  /\ inbox[c] = <<>> /\ wire[c] = <<>>
  /\ request[fd].payload = Asked(c) /\ Parsed(request[fd], LastKind(c))
  /\ request[fd].pos = 0
  /\ InQueue(fd) => request[fd].response = <<>>
  /\ \A w \in Workers : running[w] = fd =>
       /\ at[w] \in {"read", "respond"} => request[fd].response = <<>>
       /\ at[w] = "respond" => seen[w] = Due(c)
       /\ at[w] = "arm" => request[fd].response = <<Due(c)>> /\ seen[w] = Due(c)
  /\ main.fd # fd

WritingAt(fd, c) ==
  /\ Waiting(c)
  /\ Unused(fd) /\ interest[fd] = "out"
  /\ inbox[c] = <<>> /\ wire[c] = <<>>
  /\ request[fd].response = <<Due(c)>> /\ request[fd].pos < ResponseLen
  /\ main.fd = fd => main.out /\ ~main.in /\ ~main.hup

FdInv(fd) ==
  IF owner[fd] = NoConn THEN Unused(fd)
  ELSE \/ IdleAt(fd, owner[fd]) \/ ReceivingAt(fd, owner[fd])
       \/ ServedAt(fd, owner[fd]) \/ WritingAt(fd, owner[fd])

PInv == Once /\ (\A c \in Conns : ClientInv(c)) /\ \A fd \in Fds : FdInv(fd)

-----------------------------------------------------------------------------
(* What a step leaves alone keeps its part of the invariant. *)

LEMMA ClientFrame ==
  ASSUME NEW c \in Conns, ClientInv(c),
         sent'[c] = sent[c], delivered'[c] = delivered[c], wire'[c] = wire[c],
         inbox'[c] = inbox[c], conn'[c] = conn[c], fin'[c] = fin[c]
  PROVE  ClientInv(c)'
BY DEF ClientInv, Waiting, Asked, LastKind

LEMMA OnceFrame == ASSUME Once, UNCHANGED <<pending, running>> PROVE Once'
BY DEF Once, InQueue, InWork

LEMMA FdFrame ==
  ASSUME NEW fd \in Fds, FdInv(fd),
         owner'[fd] = owner[fd], interest'[fd] = interest[fd], request'[fd] = request[fd],
         owner[fd] # NoConn =>
           /\ sent'[owner[fd]] = sent[owner[fd]]
           /\ delivered'[owner[fd]] = delivered[owner[fd]]
           /\ inbox'[owner[fd]] = inbox[owner[fd]] /\ wire'[owner[fd]] = wire[owner[fd]],
         main'.fd = fd => main' = main,
         InQueue(fd)' <=> InQueue(fd),
         \A w \in Workers :
           /\ running'[w] = fd <=> running[w] = fd
           /\ running[w] = fd => at'[w] = at[w] /\ seen'[w] = seen[w]
  PROVE  FdInv(fd)'
<1>1. Unused(fd)' <=> Unused(fd)
  BY DEF Unused, InWork
<1>2. CASE owner[fd] = NoConn
  BY <1>1, <1>2 DEF FdInv
<1>3. ASSUME NEW c, owner[fd] = c, c # NoConn PROVE FdInv(fd)'
  <2>1. /\ Waiting(c)' <=> Waiting(c)
        /\ Asked(c)' = Asked(c) /\ LastKind(c)' = LastKind(c) /\ Due(c)' = Due(c)
        /\ inbox'[c] = inbox[c] /\ wire'[c] = wire[c]
    BY <1>3 DEF Waiting, Asked, LastKind, Due
  <2>2. CASE IdleAt(fd, c)
    <3>1. IdleAt(fd, c)'
      BY <1>1, <2>1, <2>2 DEF IdleAt
    <3> QED
      BY <1>3, <3>1 DEF FdInv
  <2>3. CASE ReceivingAt(fd, c)
    <3>1. ReceivingAt(fd, c)'
      BY <1>1, <2>1, <2>3 DEF ReceivingAt
    <3> QED
      BY <1>3, <3>1 DEF FdInv
  <2>4. CASE ServedAt(fd, c)
    <3>1. ServedAt(fd, c)'
      BY <1>1, <2>1, <2>4 DEF ServedAt
    <3> QED
      BY <1>3, <3>1 DEF FdInv
  <2>5. CASE WritingAt(fd, c)
    <3>1. WritingAt(fd, c)'
      BY <1>1, <2>1, <2>5 DEF WritingAt
    <3> QED
      BY <1>3, <3>1 DEF FdInv
  <2> QED
    BY <1>3, <2>2, <2>3, <2>4, <2>5 DEF FdInv
<1> QED
  BY <1>2, <1>3

-----------------------------------------------------------------------------
(* Which state a descriptor is in, told by who has it. *)

LEMMA MainReads ==
  ASSUME IInv, PInv, NEW fd \in Fds, fd = main.fd, main.in, ~main.hup
  PROVE  owner[fd] \in Conns /\ ReceivingAt(fd, owner[fd])
<1>1. owner[fd] \in Conns /\ owner[fd] # NoConn /\ FdInv(fd)
  BY MainFd, ConnsAssumption DEF PInv
<1> QED
  BY <1>1 DEF FdInv, IdleAt, ServedAt, WritingAt

LEMMA MainWrites ==
  ASSUME IInv, PInv, NEW fd \in Fds, fd = main.fd, main.out, ~main.in, ~main.hup
  PROVE  owner[fd] \in Conns /\ WritingAt(fd, owner[fd])
<1>1. owner[fd] \in Conns /\ owner[fd] # NoConn /\ FdInv(fd)
  BY MainFd, ConnsAssumption DEF PInv
<1> QED
  BY <1>1 DEF FdInv, IdleAt, ReceivingAt, ServedAt

LEMMA MainCloses ==
  ASSUME IInv, PInv, NEW fd \in Fds, fd = main.fd, main.hup
  PROVE  owner[fd] \in Conns /\ fin[owner[fd]] /\ IdleAt(fd, owner[fd])
<1>1. owner[fd] \in Conns /\ owner[fd] # NoConn /\ FdInv(fd)
  BY MainFd, ConnsAssumption DEF PInv
<1>2. fin[owner[fd]] /\ ~Waiting(owner[fd])
  BY <1>1, ConnsAssumption DEF IInv, MainInv, PInv, ClientInv
<1> QED
  BY <1>1, <1>2 DEF FdInv, ReceivingAt, ServedAt, WritingAt

LEMMA PoolHas ==
  ASSUME IInv, PInv, NEW fd \in Fds, InQueue(fd) \/ InWork(fd)
  PROVE  owner[fd] \in Conns /\ ServedAt(fd, owner[fd])
<1>1. FdInv(fd) /\ ~Unused(fd)
  BY DEF PInv, Unused
<1>2. owner[fd] \in Conns \cup {NoConn}
  BY DEF IInv, Types, KernelTypes
<1> QED
  BY <1>1, <1>2 DEF FdInv, IdleAt, ReceivingAt, WritingAt

\* While its request is on its way, it is being received.
LEMMA WireHas ==
  ASSUME IInv, PInv, NEW c \in Conns, NEW fd \in Fds, owner[fd] = c, wire[c] # <<>>
  PROVE  ReceivingAt(fd, c)
<1>1. FdInv(fd) /\ ClientInv(c) /\ c # NoConn
  BY ConnsAssumption DEF PInv
<1> QED
  BY <1>1 DEF FdInv, ClientInv, IdleAt, ServedAt, WritingAt

LEMMA ClientFacts ==
  ASSUME IInv, PInv, NEW c \in Conns
  PROVE  /\ ClientInv(c) /\ Len(sent[c]) \in Nat /\ Len(delivered[c]) \in Nat
         /\ wire[c] \in Seq(Units) /\ inbox[c] \in Seq(Units)
         /\ sent[c] \in Seq(Kinds) /\ fin[c] \in BOOLEAN /\ c # NoConn
BY LenProperties, ConnsAssumption DEF IInv, PInv, Types, ClientTypes, KernelTypes

LEMMA AskedFacts ==
  ASSUME IInv, PInv, NEW c \in Conns, Waiting(c)
  PROVE  /\ Len(sent[c]) \in Nat /\ LastKind(c) \in Kinds
         /\ Asked(c) \in Seq(Units) /\ Asked(c) # <<>>
         /\ Asked(c)[1] = Unit(c, Len(sent[c]), LastKind(c), 1)
         /\ Len(Asked(c)) = HeadLen + LastKind(c).body
<1>1. sent[c] \in Seq(Kinds) /\ Len(sent[c]) \in Nat /\ Len(delivered[c]) \in Nat
  BY ClientFacts
<1>2. Len(sent[c]) \in 1..Len(sent[c])
  BY <1>1 DEF Waiting
<1>3. LastKind(c) \in Kinds
  BY <1>1, <1>2, ElementOfSeq DEF LastKind
<1>4. HeadLen + LastKind(c).body \in Nat \ {0} /\ 1 \in 1..HeadLen + LastKind(c).body
  BY <1>3, LengthsAssumption, KindsAssumption
<1>5. /\ Asked(c) \in Seq(Units) /\ Len(Asked(c)) = HeadLen + LastKind(c).body
      /\ \A i \in 1..HeadLen + LastKind(c).body :
           Asked(c)[i] = Unit(c, Len(sent[c]), LastKind(c), i)
  BY <1>1, <1>3, MessageType DEF Asked
<1> QED
  BY <1>1, <1>3, <1>4, <1>5, EmptySeq

-----------------------------------------------------------------------------
(* A request in packets: what read_request() keeps, and that it reports the *)
(* request complete with its last byte and not before.                      *)

LEMMA UnitsAssociative == \A s, t, u \in Seq(Units) : (s \o t) \o u = s \o (t \o u)
BY ConcatAssociative

LEMMA Reception ==
  ASSUME Polite, IInv, PInv, NEW c \in Conns, Waiting(c), NEW r \in Requests,
         NEW packet \in Seq(Units), packet # <<>>, NEW rest \in Seq(Units),
         r.payload \o (packet \o rest) = Asked(c),
         r.payload # <<>> => Parsed(r, LastKind(c))
  PROVE  /\ Received(r, packet).payload \o rest = Asked(c)
         /\ Received(r, packet).payload # <<>>
         /\ Parsed(Received(r, packet), LastKind(c))
         /\ Complete(r, packet) <=> rest = <<>>
<1> DEFINE after == Received(r, packet)
           m == Asked(c)
           k == LastKind(c)
           n == Len(sent[c])
<1> HIDE DEF k
<1>0. k \in Kinds /\ (r.payload # <<>> => Parsed(r, k))
  BY AskedFacts DEF k
<1>1. /\ after \in Requests /\ after.payload = r.payload \o packet
      /\ r.payload \in Seq(Units)
  BY ReceivedType DEF Requests
<1>2. after.payload \o rest = m
  <2>1. (r.payload \o packet) \o rest = r.payload \o (packet \o rest)
    <3>1. r.payload \in Seq(Units)
      BY DEF Requests
    <3> QED
      BY <3>1, UnitsAssociative
  <2> QED
    BY <1>1, <2>1
<1>3. Len(packet) \in Nat \ {0} /\ Len(r.payload) \in Nat /\ Len(rest) \in Nat
  BY <1>1, LenProperties, EmptySeq
<1>4. Len(after.payload) = Len(r.payload) + Len(packet) /\ after.payload \in Seq(Units)
  BY <1>1, ConcatProperties
<1>5. /\ Len(m) = Len(after.payload) + Len(rest)
      /\ \A i \in 1..Len(after.payload) : m[i] = after.payload[i]
  <2>1. /\ Len(after.payload \o rest) = Len(after.payload) + Len(rest)
        /\ \A i \in 1..Len(after.payload) + Len(rest) :
             (after.payload \o rest)[i] =
               IF i <= Len(after.payload) THEN after.payload[i] ELSE rest[i - Len(after.payload)]
    BY <1>4, ConcatProperties
  <2>2. \A i \in 1..Len(after.payload) :
          i \in 1..Len(after.payload) + Len(rest) /\ i <= Len(after.payload)
    BY <1>3, <1>4
  <2> QED
    BY <1>2, <2>1, <2>2
<1>6. /\ Len(m) = 1 + k.body /\ m[1] = Unit(c, n, k, 1) /\ k.body \in Nat
      /\ HeadLen = 1
  <2>1. HeadLen = 1 /\ k.body \in Nat
    BY <1>0, KindsAssumption DEF Polite
  <2> QED
    BY <2>1, AskedFacts DEF k
<1>7. after.payload # <<>> /\ Len(after.payload) \in Nat \ {0}
  BY <1>3, <1>4, EmptySeq
<1>8. Parsed(after, k)
  <2>1. CASE r.payload = <<>>
    <3> DEFINE a == [r EXCEPT !.payload = @ \o packet]
    <3>1. a.payload = after.payload /\ a \in Requests
      <4>1. r.payload \o packet \in Seq(Units)
        BY <1>1, <1>4
      <4>2. a.payload = r.payload \o packet /\ a \in Requests
        BY <4>1 DEF Requests
      <4> QED
        BY <1>1, <4>2
    <3>2. a.payload[1] = Unit(c, n, k, 1)
      <4>1. 1 \in 1..Len(after.payload)
        BY <1>7
      <4>2. after.payload[1] = Unit(c, n, k, 1)
        BY <1>5, <1>6, <4>1
      <4> QED
        BY <3>1, <4>2
    <3>3. a.payload[1].i = 1 /\ a.payload[1].kind = k
      BY <3>2 DEF Unit
    <3>4. Len(a.payload) >= HeadLen
      BY <1>6, <1>7, <3>1
    <3>5. after = Parse(a)
      BY <2>1 DEF Received
    <3> HIDE DEF a
    <3>6. Parse(a) = [a EXCEPT !.method = k.method, !.bodyStart = HeadLen,
                               !.contentLength = k.body, !.err = ~k.ok]
      BY <3>3, <3>4 DEF Parse
    <3> HIDE DEF after
    <3> QED
      BY <1>6, <3>1, <3>5, <3>6 DEF Parsed, Requests
  <2>2. CASE r.payload # <<>>
    BY <1>0, <2>2 DEF Received, Parsed, Requests
  <2> QED
    BY <2>1, <2>2
<1>9. Complete(r, packet) <=> rest = <<>>
  <2>1. rest = <<>> <=> Len(rest) = 0
    BY EmptySeq
  <2>2. Eof(after) <=> Len(rest) = 0
    <3>1. Eof(after) <=> Len(after.payload) - 1 = k.body
      BY <1>8 DEF Eof, Parsed
    <3>2. Len(after.payload) + Len(rest) = 1 + k.body
      BY <1>5, <1>6
    <3> HIDE DEF after, m
    <3> QED
      BY <1>3, <1>6, <1>7, <3>1, <3>2
  <2>3. ASSUME after.method = "GET" \/ after.err PROVE Len(rest) = 0
    <3>1. k.method = "GET" \/ ~k.ok
      BY <1>8, <2>3 DEF Parsed
    <3>2. k.body = 0
      BY <1>0, <3>1 DEF Polite
    <3>3. Len(after.payload) + Len(rest) = 1
      <4>1. Len(after.payload) + Len(rest) = 1 + 0
        BY <1>5, <1>6, <3>2
      <4> QED
        BY <4>1
    <3> HIDE DEF after, m
    <3> QED
      BY <1>3, <1>7, <3>3
  <2>4. Complete(r, packet) <=>
          (r.payload = <<>> /\ (after.method = "GET" \/ after.err)) \/ Eof(after)
    BY DEF Complete
  <2> HIDE DEF after
  <2> QED
    BY <2>1, <2>2, <2>3, <2>4
<1> QED
  BY <1>2, <1>7, <1>8, <1>9 DEF k

-----------------------------------------------------------------------------
(* The steps of clients and network. *)

LEMMA QuietStep ==
  ASSUME IInv, PInv, NEW c \in Conns, Connect(c) \/ Drain(c)
  PROVE  PInv'
<1> USE DEF clientVars, kernelVars, epollVars, poolVars
<1>1. /\ UNCHANGED <<clientVars, wire, inbox, fin, owner, interest, poolVars, main, request>>
      /\ \A d \in Conns : conn'[d] = conn[d] \/ (d = c /\ conn[c] = "new" /\ conn'[c] = "backlog")
  BY DEF Connect, Drain, IInv, Types, KernelTypes
<1>2. Once'
  BY <1>1, OnceFrame DEF PInv
<1>3. ASSUME NEW fd \in Fds PROVE FdInv(fd)'
  <2>1. InQueue(fd)' <=> InQueue(fd)
    BY <1>1 DEF InQueue
  <2> QED
    BY <1>1, <2>1, FdFrame DEF PInv
<1>4. ASSUME NEW d \in Conns PROVE ClientInv(d)'
  <2>1. CASE conn'[d] = conn[d]
    BY <1>1, <2>1, ClientFrame DEF PInv
  <2>2. CASE d = c /\ conn[c] = "new" /\ conn'[c] = "backlog"
    <3>1. sent[d] = <<>> /\ ~Waiting(d) /\ ClientInv(d)
      <4>1. ClientInv(d) /\ Len(delivered[d]) \in Nat /\ sent[d] = <<>>
        BY <2>2, ClientFacts DEF ClientInv
      <4>2. Len(sent[d]) = 0
        BY <4>1
      <4> QED
        BY <4>1, <4>2 DEF Waiting
    <3>2. UNCHANGED <<sent, delivered, wire, inbox, fin>> /\ conn'[d] = "backlog"
      BY <1>1, <2>2
    <3> QED
      BY <3>1, <3>2 DEF ClientInv, Waiting
  <2> QED
    BY <1>1, <2>1, <2>2
<1> QED
  BY <1>2, <1>3, <1>4 DEF PInv

LEMMA SendStep ==
  ASSUME Polite, IInv, PInv, NEW c \in Conns, SendRequest(c)
  PROVE  PInv'
<1> USE DEF clientVars, kernelVars, epollVars, poolVars
<1> DEFINE n == Len(sent[c]) + 1
<1>1. PICK k \in Kinds :
        /\ sent' = [sent EXCEPT ![c] = Append(@, k)]
        /\ wire' = [wire EXCEPT ![c] = @ \o Message(c, n, k)]
  BY DEF SendRequest
<1>2. /\ UNCHANGED <<delivered, conn, inbox, fin, full, epollVars, poolVars, main, request>>
      /\ conn[c] # "new" /\ ~fin[c] /\ ~Waiting(c)
  <2>1. Answered(c) => ~Waiting(c)
    BY ClientFacts DEF Answered, Waiting
  <2> QED
    BY <2>1 DEF SendRequest
<1>3. /\ ClientInv(c) /\ Len(sent[c]) = Len(delivered[c]) /\ Len(sent[c]) \in Nat
      /\ wire[c] = <<>> /\ inbox[c] = <<>> /\ c # NoConn
  <2>1. ClientInv(c) /\ Len(sent[c]) \in Nat /\ Len(delivered[c]) \in Nat /\ c # NoConn
    BY ClientFacts
  <2>2. wire[c] = <<>> /\ inbox[c] = <<>>
    BY <1>2, <2>1 DEF ClientInv
  <2>3. /\ Len(delivered[c]) <= Len(sent[c]) /\ Len(sent[c]) <= Len(delivered[c]) + 1
        /\ ~(Len(delivered[c]) < Len(sent[c]))
    BY <1>2, <2>1 DEF ClientInv, Waiting
  <2> QED
    BY <2>1, <2>2, <2>3
<1>4. Message(c, n, k) \in Seq(Units) /\ Message(c, n, k) # <<>>
  <2>1. n \in Nat /\ HeadLen + k.body \in Nat \ {0}
    BY <1>3, KindsAssumption, LengthsAssumption
  <2>2. Message(c, n, k) \in Seq(Units) /\ Len(Message(c, n, k)) = HeadLen + k.body
    BY <2>1, MessageType
  <2> HIDE DEF n
  <2> QED
    BY <2>1, <2>2, EmptySeq
<1>5. /\ sent'[c] = Append(sent[c], k) /\ Len(sent'[c]) = n /\ sent'[c][n] = k
      /\ wire'[c] = Message(c, n, k)
      /\ \A d \in Conns : d # c => sent'[d] = sent[d] /\ wire'[d] = wire[d]
  <2>1. sent \in [Conns -> Seq(Kinds)] /\ wire \in [Conns -> Seq(Units)]
    BY DEF IInv, Types, ClientTypes
  <2>2. Len(Append(sent[c], k)) = n /\ Append(sent[c], k)[n] = k
    BY <2>1, AppendProperties
  <2>3. wire[c] \o Message(c, n, k) = Message(c, n, k)
    <3> DEFINE m == Message(c, n, k)
    <3>1. m \in Seq(Units)
      BY <1>4
    <3>2. <<>> \o m = m
      <4> HIDE DEF m
      <4> QED
        BY <3>1, ConcatEmptySeq
    <3> QED
      BY <1>3, <3>2
  <2> QED
    BY <1>1, <2>1, <2>2, <2>3
<1>6. Waiting(c)' /\ Asked(c)' = Message(c, n, k) /\ inbox'[c] = <<>>
  BY <1>2, <1>3, <1>5 DEF Waiting, Asked, LastKind
<1>7. inbox'[c] \o wire'[c] = Message(c, n, k)
  <2> DEFINE m == Message(c, n, k)
  <2>1. m \in Seq(Units)
    BY <1>4
  <2>2. <<>> \o m = m
    <3> HIDE DEF m
    <3> QED
      BY <2>1, ConcatEmptySeq
  <2> QED
    BY <1>5, <1>6, <2>2
<1> HIDE DEF n
<1>8. Once'
  BY <1>2, OnceFrame DEF PInv
<1>9. ASSUME NEW d \in Conns PROVE ClientInv(d)'
  <2>1. CASE d # c
    BY <1>2, <1>5, <2>1, ClientFrame DEF PInv
  <2>2. CASE d = c
    <3>1. Len(delivered[c]) <= Len(sent'[c]) /\ Len(sent'[c]) <= Len(delivered[c]) + 1
      BY <1>3, <1>5 DEF n
    <3>2. ClientInv(c)'
      BY <1>2, <1>3, <1>6, <1>7, <3>1 DEF ClientInv
    <3> QED
      BY <2>2, <3>2
  <2> QED
    BY <2>1, <2>2
<1>10. ASSUME NEW fd \in Fds PROVE FdInv(fd)'
  <2>0. InQueue(fd)' <=> InQueue(fd)
    BY <1>2 DEF InQueue
  <2>1. CASE owner[fd] # c
    <3>1. owner[fd] # NoConn => owner[fd] \in Conns
      BY DEF IInv, Types, KernelTypes
    <3> QED
      BY <1>2, <1>5, <2>0, <2>1, <3>1, FdFrame DEF PInv
  <2>2. CASE owner[fd] = c
    <3>1. IdleAt(fd, c)
      BY <1>2, <1>3, <2>2 DEF PInv, FdInv, ReceivingAt, ServedAt, WritingAt
    <3>2. main.fd # fd
      BY <1>2, <2>2, <3>1, ConnsAssumption DEF IInv, MainInv, IdleAt
    <3>3. Unused(fd)'
      BY <1>2, <2>0, <3>1 DEF IdleAt, Unused, InWork
    <3>4. request'[fd].payload \o (inbox'[c] \o wire'[c]) = Asked(c)'
      <4> DEFINE m == Message(c, n, k)
      <4>1. m \in Seq(Units)
        BY <1>4
      <4>2. <<>> \o m = m
        <5> HIDE DEF m
        <5> QED
          BY <4>1, ConcatEmptySeq
      <4> QED
        BY <1>2, <1>6, <1>7, <3>1, <4>2 DEF IdleAt
    <3>5. ReceivingAt(fd, c)'
      BY <1>2, <1>4, <1>6, <1>7, <3>1, <3>2, <3>3, <3>4 DEF IdleAt, ReceivingAt
    <3> QED
      BY <1>2, <1>3, <2>2, <3>5 DEF FdInv
  <2> QED
    BY <2>1, <2>2
<1> QED
  BY <1>8, <1>9, <1>10 DEF PInv

LEMMA DeliverStep ==
  ASSUME IInv, PInv, NEW c \in Conns, Deliver(c)
  PROVE  PInv'
<1> USE DEF clientVars, kernelVars, epollVars, poolVars
<1>1. wire[c] \in Seq(Units) /\ inbox[c] \in Seq(Units) /\ wire[c] # <<>> /\ ClientInv(c)
      /\ c # NoConn
  BY ClientFacts DEF Deliver
<1>2. PICK k \in 1..Len(wire[c]) :
        /\ inbox' = [inbox EXCEPT ![c] = @ \o SubSeq(wire[c], 1, k)]
        /\ wire' = [wire EXCEPT ![c] = SubSeq(@, k + 1, Len(@))]
  BY DEF Deliver
<1> DEFINE s == SubSeq(wire[c], 1, k)
           t == SubSeq(wire[c], k + 1, Len(wire[c]))
<1>3. s \in Seq(Units) /\ t \in Seq(Units) /\ s \o t = wire[c]
  <2>1. wire[c] \in Seq(Units) /\ wire[c] # <<>>
    BY <1>1
  <2> QED
    BY <2>1, Split
<1>4. /\ inbox'[c] = inbox[c] \o s /\ wire'[c] = t
      /\ \A d \in Conns : d # c => inbox'[d] = inbox[d] /\ wire'[d] = wire[d]
  BY <1>2 DEF IInv, Types, ClientTypes, KernelTypes
<1> HIDE DEF s, t
<1>5. inbox'[c] \o wire'[c] = inbox[c] \o wire[c]
  <2>1. (inbox[c] \o s) \o t = inbox[c] \o (s \o t)
    BY <1>1, <1>3, UnitsAssociative
  <2> QED
    BY <1>3, <1>4, <2>1
<1>6. UNCHANGED <<clientVars, conn, fin, full, owner, interest, poolVars, main, request>>
  BY DEF Deliver
<1>7. Waiting(c) /\ Waiting(c)' /\ Asked(c)' = Asked(c) /\ LastKind(c)' = LastKind(c)
  BY <1>1, <1>6 DEF ClientInv, Waiting, Asked, LastKind
<1>8. Once'
  BY <1>6, OnceFrame DEF PInv
<1>9. ASSUME NEW d \in Conns PROVE ClientInv(d)'
  <2>1. CASE d # c
    BY <1>4, <1>6, <2>1, ClientFrame DEF PInv
  <2>2. CASE d = c
    <3>1. ClientInv(c)'
      BY <1>1, <1>5, <1>6, <1>7 DEF ClientInv
    <3> QED
      BY <2>2, <3>1
  <2> QED
    BY <2>1, <2>2
<1>10. ASSUME NEW fd \in Fds PROVE FdInv(fd)'
  <2>0. InQueue(fd)' <=> InQueue(fd)
    BY <1>6 DEF InQueue
  <2>1. CASE owner[fd] # c
    <3>1. owner[fd] # NoConn => owner[fd] \in Conns
      BY DEF IInv, Types, KernelTypes
    <3> QED
      BY <1>4, <1>6, <2>0, <2>1, <3>1, FdFrame DEF PInv
  <2>2. CASE owner[fd] = c
    <3>1. ReceivingAt(fd, c)
      BY <1>1, <2>2, WireHas
    <3>2. Unused(fd)'
      BY <1>6, <2>0, <3>1 DEF ReceivingAt, Unused, InWork
    <3>3. request'[fd].payload \o (inbox'[c] \o wire'[c]) = Asked(c)'
          /\ inbox'[c] \o wire'[c] # <<>>
      BY <1>5, <1>6, <1>7, <3>1 DEF ReceivingAt
    <3>4. ReceivingAt(fd, c)'
      BY <1>6, <1>7, <3>1, <3>2, <3>3 DEF ReceivingAt
    <3> QED
      BY <1>1, <1>6, <2>2, <3>4 DEF FdInv
  <2> QED
    BY <2>1, <2>2
<1> QED
  BY <1>8, <1>9, <1>10 DEF PInv

\* Only a client that has its answers leaves.
LEMMA HangupStep ==
  ASSUME Polite, IInv, PInv, NEW c \in Conns, Hangup(c)
  PROVE  PInv'
<1> USE DEF clientVars, kernelVars, epollVars, poolVars
<1>1. ClientInv(c) /\ ~Waiting(c)
  <2>1. Answered(c) => ~Waiting(c)
    BY ClientFacts DEF Answered, Waiting
  <2> QED
    BY <2>1, ClientFacts DEF Hangup, Polite
<1>2. /\ UNCHANGED <<clientVars, conn, inbox, full, owner, interest, poolVars, main, request>>
      /\ \A d \in Conns : d # c => fin'[d] = fin[d]
      /\ \A d \in Conns : wire'[d] = wire[d]
  BY <1>1 DEF Hangup, ClientInv, IInv, Types, ClientTypes, KernelTypes
<1>3. Once'
  BY <1>2, OnceFrame DEF PInv
<1>4. ASSUME NEW d \in Conns PROVE ClientInv(d)'
  <2>1. CASE d # c
    BY <1>2, <2>1, ClientFrame DEF PInv
  <2>2. CASE d = c
    <3>1. (Waiting(c)' <=> Waiting(c)) /\ fin'[c] /\ wire'[c] = wire[c]
      BY <1>2 DEF Waiting, Hangup, IInv, Types, KernelTypes
    <3>2. ClientInv(c)'
      BY <1>1, <1>2, <3>1 DEF ClientInv
    <3> QED
      BY <2>2, <3>2
  <2> QED
    BY <2>1, <2>2
<1>5. ASSUME NEW fd \in Fds PROVE FdInv(fd)'
  <2>1. InQueue(fd)' <=> InQueue(fd)
    BY <1>2 DEF InQueue
  <2>2. owner[fd] # NoConn => owner[fd] \in Conns
    BY DEF IInv, Types, KernelTypes
  <2> QED
    BY <1>2, <2>1, <2>2, FdFrame DEF PInv
<1> QED
  BY <1>3, <1>4, <1>5 DEF PInv

-----------------------------------------------------------------------------
(* The steps of the main thread. *)

LEMMA WaitStep ==
  ASSUME IInv, PInv, NEW fd0 \in Fds, Wait(fd0)
  PROVE  PInv'
<1> USE DEF clientVars, kernelVars, epollVars, poolVars
<1>1. /\ UNCHANGED <<clientVars, kernelVars, owner, interest, poolVars, request>>
      /\ main = Polling /\ main.fd \notin Fds /\ owner[fd0] # NoConn
  BY ConnsAssumption DEF Wait, Polling, Event, IInv, OwnerInv
<1>2. IF Level(fd0, interest[fd0])
        THEN main' = Event(fd0, fin[owner[fd0]], interest[fd0] = "in" /\ Readable(fd0),
                           interest[fd0] = "out" /\ Writable(fd0))
        ELSE main' = main
  BY DEF Wait
<1>3. Once' /\ \A d \in Conns : ClientInv(d)'
  BY <1>1, OnceFrame, ClientFrame DEF PInv
<1>4. \A fd \in Fds : (InQueue(fd)' <=> InQueue(fd)) /\ (Unused(fd)' <=> Unused(fd))
  BY <1>1 DEF InQueue, Unused, InWork
<1>5. ASSUME NEW fd \in Fds, fd # fd0 \/ ~Level(fd0, interest[fd0])
      PROVE  FdInv(fd)'
  <2>1. main'.fd = fd => main' = main
    BY <1>2, <1>5 DEF Event
  <2> QED
    BY <1>1, <1>4, <2>1, FdFrame DEF PInv
<1>6. ASSUME NEW c \in Conns, c = owner[fd0], Level(fd0, interest[fd0]) PROVE FdInv(fd0)'
  <2>1. /\ main'.fd = fd0 /\ main'.hup = fin[c]
        /\ main'.in = (interest[fd0] = "in" /\ Readable(fd0))
        /\ main'.out = (interest[fd0] = "out" /\ Writable(fd0))
    BY <1>2, <1>6 DEF Event
  <2>2. ClientInv(c) /\ FdInv(fd0) /\ fin[c] \in BOOLEAN /\ c # NoConn
    BY ClientFacts DEF PInv
  <2>3. /\ Waiting(c)' <=> Waiting(c)
        /\ Asked(c)' = Asked(c) /\ LastKind(c)' = LastKind(c) /\ Due(c)' = Due(c)
    BY <1>1 DEF Waiting, Asked, LastKind, Due
  <2>4. CASE IdleAt(fd0, c)
    <3>1. fin[c]
      BY <1>6, <2>2, <2>4 DEF IdleAt, ClientInv, Level, Readable
    <3>2. IdleAt(fd0, c)'
      BY <1>1, <1>4, <2>1, <2>3, <2>4, <3>1 DEF IdleAt
    <3> QED
      BY <1>1, <1>6, <3>2 DEF FdInv
  <2>5. CASE ReceivingAt(fd0, c)
    <3>1. ~fin[c] /\ Readable(fd0)
      BY <1>6, <2>2, <2>5 DEF ReceivingAt, ClientInv, Level
    <3>2. ReceivingAt(fd0, c)'
      BY <1>1, <1>4, <2>1, <2>3, <2>5, <3>1 DEF ReceivingAt
    <3> QED
      BY <1>1, <1>6, <3>2 DEF FdInv
  <2>6. CASE ServedAt(fd0, c)
    BY <1>6, <2>2, <2>6 DEF ServedAt, ClientInv, Level, Readable
  <2>7. CASE WritingAt(fd0, c)
    <3>1. ~fin[c] /\ Writable(fd0)
      BY <1>6, <2>2, <2>7 DEF WritingAt, ClientInv, Level
    <3>2. WritingAt(fd0, c)'
      BY <1>1, <1>4, <2>1, <2>3, <2>7, <3>1 DEF WritingAt
    <3> QED
      BY <1>1, <1>6, <3>2 DEF FdInv
  <2> QED
    BY <1>6, <2>2, <2>4, <2>5, <2>6, <2>7 DEF FdInv
<1>7. owner[fd0] \in Conns
  BY <1>1 DEF IInv, Types, KernelTypes
<1> QED
  BY <1>3, <1>5, <1>6, <1>7 DEF PInv

LEMMA AcceptStep ==
  ASSUME IInv, PInv, NEW c \in Conns, NEW fd0 \in Fds, Accept(c, fd0)
  PROVE  PInv'
<1> USE DEF clientVars, kernelVars, epollVars, poolVars
<1>1. /\ UNCHANGED <<clientVars, wire, inbox, fin, full, poolVars, main>>
      /\ main.fd = NoFd /\ main.fd \notin Fds /\ conn[c] = "backlog" /\ owner[fd0] = NoConn
      /\ conn' = [conn EXCEPT ![c] = "open"] /\ owner' = [owner EXCEPT ![fd0] = c]
      /\ request' = [request EXCEPT ![fd0] = EmptyRequest]
      /\ interest' = [interest EXCEPT ![fd0] = "in"]
  BY ConnsAssumption DEF Accept, Register, Polling, Event
<1>2. /\ conn \in [Conns -> {"new", "backlog", "open", "closed"}]
      /\ owner \in [Fds -> Conns \cup {NoConn}] /\ interest \in [Fds -> {"in", "out", "none"}]
      /\ request \in [Fds -> Requests]
  BY DEF IInv, Types, KernelTypes, ProgramTypes
<1>3. ClientInv(c) /\ c # NoConn /\ inbox[c] \in Seq(Units) /\ wire[c] \in Seq(Units)
  BY ClientFacts
<1>4. /\ \A d \in Conns : Waiting(d)' <=> Waiting(d)
      /\ Asked(c)' = Asked(c)
      /\ \A fd \in Fds : (InQueue(fd)' <=> InQueue(fd)) /\ (Unused(fd)' <=> Unused(fd))
  BY <1>1 DEF Waiting, Asked, LastKind, InQueue, Unused, InWork
<1>5. Once'
  BY <1>1, OnceFrame DEF PInv
<1>6. ASSUME NEW d \in Conns PROVE ClientInv(d)'
  <2>1. CASE d # c
    BY <1>1, <1>2, <2>1, ClientFrame DEF PInv
  <2>2. CASE d = c
    <3>1. ClientInv(c)'
      BY <1>1, <1>2, <1>3, <1>4 DEF ClientInv
    <3> QED
      BY <2>2, <3>1
  <2> QED
    BY <2>1, <2>2
<1>7. ASSUME NEW fd \in Fds, fd # fd0 PROVE FdInv(fd)'
  BY <1>1, <1>2, <1>4, <1>7, FdFrame DEF PInv
<1>8. FdInv(fd0)'
  <2>1. /\ owner'[fd0] = c /\ interest'[fd0] = "in" /\ main'.fd # fd0
        /\ request'[fd0].payload = <<>> /\ request'[fd0].response = <<>>
        /\ request'[fd0].pos = 0
    BY <1>1, <1>2 DEF EmptyRequest
  <2>2. Unused(fd0)'
    BY <1>1, <1>4 DEF PInv, FdInv
  <2>3. CASE ~Waiting(c)
    <3>1. IdleAt(fd0, c)'
      BY <1>4, <2>1, <2>2, <2>3 DEF IdleAt
    <3> QED
      BY <1>3, <2>1, <3>1 DEF FdInv
  <2>4. CASE Waiting(c)
    <3> DEFINE u == inbox[c] \o wire[c]
    <3>1. u = Asked(c) /\ u \in Seq(Units)
      BY <1>1, <1>3, <2>4, ConcatProperties DEF ClientInv
    <3>2. <<>> \o u = u
      <4> HIDE DEF u
      <4> QED
        BY <3>1, ConcatEmptySeq
    <3>3. u # <<>>
      <4> HIDE DEF u
      <4> QED
        BY <2>4, <3>1, AskedFacts
    <3>4. inbox'[c] \o wire'[c] = u /\ request'[fd0].payload \o u = u
      BY <1>1, <2>1, <3>2
    <3> HIDE DEF u
    <3>5. ReceivingAt(fd0, c)'
      BY <1>4, <2>1, <2>2, <2>4, <3>1, <3>3, <3>4 DEF ReceivingAt
    <3> QED
      BY <1>3, <2>1, <3>5 DEF FdInv
  <2> QED
    BY <2>3, <2>4
<1> QED
  BY <1>5, <1>6, <1>7, <1>8 DEF PInv

\* Only idle connections are closed.
LEMMA CloseStep ==
  ASSUME IInv, PInv, CloseConnection
  PROVE  PInv'
<1> USE DEF clientVars, kernelVars, epollVars, poolVars
<1>1. PICK fd0 \in Fds : fd0 = main.fd
  BY MainFd DEF CloseConnection
<1>2. PICK c \in Conns : c = owner[fd0]
  BY <1>1, MainFd DEF CloseConnection
<1>3. fin[c] /\ IdleAt(fd0, c)
  BY <1>1, <1>2, MainCloses DEF CloseConnection
<1>4. /\ UNCHANGED <<clientVars, wire, inbox, fin, full, poolVars, request>>
      /\ conn' = [conn EXCEPT ![c] = "closed"] /\ owner' = [owner EXCEPT ![fd0] = NoConn]
      /\ interest' = [interest EXCEPT ![fd0] = "none"] /\ main'.fd \notin Fds
  BY <1>1, <1>2, ConnsAssumption DEF CloseConnection, Polling, Event
<1>5. /\ conn \in [Conns -> {"new", "backlog", "open", "closed"}]
      /\ owner \in [Fds -> Conns \cup {NoConn}] /\ interest \in [Fds -> {"in", "out", "none"}]
  BY DEF IInv, Types, KernelTypes
<1>6. \A fd \in Fds : (InQueue(fd)' <=> InQueue(fd)) /\ (Unused(fd)' <=> Unused(fd))
  BY <1>4 DEF InQueue, Unused, InWork
<1>7. Once'
  BY <1>4, OnceFrame DEF PInv
<1>8. ASSUME NEW d \in Conns PROVE ClientInv(d)'
  <2>1. CASE d # c
    BY <1>4, <1>5, <2>1, ClientFrame DEF PInv
  <2>2. CASE d = c
    <3>1. ClientInv(c) /\ ~Waiting(c) /\ ~Waiting(c)' /\ conn'[c] = "closed"
      BY <1>3, <1>4, <1>5 DEF PInv, IdleAt, Waiting
    <3>2. ClientInv(c)'
      BY <1>3, <1>4, <3>1 DEF ClientInv
    <3> QED
      BY <2>2, <3>2
  <2> QED
    BY <2>1, <2>2
<1>9. ASSUME NEW fd \in Fds, fd # fd0 PROVE FdInv(fd)'
  BY <1>4, <1>5, <1>6, <1>9, FdFrame DEF PInv
<1>10. FdInv(fd0)'
  BY <1>3, <1>4, <1>5, <1>6 DEF FdInv, IdleAt
<1> QED
  BY <1>7, <1>8, <1>9, <1>10 DEF PInv

LEMMA ReadStep ==
  ASSUME Polite, IInv, PInv, NEW c \in Conns, ReadPacket(c)
  PROVE  PInv'
<1> USE DEF clientVars, kernelVars, epollVars, poolVars
<1>1. PICK fd0 \in Fds : fd0 = main.fd
  BY Packet
<1>2. c = owner[fd0] /\ main.in /\ ~main.hup /\ request[fd0] \in Requests
  BY <1>1, Packet
<1>3. ReceivingAt(fd0, c) /\ c # NoConn
  BY <1>1, <1>2, MainReads, ConnsAssumption
<1>4. /\ UNCHANGED <<clientVars, wire, conn, fin, full, owner, interest, ready, at, seen>>
      /\ inbox \in [Conns -> Seq(Units)] /\ request \in [Fds -> Requests]
  BY DEF ReadPacket, IInv, Types, KernelTypes, ProgramTypes
<1>5. inbox[c] \in Seq(Units) /\ inbox[c] # <<>>
  BY Packet
<1>6. PICK k \in 1..Len(inbox[c]) :
        LET packet == SubSeq(inbox[c], 1, k)
        IN  /\ inbox' = [inbox EXCEPT ![c] = SubSeq(inbox[c], k + 1, Len(inbox[c]))]
            /\ request' = [request EXCEPT ![fd0] = Received(request[fd0], packet)]
            /\ IF Complete(request[fd0], packet)
                 THEN main' = Polling /\ Queue!Push(fd0)
                 ELSE UNCHANGED <<main, pending, running>>
  BY <1>1, Packet
<1> DEFINE s == SubSeq(inbox[c], 1, k)
           t == SubSeq(inbox[c], k + 1, Len(inbox[c]))
           r == request[fd0]
           after == Received(r, s)
           rest == t \o wire[c]
<1>7. s \in Seq(Units) /\ s # <<>> /\ t \in Seq(Units) /\ s \o t = inbox[c]
  BY <1>5, Split
<1>8. /\ inbox'[c] = t /\ request'[fd0] = after
      /\ \A d \in Conns : d # c => inbox'[d] = inbox[d]
      /\ \A fd \in Fds : fd # fd0 => request'[fd] = request[fd]
      /\ IF Complete(r, s)
           THEN /\ main' = Polling /\ pending' = Append(pending, fd0) /\ running' = running
           ELSE UNCHANGED <<main, pending, running>>
  BY <1>4, <1>6 DEF Queue!Push
<1>9. wire[c] \in Seq(Units) /\ ClientInv(c)
  BY ClientFacts
<1> HIDE DEF s, t
<1>10. rest \in Seq(Units) /\ r.payload \o (s \o rest) = Asked(c)
  <2>1. rest \in Seq(Units)
    BY <1>7, <1>9, ConcatProperties
  <2>2. s \o (t \o wire[c]) = (s \o t) \o wire[c]
    BY <1>7, <1>9, UnitsAssociative
  <2>3. s \o rest = inbox[c] \o wire[c]
    BY <1>7, <2>2
  <2> QED
    BY <1>3, <2>1, <2>3 DEF ReceivingAt
<1>11. /\ after.payload \o rest = Asked(c) /\ after.payload # <<>>
       /\ Parsed(after, LastKind(c)) /\ (Complete(r, s) <=> rest = <<>>)
  <2>1. /\ Waiting(c) /\ r \in Requests /\ r.payload \o (s \o rest) = Asked(c)
        /\ r.payload # <<>> => Parsed(r, LastKind(c))
        /\ s \in Seq(Units) /\ s # <<>> /\ rest \in Seq(Units)
    BY <1>2, <1>3, <1>7, <1>10 DEF ReceivingAt
  <2> HIDE DEF r, rest
  <2> QED
    BY <2>1, Reception
<1>12. after.response = <<>> /\ after.pos = 0
  BY <1>2, <1>3, <1>7, ReceivedType DEF ReceivingAt
<1> HIDE DEF r, after, rest
<1>13. /\ Waiting(c) /\ Waiting(c)'
       /\ Asked(c)' = Asked(c) /\ LastKind(c)' = LastKind(c)
       /\ ~InQueue(fd0) /\ ~InWork(fd0) /\ interest[fd0] = "in"
  BY <1>3, <1>4 DEF ReceivingAt, Unused, Waiting, Asked, LastKind
<1>14. ASSUME NEW d \in Conns PROVE ClientInv(d)'
  <2>1. CASE d # c
    BY <1>4, <1>8, <2>1, ClientFrame DEF PInv
  <2>2. CASE d = c
    <3>1. conn[c] = "open"
      BY <1>2, <1>3 DEF IInv, OwnerInv
    <3>2. ClientInv(c)'
      BY <1>4, <1>9, <1>13, <3>1 DEF ClientInv
    <3> QED
      BY <2>2, <3>2
  <2> QED
    BY <2>1, <2>2
<1>15. ASSUME NEW fd \in Fds, fd # fd0, owner[fd] # NoConn
       PROVE  owner[fd] \in Conns /\ owner[fd] # c
  BY <1>2, <1>15 DEF IInv, Types, KernelTypes, OwnerInv
<1>16. CASE rest # <<>>
  <2>1. UNCHANGED <<main, pending, running>>
    BY <1>8, <1>11, <1>16
  <2>2. Once'
    BY <2>1, OnceFrame DEF PInv
  <2>3. \A fd \in Fds : (InQueue(fd)' <=> InQueue(fd)) /\ (Unused(fd)' <=> Unused(fd))
    BY <2>1 DEF InQueue, Unused, InWork
  <2>4. ASSUME NEW fd \in Fds, fd # fd0 PROVE FdInv(fd)'
    BY <1>4, <1>8, <1>15, <2>1, <2>3, <2>4, FdFrame DEF PInv
  <2>5. FdInv(fd0)'
    <3>1. /\ request'[fd0].payload \o (inbox'[c] \o wire'[c]) = Asked(c)'
          /\ inbox'[c] \o wire'[c] # <<>>
          /\ Parsed(request'[fd0], LastKind(c)')
          /\ request'[fd0].response = <<>> /\ request'[fd0].pos = 0
      BY <1>4, <1>8, <1>11, <1>12, <1>13, <1>16 DEF rest
    <3>2. Unused(fd0)' /\ interest'[fd0] = "in" /\ main'.in /\ ~main'.hup
      BY <1>2, <1>4, <1>13, <2>1, <2>3 DEF Unused
    <3>3. ReceivingAt(fd0, c)'
      BY <1>13, <3>1, <3>2 DEF ReceivingAt
    <3> QED
      BY <1>2, <1>3, <1>4, <3>3 DEF FdInv
  <2> QED
    BY <1>14, <2>2, <2>4, <2>5 DEF PInv
<1>17. CASE rest = <<>>
  <2>1. /\ main' = Polling /\ pending' = Append(pending, fd0) /\ running' = running
    BY <1>8, <1>11, <1>17
  <2>2. /\ \A fd : InQueue(fd)' <=> InQueue(fd) \/ fd = fd0
        /\ \A fd : InWork(fd)' <=> InWork(fd)
    BY <2>1, PushElements DEF InWork
  <2>3. Once'
    <3>1. pending \in Seq(Fds) /\ Len(pending) \in Nat /\ DOMAIN pending = 1..Len(pending)
      BY LenProperties DEF IInv, Types, ProgramTypes
    <3>2. /\ DOMAIN pending' = 1..Len(pending) + 1
          /\ \A i \in 1..Len(pending) : pending'[i] = pending[i]
          /\ pending'[Len(pending) + 1] = fd0
      <4>1. LET p == Append(pending, fd0) IN
              /\ p \in Seq(Fds) /\ Len(p) = Len(pending) + 1
              /\ \A i \in 1..Len(pending) : p[i] = pending[i]
              /\ p[Len(pending) + 1] = fd0
        BY <3>1, AppendProperties
      <4> QED
        BY <2>1, <4>1, LenProperties
    <3>3. \A i \in 1..Len(pending) : pending[i] # fd0
      BY <1>13, <3>1 DEF InQueue
    <3>4. \A n \in Nat : \A i \in 1..n + 1 : i \in 1..n \/ i = n + 1
      OBVIOUS
    <3>5. \A i, j \in DOMAIN pending' : pending'[i] = pending'[j] => i = j
      BY <3>1, <3>2, <3>3, <3>4 DEF PInv, Once
    <3>6. \A fd \in Fds : ~(InQueue(fd)' /\ InWork(fd)')
      BY <1>13, <2>2 DEF PInv, Once
    <3> QED
      BY <2>1, <3>5, <3>6 DEF PInv, Once
  <2>4. ASSUME NEW fd \in Fds, fd # fd0 PROVE FdInv(fd)'
    <3>1. main'.fd # fd
      BY <2>1, ConnsAssumption DEF Polling, Event
    <3>2. InQueue(fd)' <=> InQueue(fd)
      BY <2>2, <2>4
    <3> QED
      BY <1>4, <1>8, <1>15, <2>1, <2>4, <3>1, <3>2, FdFrame DEF PInv
  <2>5. FdInv(fd0)'
    <3>1. t = <<>> /\ wire[c] = <<>> /\ after.payload = Asked(c)
      <4>1. after.payload \in Seq(Units)
        <5>1. after \in Requests
          BY <1>2, <1>7, ReceivedType DEF after, r
        <5> QED
          BY <5>1 DEF Requests
      <4>2. after.payload \o <<>> = Asked(c)
        BY <1>11, <1>17
      <4>3. after.payload = Asked(c)
        BY <4>1, <4>2, ConcatEmptySeq
      <4>4. t \o wire[c] = <<>>
        BY <1>17 DEF rest
      <4>5. t = <<>> /\ wire[c] = <<>>
        BY <1>7, <1>9, <4>4, ConcatEqualIffEmpty
      <4> QED
        BY <4>3, <4>5
    <3>2. /\ request'[fd0].payload = Asked(c)' /\ Parsed(request'[fd0], LastKind(c)')
          /\ request'[fd0].response = <<>> /\ request'[fd0].pos = 0
          /\ inbox'[c] = <<>> /\ wire'[c] = <<>>
      BY <1>4, <1>8, <1>11, <1>12, <1>13, <3>1
    <3>3. /\ ~Unused(fd0)' /\ interest'[fd0] = "in" /\ main'.fd # fd0
          /\ \A w \in Workers : running'[w] # fd0
      BY <1>4, <1>13, <2>1, <2>2, ConnsAssumption DEF Unused, InWork, Polling, Event
    <3>4. ServedAt(fd0, c)'
      BY <1>13, <3>2, <3>3 DEF ServedAt
    <3> QED
      BY <1>2, <1>3, <1>4, <3>4 DEF FdInv
  <2> QED
    BY <1>14, <2>3, <2>4, <2>5 DEF PInv
<1> QED
  BY <1>16, <1>17

\* read() finds nothing: an error would mean that the client has left.
LEMMA ReadNothingStep ==
  ASSUME IInv, PInv, NEW c \in Conns, ReadBlocked(c) \/ ReadFailed(c)
  PROVE  PInv'
<1> USE DEF clientVars, kernelVars, epollVars, poolVars
<1>1. PICK fd0 \in Fds : fd0 = main.fd
  BY MainFd DEF ReadBlocked, ReadFailed, Reading
<1>2. c = owner[fd0] /\ ReceivingAt(fd0, c)
  BY <1>1, MainReads DEF ReadBlocked, ReadFailed, Reading
<1>3. ~fin[c]
  BY <1>2 DEF PInv, ClientInv, ReceivingAt
<1>4. /\ UNCHANGED <<clientVars, kernelVars, epollVars, poolVars, request>>
      /\ main'.fd \notin Fds
  BY <1>3, ConnsAssumption DEF ReadBlocked, ReadFailed, Polling, Event
<1>5. Once' /\ \A d \in Conns : ClientInv(d)'
  BY <1>4, OnceFrame, ClientFrame DEF PInv
<1>6. ASSUME NEW fd \in Fds PROVE FdInv(fd)'
  <2>1. InQueue(fd)' <=> InQueue(fd)
    BY <1>4 DEF InQueue
  <2> QED
    BY <1>4, <2>1, FdFrame DEF PInv
<1> QED
  BY <1>5, <1>6 DEF PInv

\* A response that is being written is the one response to the last request.
LEMMA WriteFacts ==
  ASSUME IInv, PInv, NEW c \in Conns, Writing(c)
  PROVE  \E fd \in Fds : fd = main.fd /\ owner[fd] = c /\ WritingAt(fd, c) /\ ~fin[c]
<1>1. PICK fd \in Fds : fd = main.fd
  BY MainFd DEF Writing
<1>2. owner[fd] = c /\ WritingAt(fd, c)
  BY <1>1, MainWrites DEF Writing
<1> QED
  BY <1>1, <1>2 DEF PInv, ClientInv, WritingAt

LEMMA WriteAllStep ==
  ASSUME IInv, PInv, NEW c \in Conns, WriteAll(c)
  PROVE  PInv'
<1> USE DEF clientVars, kernelVars, epollVars, poolVars
<1>1. PICK fd0 \in Fds : fd0 = main.fd /\ owner[fd0] = c /\ WritingAt(fd0, c) /\ ~fin[c]
  BY WriteFacts DEF WriteAll
<1>2. /\ UNCHANGED <<sent, kernelVars, owner, poolVars>> /\ main'.fd \notin Fds
      /\ delivered' = [delivered EXCEPT ![c] = @ \o request[fd0].response]
      /\ request' = [request EXCEPT ![fd0] = EmptyRequest]
      /\ interest' = [interest EXCEPT ![fd0] = "in"]
  BY <1>1, ConnsAssumption DEF WriteAll, FinishWrite, Modify, Clear, Polling, Event
<1>3. /\ delivered \in [Conns -> Seq(Responses)] /\ request \in [Fds -> Requests]
      /\ interest \in [Fds -> {"in", "out", "none"}]
  BY DEF IInv, Types, ClientTypes, KernelTypes, ProgramTypes
<1>4. /\ ClientInv(c) /\ Len(sent[c]) \in Nat /\ Len(delivered[c]) \in Nat
      /\ delivered[c] \in Seq(Responses) /\ c # NoConn
  BY <1>3, ClientFacts
<1>5. request[fd0].response = <<Due(c)>> /\ Due(c) \in Responses
  <2>1. request[fd0].response \in Seq(Responses)
    BY <1>3 DEF Requests
  <2>2. request[fd0].response = <<Due(c)>>
    BY <1>1 DEF WritingAt
  <2>3. Len(<<Due(c)>>) = 1 /\ <<Due(c)>>[1] = Due(c)
    OBVIOUS
  <2>4. <<Due(c)>>[1] \in Responses
    BY <2>1, <2>2, <2>3, ElementOfSeq
  <2> QED
    BY <2>2, <2>3, <2>4
<1>6. /\ delivered'[c] = Append(delivered[c], Due(c))
      /\ Len(delivered'[c]) = Len(delivered[c]) + 1
      /\ \A d \in Conns : d # c => delivered'[d] = delivered[d]
  <2>1. delivered[c] \o <<Due(c)>> = Append(delivered[c], Due(c))
    BY <1>4, <1>5, AppendIsConcat
  <2>2. Len(Append(delivered[c], Due(c))) = Len(delivered[c]) + 1
    BY <1>4, <1>5, AppendProperties
  <2> QED
    BY <1>2, <1>3, <1>5, <2>1, <2>2
<1>7. Len(delivered'[c]) = Len(sent[c]) /\ ~Waiting(c)'
  <2>1. /\ Len(delivered[c]) < Len(sent[c]) /\ Len(sent[c]) <= Len(delivered[c]) + 1
    BY <1>1, <1>4 DEF WritingAt, ClientInv, Waiting
  <2>2. Len(delivered'[c]) = Len(sent[c])
    BY <1>4, <1>6, <2>1
  <2> QED
    BY <1>2, <1>4, <2>2 DEF Waiting
<1>8. Once'
  BY <1>2, OnceFrame DEF PInv
<1>9. ASSUME NEW d \in Conns PROVE ClientInv(d)'
  <2>1. CASE d # c
    BY <1>2, <1>6, <2>1, ClientFrame DEF PInv
  <2>2. CASE d = c
    <3>1. /\ Len(delivered'[c]) <= Len(sent'[c]) /\ Len(sent'[c]) <= Len(delivered'[c]) + 1
      BY <1>2, <1>4, <1>7
    <3>2. wire'[c] = <<>> /\ inbox'[c] = <<>>
      BY <1>1, <1>2 DEF WritingAt
    <3>3. ClientInv(c)'
      BY <1>1, <1>2, <1>4, <1>7, <3>1, <3>2 DEF ClientInv
    <3> QED
      BY <2>2, <3>3
  <2> QED
    BY <2>1, <2>2
<1>10. \A fd \in Fds : (InQueue(fd)' <=> InQueue(fd)) /\ (Unused(fd)' <=> Unused(fd))
  BY <1>2 DEF InQueue, Unused, InWork
<1>11. ASSUME NEW fd \in Fds, fd # fd0 PROVE FdInv(fd)'
  <2>1. owner[fd] # NoConn => owner[fd] # c
    BY <1>1, <1>4, <1>11 DEF IInv, OwnerInv
  <2>2. owner[fd] # NoConn => owner[fd] \in Conns
    BY DEF IInv, Types, KernelTypes
  <2> QED
    BY <1>2, <1>3, <1>6, <1>10, <1>11, <2>1, <2>2, FdFrame DEF PInv
<1>12. FdInv(fd0)'
  <2>1. IdleAt(fd0, c)'
    BY <1>1, <1>2, <1>3, <1>7, <1>10 DEF IdleAt, WritingAt, EmptyRequest
  <2> QED
    BY <1>1, <1>2, <1>4, <2>1 DEF FdInv
<1> QED
  BY <1>8, <1>9, <1>11, <1>12 DEF PInv

LEMMA WriteSomeStep ==
  ASSUME IInv, PInv, NEW c \in Conns, WriteSome(c)
  PROVE  PInv'
<1> USE DEF clientVars, kernelVars, epollVars, poolVars
<1>1. PICK fd0 \in Fds : fd0 = main.fd /\ owner[fd0] = c /\ WritingAt(fd0, c) /\ ~fin[c]
  BY WriteFacts DEF WriteSome
<1>2. PICK k \in 1..Remaining(request[fd0]) - 1 :
        request' = [request EXCEPT ![fd0].pos = @ + k]
  BY <1>1 DEF WriteSome
<1>3. /\ UNCHANGED <<clientVars, wire, conn, inbox, fin, epollVars, poolVars>>
      /\ main'.fd \notin Fds /\ c # NoConn
  BY ConnsAssumption DEF WriteSome, Polling, Event
<1>4. request \in [Fds -> Requests]
  BY DEF IInv, Types, ProgramTypes
<1>5. /\ request'[fd0].response = request[fd0].response
      /\ request'[fd0].pos = request[fd0].pos + k
      /\ \A fd \in Fds : fd # fd0 => request'[fd] = request[fd]
  BY <1>2, <1>4 DEF Requests
<1>6. request'[fd0].pos < ResponseLen
  <2>1. request[fd0].pos \in Nat /\ Len(request[fd0].response) = 1
    BY <1>1, <1>4 DEF Requests, WritingAt
  <2>2. k \in 1..2 - request[fd0].pos - 1
    BY <2>1 DEF Remaining, ResponseLen
  <2> QED
    BY <1>5, <2>1, <2>2 DEF ResponseLen
<1>7. Once' /\ \A d \in Conns : ClientInv(d)'
  BY <1>3, OnceFrame, ClientFrame DEF PInv
<1>8. \A fd \in Fds : (InQueue(fd)' <=> InQueue(fd)) /\ (Unused(fd)' <=> Unused(fd))
  BY <1>3 DEF InQueue, Unused, InWork
<1>9. ASSUME NEW fd \in Fds, fd # fd0 PROVE FdInv(fd)'
  BY <1>3, <1>5, <1>8, <1>9, FdFrame DEF PInv
<1>10. FdInv(fd0)'
  <2>1. (Waiting(c)' <=> Waiting(c)) /\ Due(c)' = Due(c)
    BY <1>3 DEF Waiting, Due, LastKind
  <2>2. WritingAt(fd0, c)'
    BY <1>1, <1>3, <1>5, <1>6, <1>8, <2>1 DEF WritingAt
  <2> QED
    BY <1>1, <1>3, <2>2 DEF FdInv
<1> QED
  BY <1>7, <1>9, <1>10 DEF PInv

-----------------------------------------------------------------------------
(* The steps of the workers. *)

LEMMA WorkFacts ==
  ASSUME IInv, PInv, NEW w \in Workers, at[w] # "idle"
  PROVE  \E fd \in Fds, c \in Conns :
           /\ fd = running[w] /\ InWork(fd) /\ ~InQueue(fd)
           /\ c = owner[fd] /\ c # NoConn /\ ServedAt(fd, c)
           /\ \A v \in Workers : running[v] = fd => v = w
<1>1. PICK fd \in Fds : fd = running[w]
  BY DEF IInv, WorkerInv, Types, ProgramTypes
<1>2. InWork(fd)
  BY <1>1 DEF InWork
<1>3. owner[fd] \in Conns /\ ServedAt(fd, owner[fd])
  BY <1>2, PoolHas
<1>4. ~InQueue(fd) /\ \A v \in Workers : running[v] = fd => v = w
  BY <1>1, <1>2, ConnsAssumption DEF PInv, Once
<1> QED
  BY <1>1, <1>2, <1>3, <1>4, ConnsAssumption

LEMMA TakeStep ==
  ASSUME IInv, PInv, NEW w \in Workers, Take(w)
  PROVE  PInv'
<1> USE DEF clientVars, kernelVars, epollVars, poolVars
<1>1. /\ UNCHANGED <<clientVars, kernelVars, epollVars, main, request, seen>>
      /\ pending # <<>> /\ pending' = Tail(pending) /\ running[w] = NoFd
      /\ running' = [running EXCEPT ![w] = Head(pending)] /\ at' = [at EXCEPT ![w] = "read"]
  BY DEF Take, Queue!Pop
<1>2. /\ pending \in Seq(Fds) /\ running \in [Workers -> Fds \cup {NoFd}]
      /\ at \in [Workers -> {"idle", "read", "respond", "arm"}]
  BY DEF IInv, Types, ProgramTypes
<1>3. /\ Len(pending) \in Nat \ {0} /\ DOMAIN pending = 1..Len(pending)
      /\ Head(pending) = pending[1] /\ Head(pending) \in Fds
      /\ Len(Tail(pending)) = Len(pending) - 1 /\ DOMAIN Tail(pending) = 1..Len(pending) - 1
      /\ \A i \in 1..Len(pending) - 1 : Tail(pending)[i] = pending[i + 1]
  BY <1>1, <1>2, LenProperties, EmptySeq, HeadTailProperties
<1>4. PICK fd0 \in Fds : fd0 = Head(pending)
  BY <1>3
<1>5. InQueue(fd0) /\ ~InWork(fd0)
  <2>1. InQueue(fd0)
    BY <1>3, <1>4 DEF InQueue
  <2> QED
    BY <2>1 DEF PInv, Once
<1>6. PICK c \in Conns : c = owner[fd0] /\ ServedAt(fd0, c) /\ c # NoConn
  BY <1>5, PoolHas, ConnsAssumption
<1>7. ~InQueue(fd0)'
  <2>1. ASSUME NEW i \in 1..Len(pending) - 1 PROVE Tail(pending)[i] # fd0
    <3>1. i + 1 \in DOMAIN pending /\ 1 \in DOMAIN pending /\ i + 1 # 1
      BY <1>3
    <3>2. pending[i + 1] # pending[1]
      BY <3>1 DEF PInv, Once
    <3> QED
      BY <1>3, <1>4, <3>2
  <2> QED
    BY <1>1, <1>3, <2>1 DEF InQueue
<1>8. \A fd \in Fds : fd # fd0 => (InQueue(fd)' <=> InQueue(fd))
  BY <1>1, <1>4, PopElements
<1>9. /\ \A v \in Workers : v # w => running'[v] = running[v] /\ at'[v] = at[v]
      /\ running'[w] = fd0 /\ at'[w] = "read"
      /\ \A v \in Workers : running[v] # fd0
  BY <1>1, <1>2, <1>4, <1>5 DEF InWork
<1>10. Once'
  <2>1. ASSUME NEW i \in DOMAIN pending', NEW j \in DOMAIN pending', pending'[i] = pending'[j]
        PROVE  i = j
    <3>1. i \in 1..Len(pending) - 1 /\ j \in 1..Len(pending) - 1
          /\ pending[i + 1] = pending[j + 1]
      BY <1>1, <1>3, <2>1
    <3>2. i + 1 \in DOMAIN pending /\ j + 1 \in DOMAIN pending
      BY <1>3, <3>1
    <3>3. i + 1 = j + 1
      BY <3>1, <3>2 DEF PInv, Once
    <3> QED
      BY <3>1, <3>3
  <2>2. ASSUME NEW u \in Workers, NEW v \in Workers, running'[u] = running'[v], running'[u] # NoFd
        PROVE  u = v
    BY <1>9, <2>2 DEF PInv, Once
  <2>3. ASSUME NEW fd \in Fds PROVE ~(InQueue(fd)' /\ InWork(fd)')
    <3>1. CASE fd = fd0
      BY <1>7, <3>1
    <3>2. CASE fd # fd0
      <4>1. InWork(fd)' => InWork(fd)
        BY <1>9, <3>2 DEF InWork
      <4> QED
        BY <1>8, <3>2, <4>1 DEF PInv, Once
    <3> QED
      BY <3>1, <3>2
  <2> QED
    BY <2>1, <2>2, <2>3 DEF Once
<1>11. \A d \in Conns : ClientInv(d)'
  BY <1>1, ClientFrame DEF PInv
<1>12. ASSUME NEW fd \in Fds, fd # fd0 PROVE FdInv(fd)'
  <2>1. \A v \in Workers : /\ running'[v] = fd <=> running[v] = fd
                           /\ running[v] = fd => at'[v] = at[v]
    BY <1>1, <1>9, <1>12, ConnsAssumption
  <2> QED
    BY <1>1, <1>8, <1>12, <2>1, FdFrame DEF PInv
<1>13. FdInv(fd0)'
  <2>1. /\ Waiting(c)' <=> Waiting(c)
        /\ Asked(c)' = Asked(c) /\ LastKind(c)' = LastKind(c)
    BY <1>1 DEF Waiting, Asked, LastKind
  <2>2. ~Unused(fd0)'
    BY <1>9 DEF Unused, InWork
  <2>3. request[fd0].response = <<>>
    BY <1>5, <1>6 DEF ServedAt
  <2>4. \A v \in Workers : running'[v] = fd0 => at'[v] = "read"
    BY <1>9
  <2>5. ServedAt(fd0, c)'
    BY <1>1, <1>6, <1>7, <2>1, <2>2, <2>3, <2>4 DEF ServedAt
  <2> QED
    BY <1>1, <1>6, <2>5 DEF FdInv
<1> QED
  BY <1>10, <1>11, <1>12, <1>13 DEF PInv

LEMMA ReadRequestStep ==
  ASSUME IInv, PInv, NEW w \in Workers, ReadRequest(w)
  PROVE  PInv'
<1> USE DEF clientVars, kernelVars, epollVars, poolVars
<1>1. PICK fd0 \in Fds, c \in Conns :
        /\ fd0 = running[w] /\ c = owner[fd0] /\ c # NoConn /\ ServedAt(fd0, c)
        /\ \A v \in Workers : running[v] = fd0 => v = w
  BY WorkFacts DEF ReadRequest
<1>2. /\ UNCHANGED <<clientVars, kernelVars, epollVars, pending, running, main, request>>
      /\ at[w] = "read" /\ at' = [at EXCEPT ![w] = "respond"]
      /\ \A v \in Workers : v # w => seen'[v] = seen[v] /\ at'[v] = at[v]
  BY DEF ReadRequest, IInv, Types, ProgramTypes
<1>3. seen'[w] = Due(c)
  <2>1. seen \in [Workers -> Responses]
    BY DEF IInv, Types, ProgramTypes
  <2>2. /\ request[fd0].payload = Asked(c) /\ request[fd0].err = ~LastKind(c).ok
        /\ Asked(c) # <<>> /\ Asked(c)[1] = Unit(c, Len(sent[c]), LastKind(c), 1)
    BY <1>1, AskedFacts DEF ServedAt, Parsed
  <2>3. /\ request[fd0].payload[1].conn = c /\ request[fd0].payload[1].n = Len(sent[c])
    BY <2>2 DEF Unit
  <2>4. seen' = [seen EXCEPT ![w] =
                   IF request[fd0].payload = <<>> THEN NoResponse
                   ELSE Response(request[fd0].payload[1].conn, request[fd0].payload[1].n,
                                 request[fd0].err)]
    BY <1>1 DEF ReadRequest
  <2>5. seen'[w] = Response(c, Len(sent[c]), ~LastKind(c).ok)
    BY <2>1, <2>2, <2>3, <2>4
  <2> QED
    BY <2>5 DEF Due
<1>4. Once' /\ \A d \in Conns : ClientInv(d)'
  BY <1>2, OnceFrame, ClientFrame DEF PInv
<1>5. \A fd \in Fds : (InQueue(fd)' <=> InQueue(fd)) /\ (Unused(fd)' <=> Unused(fd))
  BY <1>2 DEF InQueue, Unused, InWork
<1>6. ASSUME NEW fd \in Fds, fd # fd0 PROVE FdInv(fd)'
  <2>1. \A v \in Workers : running[v] = fd => at'[v] = at[v] /\ seen'[v] = seen[v]
    BY <1>1, <1>2, <1>6
  <2> QED
    BY <1>2, <1>5, <2>1, FdFrame DEF PInv
<1>7. FdInv(fd0)'
  <2>1. /\ (Waiting(c)' <=> Waiting(c)) /\ Due(c)' = Due(c)
        /\ Asked(c)' = Asked(c) /\ LastKind(c)' = LastKind(c)
    BY <1>2 DEF Waiting, Asked, LastKind, Due
  <2>2. at'[w] = "respond" /\ request[fd0].response = <<>>
    BY <1>1, <1>2 DEF ServedAt, IInv, Types, ProgramTypes
  <2>3. \A v \in Workers : running'[v] = fd0 => v = w
    BY <1>1, <1>2
  <2>4. ServedAt(fd0, c)'
    BY <1>1, <1>2, <1>3, <1>5, <2>1, <2>2, <2>3 DEF ServedAt
  <2> QED
    BY <1>1, <1>2, <2>4 DEF FdInv
<1> QED
  BY <1>4, <1>6, <1>7 DEF PInv

LEMMA RespondStep ==
  ASSUME IInv, PInv, NEW w \in Workers, Respond(w)
  PROVE  PInv'
<1> USE DEF clientVars, kernelVars, epollVars, poolVars
<1>1. PICK fd0 \in Fds, c \in Conns :
        /\ fd0 = running[w] /\ ~InQueue(fd0)
        /\ c = owner[fd0] /\ c # NoConn /\ ServedAt(fd0, c)
        /\ \A v \in Workers : running[v] = fd0 => v = w
  BY WorkFacts DEF Respond
<1>2. /\ UNCHANGED <<clientVars, kernelVars, epollVars, pending, running, main, seen>>
      /\ at[w] = "respond" /\ at' = [at EXCEPT ![w] = "arm"]
      /\ \A v \in Workers : v # w => at'[v] = at[v]
  BY DEF Respond, IInv, Types, ProgramTypes
<1>3. seen[w] = Due(c) /\ request[fd0].response = <<>>
  BY <1>1, <1>2 DEF ServedAt
<1>4. /\ \A fd \in Fds : fd # fd0 => request'[fd] = request[fd]
      /\ request'[fd0].payload = request[fd0].payload /\ request'[fd0].pos = request[fd0].pos
      /\ Parsed(request[fd0], LastKind(c)) => Parsed(request'[fd0], LastKind(c))
      /\ request'[fd0].response = <<Due(c)>>
  <2>1. request \in [Fds -> Requests]
    BY DEF IInv, Types, ProgramTypes
  <2>2. request' = [request EXCEPT ![fd0].response = Append(@, seen[w])]
    BY <1>1 DEF Respond
  <2>3. Append(<<>>, Due(c)) = <<Due(c)>>
    OBVIOUS
  <2> QED
    BY <1>3, <2>1, <2>2, <2>3 DEF Requests, Parsed
<1>5. Once' /\ \A d \in Conns : ClientInv(d)'
  BY <1>2, OnceFrame, ClientFrame DEF PInv
<1>6. \A fd \in Fds : (InQueue(fd)' <=> InQueue(fd)) /\ (Unused(fd)' <=> Unused(fd))
  BY <1>2 DEF InQueue, Unused, InWork
<1>7. ASSUME NEW fd \in Fds, fd # fd0 PROVE FdInv(fd)'
  <2>1. \A v \in Workers : running[v] = fd => at'[v] = at[v]
    BY <1>1, <1>2, <1>7
  <2> QED
    BY <1>2, <1>4, <1>6, <1>7, <2>1, FdFrame DEF PInv
<1>8. FdInv(fd0)'
  <2>1. /\ (Waiting(c)' <=> Waiting(c)) /\ Due(c)' = Due(c)
        /\ Asked(c)' = Asked(c) /\ LastKind(c)' = LastKind(c)
    BY <1>2 DEF Waiting, Asked, LastKind, Due
  <2>2. at'[w] = "arm"
    BY <1>2 DEF IInv, Types, ProgramTypes
  <2>3. \A v \in Workers : running'[v] = fd0 => v = w
    BY <1>1, <1>2
  <2>4. ServedAt(fd0, c)'
    BY <1>1, <1>2, <1>3, <1>4, <1>6, <2>1, <2>2, <2>3 DEF ServedAt
  <2> QED
    BY <1>1, <1>2, <2>4 DEF FdInv
<1> QED
  BY <1>5, <1>7, <1>8 DEF PInv

LEMMA ArmStep ==
  ASSUME IInv, PInv, NEW w \in Workers, Arm(w)
  PROVE  PInv'
<1> USE DEF clientVars, kernelVars, epollVars, poolVars
<1>1. PICK fd0 \in Fds, c \in Conns :
        /\ fd0 = running[w] /\ ~InQueue(fd0)
        /\ c = owner[fd0] /\ c # NoConn /\ ServedAt(fd0, c)
        /\ \A v \in Workers : running[v] = fd0 => v = w
  BY WorkFacts DEF Arm
<1>2. /\ UNCHANGED <<clientVars, kernelVars, owner, pending, main, request>>
      /\ at[w] = "arm" /\ running' = [running EXCEPT ![w] = NoFd]
      /\ interest' = [interest EXCEPT ![fd0] = "out"]
      /\ \A v \in Workers : v # w => at'[v] = at[v] /\ seen'[v] = seen[v]
  BY <1>1 DEF Arm, Queue!Release, Modify, IInv, Types, ProgramTypes
<1>3. /\ running \in [Workers -> Fds \cup {NoFd}] /\ interest \in [Fds -> {"in", "out", "none"}]
  BY DEF IInv, Types, KernelTypes, ProgramTypes
<1>4. /\ \A v \in Workers : v # w => running'[v] = running[v]
      /\ running'[w] = NoFd /\ NoFd \notin Fds
  BY <1>2, <1>3, ConnsAssumption
<1>5. \A fd \in Fds : (InQueue(fd)' <=> InQueue(fd)) /\ (InWork(fd)' => InWork(fd))
  BY <1>2, <1>4 DEF InQueue, InWork
<1>6. Once'
  <2>1. ASSUME NEW u \in Workers, NEW v \in Workers, running'[u] = running'[v], running'[u] # NoFd
        PROVE  u = v
    BY <1>4, <2>1 DEF PInv, Once
  <2> QED
    BY <1>2, <1>5, <2>1 DEF PInv, Once
<1>7. \A d \in Conns : ClientInv(d)'
  BY <1>2, ClientFrame DEF PInv
<1>8. ASSUME NEW fd \in Fds, fd # fd0 PROVE FdInv(fd)'
  <2>1. \A v \in Workers : /\ running'[v] = fd <=> running[v] = fd
                           /\ running[v] = fd => at'[v] = at[v] /\ seen'[v] = seen[v]
    BY <1>1, <1>2, <1>4, <1>8
  <2> QED
    BY <1>2, <1>3, <1>5, <1>8, <2>1, FdFrame DEF PInv
<1>9. FdInv(fd0)'
  <2>1. (Waiting(c)' <=> Waiting(c)) /\ Due(c)' = Due(c)
    BY <1>2 DEF Waiting, LastKind, Due
  <2>2. Unused(fd0)'
    BY <1>1, <1>4, <1>5 DEF Unused, InWork
  <2>3. request[fd0].response = <<Due(c)>>
    BY <1>1, <1>2 DEF ServedAt
  <2>4. request[fd0].pos < ResponseLen
    BY <1>1 DEF ServedAt, ResponseLen
  <2>5. WritingAt(fd0, c)'
    BY <1>1, <1>2, <1>3, <2>1, <2>2, <2>3, <2>4 DEF ServedAt, WritingAt
  <2> QED
    BY <1>1, <1>2, <2>5 DEF FdInv
<1> QED
  BY <1>6, <1>7, <1>8, <1>9 DEF PInv

-----------------------------------------------------------------------------
(* With clients that wait for their answers. *)

LEMMA PoliteInit == Init => PInv
<1> SUFFICES ASSUME Init PROVE PInv
  OBVIOUS
<1>1. \A fd \in Fds : ~InQueue(fd) /\ ~InWork(fd)
  BY ConnsAssumption DEF Init, InQueue, InWork
<1>2. Once
  BY <1>1 DEF Init, Once
<1>3. ASSUME NEW c \in Conns PROVE ClientInv(c)
  <2>1. sent[c] = <<>> /\ delivered[c] = <<>> /\ Len(<<>>) = 0
    BY DEF Init
  <2> QED
    BY <2>1 DEF Init, ClientInv, Waiting
<1>4. \A fd \in Fds : FdInv(fd)
  BY <1>1 DEF Init, FdInv, Unused
<1> QED
  BY <1>2, <1>3, <1>4 DEF PInv

LEMMA PoliteStep == ASSUME Polite PROVE IInv /\ PInv /\ [Next]_vars => PInv'
<1> SUFFICES ASSUME IInv, PInv, [Next]_vars PROVE PInv'
  OBVIOUS
<1>1. CASE Next
  BY <1>1, QuietStep, SendStep, DeliverStep, HangupStep, WaitStep, AcceptStep, CloseStep,
     ReadStep, ReadNothingStep, WriteAllStep, WriteSomeStep, TakeStep, ReadRequestStep,
     RespondStep, ArmStep, WriteFacts
     DEF Next, Client, Network, MainStep, Worker, WriteFailed
<1>2. CASE UNCHANGED vars
  <2> USE <1>2 DEF vars, clientVars, kernelVars, epollVars, poolVars
  <2>1. Once' /\ \A d \in Conns : ClientInv(d)'
    BY OnceFrame, ClientFrame DEF PInv
  <2>2. ASSUME NEW fd \in Fds PROVE FdInv(fd)'
    <3>1. InQueue(fd)' <=> InQueue(fd)
      BY DEF InQueue
    <3> QED
      BY <3>1, FdFrame DEF PInv
  <2> QED
    BY <2>1, <2>2 DEF PInv
<1> QED
  BY <1>1, <1>2

LEMMA PoliteInvariance == ASSUME Polite PROVE Spec => [](IInv /\ PInv)
<1>1. IInv /\ PInv /\ [Next]_vars => PInv'
  BY PoliteStep
<1> QED
  BY <1>1, Invariance, PoliteInit, PTL DEF Spec

\* The main thread and the workers share request objects without a lock; if
\* the clients wait for their answers, an object is queued or served at most
\* once, and while it is, the event in the main thread's hands is not its own.
THEOREM ObjectsAreExclusive == ASSUME Polite PROVE Spec => []ExclusiveObject
<1>1. ASSUME IInv, PInv, NEW fd \in Fds
      PROVE  /\ Cardinality(Queued(fd)) + Cardinality(Served(fd)) <= 1
             /\ Cardinality(Queued(fd)) + Cardinality(Served(fd)) = 1 => main.fd # fd
  <2>1. Queued(fd) = {} \/ \E i : Queued(fd) = {i}
    <3>1. ASSUME NEW i \in Queued(fd) PROVE Queued(fd) = {i}
      BY <1>1, <3>1 DEF PInv, Once, Queued
    <3> QED
      BY <3>1
  <2>2. Served(fd) = {} \/ \E w : Served(fd) = {w}
    <3>1. ASSUME NEW w \in Served(fd) PROVE Served(fd) = {w}
      BY <1>1, <3>1, ConnsAssumption DEF PInv, Once, Served
    <3> QED
      BY <3>1
  <2>3. Queued(fd) = {} \/ Served(fd) = {}
    BY <1>1, WithPool DEF PInv, Once
  <2>4. Queued(fd) # {} \/ Served(fd) # {} => main.fd # fd
    BY <1>1, WithPool, PoolHas DEF ServedAt
  <2>5. Cardinality({}) = 0 /\ \A x : Cardinality({x}) = 1
    BY FS_EmptySet, FS_Singleton
  <2>6. /\ Cardinality(Queued(fd)) = 0 \/ Cardinality(Queued(fd)) = 1
        /\ Cardinality(Served(fd)) = 0 \/ Cardinality(Served(fd)) = 1
        /\ Cardinality(Queued(fd)) = 0 \/ Cardinality(Served(fd)) = 0
    BY <2>1, <2>2, <2>3, <2>5
  <2>7. CASE Queued(fd) = {} /\ Served(fd) = {}
    BY <2>5, <2>7
  <2>8. CASE Queued(fd) # {} \/ Served(fd) # {}
    BY <2>4, <2>6, <2>8
  <2> QED
    BY <2>7, <2>8
<1>2. IInv /\ PInv => ExclusiveObject
  BY <1>1 DEF ExclusiveObject
<1> QED
  BY <1>2, PoliteInvariance, PTL

\* "request ready, set epoll fd for output" (main.cpp:118) is true of clients
\* that wait: the descriptor a worker arms is of the connection it has served.
THEOREM WorkersArmTheirOwn == ASSUME Polite PROVE Spec => ArmsItsConnection
<1>1. IInv /\ PInv =>
        \A w \in Workers :
          Arm(w) /\ owner[running[w]] # NoConn => owner[running[w]] = seen[w].conn
  <2> SUFFICES ASSUME IInv, PInv, NEW w \in Workers, Arm(w)
               PROVE  owner[running[w]] = seen[w].conn
    OBVIOUS
  <2>1. PICK fd \in Fds, c \in Conns :
          fd = running[w] /\ c = owner[fd] /\ ServedAt(fd, c)
    BY WorkFacts DEF Arm
  <2>2. seen[w] = Due(c)
    BY <2>1 DEF ServedAt, Arm
  <2> QED
    BY <2>1, <2>2 DEF Due, Response
<1> QED
  BY <1>1, PoliteInvariance, PTL DEF ArmsItsConnection

-----------------------------------------------------------------------------
(* The refinement of HttpService. *)

LEMMA ServiceStep ==
  ASSUME IInv, PInv, [Next]_vars
  PROVE  [Service!Next]_(Service!vars)
<1> USE DEF clientVars, kernelVars, epollVars, poolVars
<1>1. ASSUME NEW c \in Conns, SendRequest(c) PROVE Service!Next
  <2>1. PICK k \in Kinds : sent' = [sent EXCEPT ![c] = Append(@, k)]
    BY <1>1 DEF SendRequest
  <2>2. Len(sent[c]) = Len(delivered[c])
    <3>1. Len(delivered[c]) <= Len(sent[c]) /\ Len(delivered[c]) >= Len(sent[c])
          /\ Len(sent[c]) \in Nat /\ Len(delivered[c]) \in Nat
      BY <1>1, ClientFacts DEF SendRequest, Answered, ClientInv
    <3> QED
      BY <3>1
  <2>3. Service!Ask(c, k)
    BY <1>1, <2>1, <2>2 DEF SendRequest, Service!Ask
  <2> QED
    BY <2>3 DEF Service!Next
<1>2. ASSUME NEW c \in Conns, WriteAll(c) PROVE Service!Next
  <2>1. PICK fd \in Fds : fd = main.fd /\ owner[fd] = c /\ WritingAt(fd, c)
    BY <1>2, WriteFacts DEF WriteAll
  <2>2. /\ Waiting(c) /\ ClientInv(c) /\ Len(sent[c]) \in Nat /\ Len(delivered[c]) \in Nat
        /\ delivered[c] \in Seq(Responses)
    BY <2>1, ClientFacts DEF WritingAt, IInv, Types, ClientTypes
  <2>3. Len(sent[c]) = Len(delivered[c]) + 1
    <3>1. Len(delivered[c]) < Len(sent[c]) /\ Len(sent[c]) <= Len(delivered[c]) + 1
      BY <2>2 DEF Waiting, ClientInv
    <3> QED
      BY <2>2, <3>1
  <2>4. delivered' = [delivered EXCEPT ![c] = @ \o <<Due(c)>>] /\ sent' = sent
    BY <1>2, <2>1 DEF WriteAll, WritingAt
  <2>5. delivered[c] \o <<Due(c)>> = Append(delivered[c], Due(c))
    <3>1. Due(c) \in Responses
      BY <2>2, AskedFacts, ConnsAssumption, KindsAssumption DEF Due, Response, Responses
    <3> QED
      BY <2>2, <3>1, AppendIsConcat
  <2>6. Due(c) = Service!Response(c, Len(sent[c]))
    BY DEF Due, Response, LastKind, Service!Response
  <2>7. Service!Answer(c)
    <3>1. Len(delivered[c]) + 1 <= Len(sent[c])
      BY <2>2, <2>3
    <3>2. delivered' = [delivered EXCEPT
                          ![c] = Append(@, Service!Response(c, Len(delivered[c]) + 1))]
      BY <2>3, <2>4, <2>5, <2>6
    <3> QED
      BY <2>4, <3>1, <3>2 DEF Service!Answer
  <2> QED
    BY <2>7 DEF Service!Next
<1>3. CASE ~\E c \in Conns : SendRequest(c) \/ WriteAll(c)
  <2>1. UNCHANGED <<sent, delivered>>
    BY <1>3
       DEF Next, Client, Network, MainStep, Worker, vars, Connect, Deliver, Hangup, Drain,
           Wait, Accept, CloseConnection, ReadPacket, ReadBlocked, ReadFailed, WriteSome,
           WriteFailed, Take, ReadRequest, Respond, Arm
  <2> QED
    BY <2>1 DEF Service!vars
<1> QED
  BY <1>1, <1>2, <1>3

\* To clients that wait, the server is HttpService: every response it delivers
\* is the next one due on its connection, whatever is cut, delayed, closed,
\* accepted and reused meanwhile, for any number of descriptors and workers.
THEOREM ServerImplementsService == ASSUME Polite PROVE Spec => ImplementsHttpService
<1>1. Init => Service!Init
  BY DEF Init, Service!Init
<1>2. IInv /\ PInv /\ [Next]_vars => [Service!Next]_(Service!vars)
  BY ServiceStep
<1> QED
  BY <1>1, <1>2, PoliteInvariance, PTL DEF Spec, ImplementsHttpService, Service!Spec
=============================================================================
