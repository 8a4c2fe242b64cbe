---------------------------- MODULE EpollServer ----------------------------
(***************************************************************************)
(* The epoll loop of main.cpp with its connections, its map of request     *)
(* objects and the workers that process them.                              *)
(*                                                                         *)
(* The main thread accepts connections, reads bytes into the request       *)
(* object of the descriptor, queues the descriptor when read_request()     *)
(* says so, and sends the response when a worker has armed EPOLLOUT.       *)
(* The map `buffers` is keyed by descriptor and never erased from, so the  *)
(* object a worker holds a reference to is named by the descriptor too:    *)
(* when a descriptor is closed and accept4 returns its number again, the   *)
(* new connection gets the same object.                                    *)
(*                                                                         *)
(* The queue between the two is TaskQueue, which WorkerPool implements.    *)
(* The kernel's side (receive buffers, FIN, ready list) is modelled from   *)
(* the epoll and socket calls the code makes.                              *)
(***************************************************************************)
EXTENDS Integers, Sequences, FiniteSets

CONSTANTS
  Conns,       \* client connections, each opened at most once
  Fds,         \* the numbers accept4 may return
  Workers,     \* the threads of the pool
  NoConn, NoFd,
  Kinds,       \* what a client may ask: [method, body, ok] records
  HeadLen,     \* units of a request head; > 1: it may arrive in pieces
  MaxRequests, \* bound: requests a client sends on its connection
  ReadSize,    \* units one read() returns at most (the 8192 byte buffer)
  MayAbandon   \* a client may leave with a request unanswered

ASSUME ConnsAssumption == NoConn \notin Conns /\ NoFd \notin Fds
ASSUME KindsAssumption ==
  Kinds \subseteq [method : {"GET", "POST"}, body : Nat, ok : BOOLEAN]
ASSUME LengthsAssumption ==
  HeadLen \in Nat \ {0} /\ ReadSize \in Nat \ {0} /\ MaxRequests \in Nat
ASSUME ClientAssumption == MayAbandon \in BOOLEAN

VARIABLES
  \* clients and network
  sent,        \* sent[c]: the kinds of the requests the client has sent
  wire,        \* wire[c]: units sent and not yet in the server's kernel
  delivered,   \* delivered[c]: responses the client has received in full
  \* server kernel
  conn,        \* conn[c]: "new", "backlog", "open" or "closed"
  inbox,       \* inbox[c]: units received and not yet read
  fin,         \* fin[c]: the peer has shut the connection down
  full,        \* full[c]: send() would return EAGAIN
  owner,       \* owner[fd]: the open connection behind fd, or NoConn
  interest,    \* interest[fd]: "in" or "out", besides EPOLLRDHUP; or "none"
  ready,       \* epoll's ready list, as a set
  \* the program
  main,        \* the event the main thread is handling
  request,     \* request[fd]: the http::request object stored under fd
  pending,     \* m_queue
  running,     \* running[w]: the descriptor in the params of worker w
  at,          \* at[w]: where worker w is in http_server
  seen,        \* seen[w]: what worker w has read of its request
  connections, \* mse::g_connections
  active       \* mse::g_active_threads

clientVars == <<sent, delivered>>
kernelVars == <<wire, conn, inbox, fin, full>>
epollVars == <<owner, interest, ready>>
poolVars == <<pending, running, at, seen, active>>
vars == <<clientVars, kernelVars, epollVars, poolVars,
          main, request, connections>>

Queue == INSTANCE TaskQueue WITH
  Tasks <- Fds, NoTask <- NoFd, closed <- FALSE, retired <- {}

-----------------------------------------------------------------------------
(* Requests and responses.  A request is a sequence of units, HeadLen for   *)
(* its head and the rest for its body; a unit says where it belongs.        *)

Unit(c, n, k, i) == [conn |-> c, n |-> n, kind |-> k, i |-> i]
Message(c, n, k) == [i \in 1..HeadLen + k.body |-> Unit(c, n, k, i)]

\* A response names the request it answers; NoConn: a cleared request.
Response(c, n, bad) == [conn |-> c, n |-> n, bad |-> bad]
NoResponse == Response(NoConn, 0, FALSE)
ResponseLen == 2

\* request::request() and request::clear().
EmptyRequest ==
  [payload |-> <<>>, method |-> "", bodyStart |-> 0, contentLength |-> 0,
   err |-> FALSE, response |-> <<>>, pos |-> 0]

\* Mutant: clear() leaves the response buffer and its position alone.
ClearKeepsResponse(r) ==
  [EmptyRequest EXCEPT !.response = r.response, !.pos = r.pos]

Clear(r) == EmptyRequest

\* request::parse(), run once, on the bytes of the first packet: without the
\* blank line that ends the head, or with something else in front, it is a
\* bad request.  A head with a bad header field (~ok) is one too, but by then
\* its length fields have been read.
Parse(r) ==
  LET first == r.payload[1] IN
  IF first.i = 1 /\ Len(r.payload) >= HeadLen
    THEN [r EXCEPT !.method = first.kind.method,
                   !.bodyStart = HeadLen,
                   !.contentLength = first.kind.body,
                   !.err = ~first.kind.ok]
    ELSE [r EXCEPT !.err = TRUE]

\* Mutant: the comparison with contentLength is not an equality.
EofEarly(r) == Len(r.payload) - r.bodyStart <= r.contentLength

\* request::eof()
Eof(r) == Len(r.payload) - r.bodyStart = r.contentLength

\* read_request(): the object after a packet, and whether it is complete.
Received(r, packet) ==
  LET appended == [r EXCEPT !.payload = @ \o packet]
  IN  IF r.payload = <<>> THEN Parse(appended) ELSE appended

\* Mutant: only the first packet can complete a request.
CompleteOnFirst(r, packet) ==
  r.payload = <<>> /\ LET after == Received(r, packet)
                      IN  after.method = "GET" \/ after.err \/ Eof(after)

Complete(r, packet) ==
  LET after == Received(r, packet)
  IN  \/ r.payload = <<>> /\ (after.method = "GET" \/ after.err)
      \/ Eof(after)

-----------------------------------------------------------------------------
\* The event the main thread handles; in epoll_wait it has none.
Event(fd, hup, in, out) == [fd |-> fd, hup |-> hup, in |-> in, out |-> out]
Polling == Event(NoFd, FALSE, FALSE, FALSE)

Init ==
  /\ sent = [c \in Conns |-> <<>>]
  /\ wire = [c \in Conns |-> <<>>]
  /\ delivered = [c \in Conns |-> <<>>]
  /\ conn = [c \in Conns |-> "new"]
  /\ inbox = [c \in Conns |-> <<>>]
  /\ fin = [c \in Conns |-> FALSE]
  /\ full = [c \in Conns |-> FALSE]
  /\ owner = [fd \in Fds |-> NoConn]
  /\ interest = [fd \in Fds |-> "none"]
  /\ ready = {}
  /\ main = Polling
  /\ request = [fd \in Fds |-> EmptyRequest]
  /\ pending = <<>>
  /\ running = [w \in Workers |-> NoFd]
  /\ at = [w \in Workers |-> "idle"]
  /\ seen = [w \in Workers |-> NoResponse]
  /\ connections = 0
  /\ active = 0

\* The descriptors a wake-up of connection c concerns.
FdOf(c) == {fd \in Fds : owner[fd] = c}

\* What epoll would report for fd if its interest were i.
Readable(fd) == inbox[owner[fd]] # <<>> \/ fin[owner[fd]]
Writable(fd) == ~full[owner[fd]]
Level(fd, i) ==
  \/ fin[owner[fd]]
  \/ i = "in" /\ Readable(fd)
  \/ i = "out" /\ Writable(fd)

\* Mutant: the descriptor is not polled when its interest changes.
ModifyQuietly(fd, i) ==
  /\ interest' = [interest EXCEPT ![fd] = i]
  /\ UNCHANGED ready

\* EPOLL_CTL_MOD: set the interest and poll the descriptor once.
Modify(fd, i) ==
  /\ interest' = [interest EXCEPT ![fd] = i]
  /\ ready' = IF Level(fd, i) THEN ready \cup {fd} ELSE ready

-----------------------------------------------------------------------------
(* Clients and network. *)

Connect(c) ==
  /\ conn[c] = "new"
  /\ conn' = [conn EXCEPT ![c] = "backlog"]
  /\ UNCHANGED <<clientVars, wire, inbox, fin, full, epollVars, poolVars,
                 main, request, connections>>

Answered(c) == Len(delivered[c]) >= Len(sent[c])

SendRequest(c) ==
  /\ conn[c] # "new"
  /\ ~fin[c]
  /\ Len(sent[c]) < MaxRequests
  /\ Answered(c)
  /\ \E k \in Kinds :
       /\ sent' = [sent EXCEPT ![c] = Append(@, k)]
       /\ wire' = [wire EXCEPT ![c] = @ \o Message(c, Len(sent[c]) + 1, k)]
  /\ UNCHANGED <<delivered, conn, inbox, fin, full, epollVars, poolVars,
                 main, request, connections>>

\* A packet of one or more units arrives.
Deliver(c) ==
  /\ wire[c] # <<>>
  /\ \E k \in 1..Len(wire[c]) :
       /\ inbox' = [inbox EXCEPT ![c] = @ \o SubSeq(wire[c], 1, k)]
       /\ wire' = [wire EXCEPT ![c] = SubSeq(@, k + 1, Len(@))]
  /\ ready' = ready \cup {fd \in FdOf(c) : interest[fd] = "in"}
  /\ UNCHANGED <<clientVars, conn, fin, full, owner, interest, poolVars,
                 main, request, connections>>

\* The client closes, or its host resets the connection: what was still on
\* its way is lost.
Hangup(c) ==
  /\ conn[c] # "new"
  /\ ~fin[c]
  /\ MayAbandon \/ Answered(c)
  /\ fin' = [fin EXCEPT ![c] = TRUE]
  /\ wire' = [wire EXCEPT ![c] = <<>>]
  /\ ready' = ready \cup FdOf(c)
  /\ UNCHANGED <<clientVars, conn, inbox, full, owner, interest, poolVars,
                 main, request, connections>>

\* The client reads, which makes room in the send buffer.
Drain(c) ==
  /\ full[c]
  /\ full' = [full EXCEPT ![c] = FALSE]
  /\ ready' = ready \cup {fd \in FdOf(c) : interest[fd] = "out"}
  /\ UNCHANGED <<clientVars, wire, conn, inbox, fin, owner, interest,
                 poolVars, main, request, connections>>

-----------------------------------------------------------------------------
(* The main thread: start_epoll(). *)

\* epoll_wait returns an event for fd; its mask is fixed from here on.
Wait(fd) ==
  /\ main = Polling
  /\ fd \in ready
  /\ ready' = ready \ {fd}
  /\ main' = IF Level(fd, interest[fd])
               THEN Event(fd, fin[owner[fd]],
                          interest[fd] = "in" /\ Readable(fd),
                          interest[fd] = "out" /\ Writable(fd))
               ELSE main
  /\ UNCHANGED <<clientVars, kernelVars, owner, interest, poolVars,
                 request, connections>>

\* Mutant: connections are counted, and never discounted.
CountUp(n) == connections' = connections + 1

\* mse::update_connections()
UpdateConnections(n) == connections' = connections + n

\* Mutant: the object a former connection left under fd is kept.
RegisterKeepsRequest(c, fd) ==
  /\ interest' = [interest EXCEPT ![fd] = "in"]
  /\ ready' = IF fin[c] \/ inbox[c] # <<>> THEN ready \cup {fd} ELSE ready
  /\ UNCHANGED request

\* Mutant: what had arrived before EPOLL_CTL_ADD is not reported.
RegisterQuietly(c, fd) ==
  /\ request' = [request EXCEPT ![fd] = EmptyRequest]
  /\ interest' = [interest EXCEPT ![fd] = "in"]
  /\ UNCHANGED ready

\* insert_or_assign a new request object; EPOLL_CTL_ADD polls the descriptor.
Register(c, fd) ==
  /\ request' = [request EXCEPT ![fd] = EmptyRequest]
  /\ interest' = [interest EXCEPT ![fd] = "in"]
  /\ ready' = IF fin[c] \/ inbox[c] # <<>> THEN ready \cup {fd} ELSE ready

\* accept4 returns a number that is free; when there is none it fails and the
\* connection stays queued.
Accept(c, fd) ==
  /\ main = Polling
  /\ conn[c] = "backlog"
  /\ owner[fd] = NoConn
  /\ conn' = [conn EXCEPT ![c] = "open"]
  /\ owner' = [owner EXCEPT ![fd] = c]
  /\ Register(c, fd)
  /\ UpdateConnections(1)
  /\ UNCHANGED <<clientVars, wire, inbox, fin, full, poolVars, main>>

\* EPOLLRDHUP, EPOLLHUP or EPOLLERR, whatever else is in the mask: close(fd),
\* even if the object of fd is queued or in the hands of a worker.
CloseConnection ==
  /\ main.hup
  /\ conn' = [conn EXCEPT ![owner[main.fd]] = "closed"]
  /\ owner' = [owner EXCEPT ![main.fd] = NoConn]
  /\ interest' = [interest EXCEPT ![main.fd] = "none"]
  /\ ready' = ready \ {main.fd}
  /\ UpdateConnections(-1)
  /\ main' = Polling
  /\ UNCHANGED <<clientVars, wire, inbox, fin, full, poolVars, request>>

Reading(c) ==
  /\ main.in /\ ~main.hup
  /\ c = owner[main.fd]

\* read() returns bytes: a complete request is queued and ends the loop.
ReadPacket(c) ==
  /\ Reading(c)
  /\ inbox[c] # <<>>
  /\ LET fd == main.fd
         count == IF Len(inbox[c]) < ReadSize THEN Len(inbox[c]) ELSE ReadSize
         packet == SubSeq(inbox[c], 1, count)
     IN  /\ inbox' = [inbox EXCEPT ![c] = SubSeq(@, count + 1, Len(@))]
         /\ request' = [request EXCEPT ![fd] = Received(@, packet)]
         /\ IF Complete(request[fd], packet)
              THEN main' = Polling /\ Queue!Push(fd)
              ELSE UNCHANGED <<main, pending, running>>
  /\ UNCHANGED <<clientVars, wire, conn, fin, full, epollVars, at, seen,
                 active, connections>>

\* read() returns -1 with EAGAIN: back to epoll_wait.
ReadBlocked(c) ==
  /\ Reading(c)
  /\ inbox[c] = <<>>
  /\ ~fin[c]
  /\ main' = Polling
  /\ UNCHANGED <<clientVars, kernelVars, epollVars, poolVars, request,
                 connections>>

\* read() returns 0 or an error: the request is cleared; the descriptor is
\* closed later, by the EPOLLRDHUP event.
ReadFailed(c) ==
  /\ Reading(c)
  /\ inbox[c] = <<>>
  /\ fin[c]
  /\ request' = [request EXCEPT ![main.fd] = Clear(@)]
  /\ main' = Polling
  /\ UNCHANGED <<clientVars, kernelVars, epollVars, poolVars, connections>>

Writing(c) ==
  /\ main.out /\ ~main.in /\ ~main.hup
  /\ c = owner[main.fd]

Remaining(r) == ResponseLen * Len(r.response) - r.pos

\* response_stream::write() returned true: clear the request, wait for the
\* next one.  MOD polls the descriptor, so bytes left unread are seen now.
FinishWrite(fd) ==
  /\ request' = [request EXCEPT ![fd] = Clear(@)]
  /\ Modify(fd, "in")
  /\ main' = Polling

\* send() took everything that was left.
WriteAll(c) ==
  /\ Writing(c)
  /\ delivered' = [delivered EXCEPT ![c] = @ \o request[main.fd].response]
  /\ FinishWrite(main.fd)
  /\ UNCHANGED <<sent, kernelVars, owner, poolVars, connections>>

\* send() took a part and then returned EAGAIN: _pos1 remembers how much,
\* and the next EPOLLOUT edge, when the client has read, continues.
WriteSome(c) ==
  /\ Writing(c)
  /\ ~fin[c]
  /\ \E k \in 1..Remaining(request[main.fd]) - 1 :
       request' = [request EXCEPT ![main.fd].pos = @ + k]
  /\ full' = [full EXCEPT ![c] = TRUE]
  /\ main' = Polling
  /\ UNCHANGED <<clientVars, wire, conn, inbox, fin, epollVars, poolVars,
                 connections>>

\* send() failed because the peer is gone: logged, and treated as complete.
WriteFailed(c) ==
  /\ Writing(c)
  /\ fin[c]
  /\ FinishWrite(main.fd)
  /\ UNCHANGED <<clientVars, kernelVars, owner, poolVars, connections>>

-----------------------------------------------------------------------------
(* The workers: consumer() and mse::http_server(). *)

\* front(), pop(): the params name the descriptor and its object.
Take(w) ==
  /\ at[w] = "idle"
  /\ Queue!Pop(w)
  /\ at' = [at EXCEPT ![w] = "read"]
  /\ UNCHANGED <<clientVars, kernelVars, epollVars, main, request, seen,
                 connections, active>>

\* http_server: reads errcode, path, cookie and parameters of the request.  A
\* request cleared in the meantime has an empty path: fileservice answers it
\* with a redirect.
ReadRequest(w) ==
  /\ at[w] = "read"
  /\ LET r == request[running[w]] IN
     seen' = [seen EXCEPT ![w] =
       IF r.payload = <<>> THEN NoResponse
       ELSE Response(r.payload[1].conn, r.payload[1].n, r.err)]
  /\ active' = active + 1
  /\ at' = [at EXCEPT ![w] = "respond"]
  /\ UNCHANGED <<clientVars, kernelVars, epollVars, pending, running, main,
                 request, connections>>

\* The handler streams its response into req.response.
Respond(w) ==
  /\ at[w] = "respond"
  /\ request' = [request EXCEPT ![running[w]].response = Append(@, seen[w])]
  /\ active' = active - 1
  /\ at' = [at EXCEPT ![w] = "arm"]
  /\ UNCHANGED <<clientVars, kernelVars, epollVars, pending, running, main,
                 seen, connections>>

\* epoll_ctl(EPOLL_CTL_MOD, params.fd) with EPOLLOUT.  It fails, unchecked,
\* if the descriptor is closed; if it was closed and reused it applies to the
\* connection that has the number now.
Arm(w) ==
  /\ at[w] = "arm"
  /\ Queue!Release(w)
  /\ at' = [at EXCEPT ![w] = "idle"]
  /\ seen' = [seen EXCEPT ![w] = NoResponse]
  /\ IF owner[running[w]] = NoConn
       THEN UNCHANGED <<interest, ready>>
       ELSE Modify(running[w], "out")
  /\ UNCHANGED <<clientVars, kernelVars, owner, main, request, connections,
                 active>>

-----------------------------------------------------------------------------
Client(c) == Connect(c) \/ SendRequest(c) \/ Hangup(c)
Network(c) == Deliver(c) \/ Drain(c)

MainStep ==
  \/ \E fd \in Fds : Wait(fd)
  \/ \E c \in Conns, fd \in Fds : Accept(c, fd)
  \/ CloseConnection
  \/ \E c \in Conns :
       \/ ReadPacket(c) \/ ReadBlocked(c) \/ ReadFailed(c)
       \/ WriteAll(c) \/ WriteSome(c) \/ WriteFailed(c)

Worker(w) == Take(w) \/ ReadRequest(w) \/ Respond(w) \/ Arm(w)

Next ==
  \/ \E c \in Conns : Client(c) \/ Network(c)
  \/ MainStep
  \/ \E w \in Workers : Worker(w)

Spec == Init /\ [][Next]_vars

\* The threads of the server run and the network delivers; a client owes the
\* server nothing but to read what it is sent.
Fairness ==
  /\ \A c \in Conns : WF_vars(Network(c))
  /\ WF_vars(MainStep)
  /\ \A w \in Workers : WF_vars(Worker(w))

FairSpec == Spec /\ Fairness

-----------------------------------------------------------------------------
(* Properties. *)

\* What /ms/metrics is to report.
OpenConns == {c \in Conns : conn[c] = "open"}
Busy == {w \in Workers : at[w] = "respond"}

\* The variables keep their types; g_connections and g_active_threads, which
\* /ms/metrics reports, count the open connections and the workers in a handler.
TypeOK ==
  /\ \A c \in Conns :
       /\ sent[c] \in Seq(Kinds)
       /\ Len(delivered[c]) \in Nat
       /\ conn[c] \in {"new", "backlog", "open", "closed"}
  /\ fin \in [Conns -> BOOLEAN] /\ full \in [Conns -> BOOLEAN]
  /\ owner \in [Fds -> Conns \cup {NoConn}]
  /\ interest \in [Fds -> {"in", "out", "none"}]
  /\ ready \in SUBSET Fds
  /\ main.fd \in Fds \cup {NoFd}
  /\ pending \in Seq(Fds)
  /\ running \in [Workers -> Fds \cup {NoFd}]
  /\ at \in [Workers -> {"idle", "read", "respond", "arm"}]
  /\ connections = Cardinality(OpenConns)
  /\ active = Cardinality(Busy)

\* Where the descriptor fd is in the hands of the pool.
Queued(fd) == {i \in DOMAIN pending : pending[i] = fd}
Served(fd) == {w \in Workers : running[w] = fd}

\* The unlocked hand-off of the request object: the reference in
\* worker_params and the pointer in epoll_event name one object, and nothing
\* but the protocol (read, queue, serve, arm EPOLLOUT, write) keeps the main
\* thread and the workers from using it together.  With clients that wait for
\* their answer it does: an object is queued or served at most once, and until
\* its worker has armed EPOLLOUT the main thread does not touch it.
ExclusiveObject ==
  \A fd \in Fds :
    /\ Cardinality(Queued(fd)) + Cardinality(Served(fd)) <= 1
    /\ Cardinality(Queued(fd)) + Cardinality(Served(fd)) = 1 => main.fd # fd

\* Clients that wait for their answer get, on their own connection, exactly
\* one response to each request, in order, and 400 only for a bad request,
\* although the object that carries both is cleared and reused, and packets
\* are cut anywhere: the server implements HttpService.
Service == INSTANCE HttpService WITH asked <- sent, answered <- delivered
ImplementsHttpService == Service!Spec

\* The requests of a client that waits for its answers are all answered,
\* however its packets are cut and however little it reads at a time.
RequestsAnswered ==
  \A c \in Conns, n \in 1..MaxRequests :
    conn[c] = "open" /\ Len(sent[c]) >= n ~> Len(delivered[c]) >= n

\* Edge-triggered epoll reports an edge once, and none is lost: a descriptor
\* whose peer has left, or that has what its mode waits for (unread bytes, room
\* in the send buffer), is on the ready list or being handled; or, in input
\* mode, its request is with the pool, whose epoll_ctl will poll it again.
NoLostEdge ==
  \A fd \in Fds :
    owner[fd] # NoConn /\ Level(fd, interest[fd]) =>
      \/ fd \in ready \/ main.fd = fd
      \/ /\ interest[fd] = "in" /\ ~fin[owner[fd]]
         /\ Queued(fd) # {} \/ Served(fd) # {}

\* A request object only ever holds bytes of the connection that has its
\* descriptor now, although objects are reused with the descriptors and a
\* worker may still hold a reference to the object it was given before.
PayloadOfOwner ==
  \A fd \in Fds : owner[fd] # NoConn =>
    \A i \in DOMAIN request[fd].payload :
      request[fd].payload[i].conn = owner[fd]

\* A connection whose client has left is closed: descriptors do not leak,
\* whatever was queued, served or half written for it.
DescriptorReclaimed ==
  \A c \in Conns : conn[c] = "open" /\ fin[c] ~> conn[c] = "closed"

\* "request ready, set epoll fd for output" (main.cpp:118): the connection a
\* worker sets to output is the one whose request is ready.
ArmsItsConnection ==
  [][\A w \in Workers :
       Arm(w) /\ owner[running[w]] # NoConn => owner[running[w]] = seen[w].conn]_vars
=============================================================================
