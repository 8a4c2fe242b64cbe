----------------------------- MODULE HttpService -----------------------------
(***************************************************************************)
(* What the server is to a client that waits for its answers: a service    *)
(* that gives each request of each connection one response, its own, in    *)
(* the order of the requests.  Nothing is said of sockets, packets,        *)
(* descriptors or threads; EpollServer implements it.                      *)
(***************************************************************************)
EXTENDS Naturals, Sequences

CONSTANTS
  Conns,   \* connections
  Kinds    \* requests: records with a field ok, FALSE for a bad request

VARIABLES
  asked,    \* asked[c]: the requests sent on connection c
  answered  \* answered[c]: the responses received on it

vars == <<asked, answered>>

Init ==
  /\ asked = [c \in Conns |-> <<>>]
  /\ answered = [c \in Conns |-> <<>>]

\* The client sends its next request when it has the answer to the last.
Ask(c, k) ==
  /\ Len(asked[c]) = Len(answered[c])
  /\ asked' = [asked EXCEPT ![c] = Append(@, k)]
  /\ UNCHANGED answered

\* The response names the request it answers; a bad one is told so.
Response(c, n) == [conn |-> c, n |-> n, bad |-> ~asked[c][n].ok]

Answer(c) ==
  LET n == Len(answered[c]) + 1 IN
  /\ n <= Len(asked[c])
  /\ answered' = [answered EXCEPT ![c] = Append(@, Response(c, n))]
  /\ UNCHANGED asked

Next == \E c \in Conns : Answer(c) \/ \E k \in Kinds : Ask(c, k)

Spec == Init /\ [][Next]_vars
==============================================================================
