--------------------------- MODULE MCEpollServer ---------------------------
(* Instances of EpollServer for TLC. *)
EXTENDS EpollServer

Kind(method, body, ok) == [method |-> method, body |-> body, ok |-> ok]

\* A GET, a POST whose body may come in two packets, a GET that is answered
\* with 400.
PoliteKinds == {Kind("GET", 0, TRUE), Kind("POST", 2, TRUE), Kind("GET", 0, FALSE)}

\* Also a POST that is refused on its head while its body is on the way.
RudeKinds == {Kind("POST", 1, TRUE), Kind("POST", 1, FALSE)}
=============================================================================
