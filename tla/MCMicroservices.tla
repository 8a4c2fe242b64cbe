--------------------------- MODULE MCMicroservices ---------------------------
(* Instances of Microservices for TLC; the services are made after those of *)
(* config.json.                                                             *)
EXTENDS Microservices

CONSTANTS u1, u2, v

Field(name, required, typed) ==
  [name |-> name, required |-> required, typed |-> typed]

Service(func, secure, roles, params, validator, mail, ends) ==
  [func |-> func, secure |-> secure, roles |-> roles, params |-> params,
   validator |-> validator, mail |-> mail,
   sql |-> [size |-> 10, ends |-> ends]]

\* A report in JSON for anyone, a search that mails what it found, a service of
\* two statements, and a modification with a role, a validator and a mail.
FourServices ==
  [report |-> Service("dbget_json", FALSE, {}, <<>>, TRUE, "none", <<>>),
   search |-> Service("dbget", TRUE, {}, <<Field("p", FALSE, TRUE)>>, FALSE, "p", <<>>),
   info   |-> Service("dbgetm", FALSE, {}, <<Field("p", TRUE, FALSE)>>, TRUE, "none", <<4>>),
   update |-> Service("dbexec", TRUE, {"can_update"},
                <<Field("p", TRUE, FALSE), Field("q", FALSE, TRUE)>>, TRUE,
                "$usermail", <<>>)]
FourPaths == DOMAIN FourServices

\* A service of three statements: "0123;567;9".
ThreeStatements == [info |-> Service("dbgetm", FALSE, {}, <<>>, FALSE, "none", <<4, 8>>)]
OnePath == DOMAIN ThreeStatements

TwoFields == {"p", "q"}
OneRole == {"can_update"}
OnlyFirst == [u \in Users |-> IF u = u1 THEN {"can_update"} ELSE {}]
=============================================================================
