# A TLA+ model of CPPServer

CPPServer is an HTTP server for JSON microservices on PostgreSQL: one thread runs
an edge-triggered epoll loop, a pool of threads runs the services, each thread
with its own database connections. This directory holds TLA+ modules translated
from its source (`src/src/*.cpp`), the TLC configurations that check them on
small instances, and proofs about the worker pool, the epoll loop, logins and sessions, the
microservice engine, the documents, the configuration, and the way of an input from the client's form
into the text of a statement, for every value of their constants.

    tlc -config PoolShutdown.cfg WorkerPool.tla     # any run of the table below
    tlapm WorkerPoolProofs.tla                      # the proofs, about two minutes
    tlapm EpollServerProofs.tla                     # whatever the clients do
    tlapm EpollServiceProofs.tla                    # with clients that wait
    tlapm MicroservicesProofs.tla
    tlapm BlobsProofs.tla                           # a minute and a half
    tlapm SessionsProofs.tla                        # a minute
    tlapm InputsProofs.tla                          # four minutes
    tlapm SqlTextProofs.tla                         # seven minutes

`PROJECT.json` lists the components, the runs, which lines each definition
stands for (`map`), for each property a plausible bug that breaks it
(`mutants`), the hazards of the code and what covers them, and the theorems.

## 1. Inventory

### Threads and how they interact

    clients --TCP--> epoll loop --m_queue, m_cond--> workers --libpq--> PostgreSQL
                (start_epoll)                       (consumer)  session db, db1..db10
                     ^                                 |     \--files--> /var/blobs
                     |  buffers[fd] (request object)   |
                     +----- epoll_ctl(fd, EPOLLOUT) ---+

| Component | State | Operations | Hard because | Correct if |
|---|---|---|---|---|
| worker pool (`main.cpp`) | `m_queue`, `m_mutex`, `m_cond`, a stop token per worker, a worker's `params` | `consumer`, the push in `start_epoll`, the shutdown in `start_server` | predicate, wait and notification interleave; `request_stop` and its `notify_all` run without the mutex | FIFO, every request taken once and served, no `front()` of an empty queue, shutdown ends |
| epoll loop and connections (`main.cpp`) | `buffers` (a request object per descriptor, never erased), the epoll set, `g_connections` | accept, read, dispatch, write, close | edge-triggered; descriptors are reused while a worker holds a reference to the object; client may leave at any moment | one thread uses an object at a time; each request gets one response on its connection; every dead connection is closed |
| HTTP request (`httputils.cpp`) | `payload`, `headers`, `params`, `bodyStartPos`, `contentLength`, `errcode` | `parse`, `eof`, `clear`, `parse_form`, `save_blob` | packets cut anywhere, parse only on the first | request complete exactly when its body is |
| response stream (`httputils.cpp`) | buffer and position | `<<`, `append`, `write`, `clear` | partial `send`, `EAGAIN` | every byte sent once, in order |
| microservice engine (`mse.cpp`) | per thread: `t_service` (map of services with their parameter values, `m_json_buffer`), `t_user_info` | `run`, `validateInputs`, service functions, `send_mail`, `audit::save`, replies | thread-local state reused by request after request; a service fails half-way | a service runs only for a permitted user with valid inputs of this request; the reply says what happened |
| security sessions (`session.cpp`) | a prepared connection per thread, rows in the session database | `create`, `update`, `remove`, `get_total` | broken connections, lost results, outages, retries | secure services run as the sender; faults are hidden; requests end |
| login (`login.cpp`) | a prepared connection per thread, `m_user` | `bind` | same | same |
| SQL access (`sql.cpp`) | `dbconns`: a connection per thread and database | `get_json` (single, multiple), `exec_sql`, `has_rows`, `get_record`, `get_json_record` | same; a statement is retried after its result was lost | the answer is one JSON document; a statement is not applied twice |
| blobs (`httputils.cpp`, `mse.cpp`) | files in `/var/blobs`, rows of `demo.blob` | `save_blob`, the insert service, `downloadFile`, `deleteFile` | two stores and no transaction | a row has its file |
| configuration (`config.cpp`, `config.h`) | the map of services | `parse`, `sql`, `get_body` | hand-written parser and substitution loops | terminates; a placeholder is replaced by its own value |
| input validation (`mse.cpp`) | - | `isInteger`, `isDouble`, `isDate`, `trim`, quoting, roles | boundaries | accepts exactly the declared type (of a date, the texts that give a day) |
| metrics, audit, log, mail, environment | counters; a thread-local request id; - | `getMetrics`, `save`, `log`, `send`, `env::*` | - | counters agree with what they count |

`PROJECT.json` gives each component's status and each hazard with its line.

### What is hard here

1. **The hand-off of the request object** (`main.cpp:118-126`, `252-263`): the
   object is reached by the epoll loop through `epoll_event.data.ptr` and by a
   worker through a reference, without a lock. Only the order read, queue,
   serve, arm `EPOLLOUT`, write keeps them apart.
2. **Descriptor numbers** name both a connection and an object. A connection may
   be closed and its number reused between any two steps of a worker.
3. **The condition variable and the stop tokens** (`main.cpp:102-113`, `320-327`).
4. **Thread-local records** (`t_user_info`, `t_service`) that requests of
   different users share, one after the other.
5. **Connections that break without notice**, at any point of a request, with or
   without the statement having been executed.
6. **Two stores without a transaction**: blob files and their rows.

## 2. Plan

| Module | Models | Status |
|---|---|---|
| `TaskQueue` | abstract: what the hand-off promises | written |
| `WorkerPool` | `consumer`, push, shutdown; implements `TaskQueue` | written, proved |
| `WorkerPoolProofs` | theorems about `WorkerPool` | written |
| `EpollServer` | connections, request objects, workers | written, proved |
| `EpollServerProofs`, `EpollServiceProofs` | theorems about `EpollServer`: for all clients; for clients that wait | written |
| `Sessions` | `session.cpp`, `login.cpp` and their callers in `mse.cpp` | written, proved |
| `SessionsProofs` | theorems about `Sessions` | written |
| `Microservices` | `service_engine::run`, the inputs, roles and mail, and the retry loops of `sql.cpp` under it | written, proved |
| `MicroservicesProofs` | theorems about `Microservices` | written |
| `HttpService` | abstract: what a client that waits gets of the server; `EpollServer` implements it | written |
| `Blobs` | files and rows: upload, download, delete by several workers, crashes | written, proved |
| `BlobsProofs` | theorems about `Blobs` | written |
| `ConfigParser` | the line reader of `config.cpp`, on files that are cut | written, proved |
| `RequestParams` | query strings, percent codes, multipart bodies | written, proved |
| `Inputs`, `InputsProofs` | the validators and the quoting of `mse.cpp`; theorems about dates, numbers and blanks, and that the parsers of `RequestParams` give back what was sent | written, proved |
| `SqlText`, `SqlTextProofs` | composes the three: from the configuration and a request to the SQL text; theorems about `SqlText` and `ConfigParser` | written, proved |

Order: what all requests go through first (pool, epoll loop), then what decides
who a request runs as (sessions), then what it does (services, data, blobs),
then the pure algorithms.

Every safety property that a run checks is proved. What is left for models is the
splitting of header lines and of the cookie, whose result decides who a request comes
from; for theorems, that the loops of `SqlText` end, whose decreasing measure (the
placeholders that were not replaced yet) is in its invariant.

## 3. The modules

### TaskQueue and WorkerPool

`TaskQueue` is the abstract specification: tasks are submitted, taken in order,
each by one idle worker, and completed; the producer may close the queue, after
which idle workers may retire and pending tasks may stay behind.

`WorkerPool` is the code, one action per step another thread can observe:

| Code | Action |
|---|---|
| `mse::init()` on the new thread | `StartEngine` |
| `while (!tok.stop_requested())` | `TestLoop` |
| `std::unique_lock`, and the re-acquisition inside `wait` | `Lock` |
| the predicate of `m_cond.wait` | `TestPredicate` |
| `wait` releases the mutex and blocks, atomically | `Sleep` |
| a spurious wake-up | `SpuriousWake` |
| `if (tok.stop_requested()) { lock.unlock(); break; }` | `CheckStop` |
| `front`, `pop`, `unlock` | `Get` |
| `mse::http_server` / `epoll_ctl(MOD)` | `Serve` / `Arm` |
| `scoped_lock`, `push`, end of its block / `notify_all` | `BeginPush`, `Push` / `NotifyAll` |
| the loop is left on a signal; `buffers` is destroyed | `LeaveLoop` |
| `request_stop` / `notify_all`, for each stop source | `RequestStop` / `WakeForStop` |
| the destructors of the `jthread`s, `main` returns | `BeginJoin`, `Join` / `Exit` |

`pc[w] = "asleep"` is the wait set of `m_cond`. A task is named by its rank, which
is enough: the pool never looks inside `worker_params`. The `jthread` constructor's
own stop token is not the one `consumer` reads, so it plays no part.

### EpollServer

A request is a sequence of units: `HeadLen` for the head (one: the head arrives
whole; two: it may be cut) and the rest for the body. A unit carries the
connection and the number of its request, so that mixing can be seen. `request[fd]`
is the object stored in `buffers` under `fd`: since `buffers` is never erased from
and references into an `unordered_map` are stable, the object a worker refers to
is named by the descriptor it was given.

The kernel is modelled by what the code relies on: `ready` is epoll's ready list;
an arrival, a FIN or room in the send buffer puts a descriptor on it if its
interest asks for it (`Deliver`, `Hangup`, `Drain`); `EPOLL_CTL_ADD` and `MOD` poll
the descriptor once (`Register`, `Modify`); `epoll_wait` removes what it reports
and fixes the event mask (`Wait`). `epoll_wait` returns up to 64 events; the model
takes them one by one. This loses nothing: between `Wait` of one event and the
handling of it any other thread, client or arrival may act, as it may between the
return of `epoll_wait` and the handling of a later event of the batch; the loop
accepts at most what it would have accepted, and a descriptor appears once in a
batch. Accepting is one action per connection for the same reason.

A worker's `http_server` is two steps, one that reads the request (`ReadRequest`)
and one that appends the response (`Respond`), and `Arm` is a third: between them
the connection may be closed and its number given to another. A response is
`ResponseLen` = 2 units so that `send` can take a part of it.

Simplifications. `parse()` is its outcome: fine, or bad (`errcode = -1`), decided on
the first packet; a head cut in two is bad, as in the code, because it has no blank
line yet. `eof()` is the comparison of lengths; the forms it reads are in `Blobs` and
`RequestParams`. The signal
descriptor is in `WorkerPool`. Two threads that use one object at the same
moment race in C++; the model gives only the outcomes of some order of the steps.
The properties checked where that can happen (`EpollRude`) are about what only the
epoll loop writes (`payload`, the descriptors); where clients wait for their
answers, `ExclusiveObject` shows that it does not happen.

`HttpService` is what the server is to its clients: each request of a connection
gets one response, its own, in the order of the requests, and a bad one is told so.
`ImplementsHttpService` maps what the clients of `EpollServer` sent and received to
it: for clients that wait for their answers no descriptor, packet or thread shows.

### Sessions

Each worker has two connections. `link` is the one to the session database: "ok",
"cut" (broken, and `PQstatus` does not know yet) or "bad", with `prepared` for its
statements; `bindLink` is the one to the login database, with the additional value
"unprepared" for a connection on which `PQprepare` failed. The session rows are
shared. `bind`, `create` and `update` retry: a broken connection leads to "rebind"
or "recover", which ends in `BindThrows` or `GiveUp` after `MaxRetries`, or
reconnects (`BindAgain`, `Retry` with `Connect`). `ResultLost` is a connection that
breaks after the statement was executed: `create` has inserted its row. `Remove` and
`Count` try once.

| Code | Action |
|---|---|
| `microservice()`, `t_user_info.clear()`, the first call of `run()` | `Receive` |
| `login::bind` finds the user, does not, throws, reconnects | `BindAccepted`, `BindRejected`, `BindThrows`, `BindFails` and `BindAgain` |
| `session::create` and `sessionCreate` | `Created` |
| `session::update` and `sessionUpdate` | `Updated`, `NotFound` |
| both: an error, a broken connection, the retry loop | `NotPrepared`, `CallFails`, `ResultLost`, `Retry`, `GiveUp` |
| `session::remove` in `logout`, `session::get_total` | `Remove`, `Count` |
| any other secure service / the response | `Run` / `Reply` |

`cookie`, `login` and `roles` are the fields of `t_user_info`, `m_user` the record that
`bind` fills; both are `thread_local` and hold text that is appended to. What matters
of the roles is whose they are, so that a list of roles is a sequence of users. They
travel from `m_user` into the row (`NewRow`) and from the row, with a later request
and perhaps on another thread, into `roles` (`Updated`).

A failing `PQprepare` is a fault (it needs a database that accepts a connection and
then rejects a statement). A connection breaks (`Break`) only in front of a call that
would notice: nothing else in the model looks at it. `cpp_session_*` and `cpp_dblogin`
are functions of the database, not of this repository: taken to insert, find and
delete a row, to return the columns the code reads, and to be on one server.

### Microservices

The engine of one thread: `values` are the fields' values in its map of services
(`t_service`), `mailTo` the recipients there, `buffer` its `m_json_buffer`, `login`
its `t_user_info`, `link` its connection (as in `Sessions`). All of these are
`thread_local`, so other threads matter only through the database, whose answers
are left open. Requests of different senders follow each other on the thread.
`Config` holds the services as `config.cpp` loads them.

| Code | Action |
|---|---|
| `t_user_info.clear()`, `m_service_map.find` | `Receive`, `ReceiveUnknown` |
| `sessionUpdate()` | `FindSession`, `RefuseSession` |
| the role check of `validateInputs` | `DenyAccess` |
| `validateRequestParams` | `RefuseInputs`, `AcceptInputs` |
| `db_match`, `db_nomatch` over `has_rows` | `ValidatorAnswers` |
| `PQexec` in `get_json_record`, `get_json`, `exec_sql` | `StatementAnswers`, `NextStatementAnswers`, `Rejected`, `CallFails` |
| `goto retry` / `retries == max_retries` | `Retry` / `GiveUp` |
| `send_mail` | `SendMail` |
| 200 with the buffer or a constant text, 401 | `Reply` |

The session check is only its outcome here: the sender or none (`Sessions`, whose
`RunsAsSender` says why). A value of a field is one of `Values`, empty, or malformed
for its type; trimming and quoting belong to `Inputs`. Roles are compared by
`find()` on a text; `RolesOf[u]` is the set of roles found there.

A text of several statements is its length and the positions of its semicolons.
`Cut` is what `substr(newpos, pos)` returns and `Statement` what it should; `Result`
is what `PQexec` makes of a text: it executes all the statements in it and returns
the last result. `buffer` is a sequence of pieces; a piece that carries a result
names the tag it was put under and the statement it came from. `lost`, `refused`
and `steady` record what the environment did to the request, `mailed` and `applied`
what the request did.

### Blobs

A document is named by the number of the `get_uuid()` call that drew its name. `disk`
is `/var/blobs`, `rows` is `demo.blob`: nothing ties them together but the order of
steps taken by different threads, and a crash may come between any two.

| Code | Action |
|---|---|
| the last packet of a form / a GET | `ReceiveForm` / `ReceiveGet` |
| a turn of the loop of `eof()`: a field, or a file with `save_blob` | `NextField` (`TitleField`, `FileField`) |
| the request goes to the pool and is taken from it | `Dispatch`, `Refuse`, `Serve` |
| `dbexec` of `/ms/blob/add` | `Insert` |
| `get_record` | `Find`, `FindNothing` |
| `downloadFile`: open and read | `Open` |
| `deleteFile`: the row, then the file | `Delete`, `Unlink` |
| an error, or a connection that breaks, in `exec_sql` and `get_record` | `Rejected`, `ResultLost`, `Retry`, `GiveUp` |
| the process is killed and started again | `Crash` |

`save_blob` logs its errors and returns nothing, so that the row may follow a file
that is missing or half there: `unwritten` records it, as `repeated` records an insert
that is repeated because its result was lost, and `given_up` the documents of requests
that were refused, failed or killed. The properties say that nothing else leaves a
row without a file or a file without a row.

`Open` may fail although the file is there (no descriptor is left for it) and `Unlink` may
leave the file where it is: `deleteFile` does not look at what `std::remove` returns
(`mse.cpp:338`) and answers OK. `unremoved` records such a file, and `NoStrayFile` and
`DeletionIsFinal` name it: the row of a deletion that was answered OK is gone, and the
file is unless the system refused to remove it.

### ConfigParser, RequestParams, Inputs and SqlText

These are the text algorithms, composed by `SqlText`: a configuration is loaded, a
client fills in the form of one of its services, the request is parsed, each input is
accepted or refused, and what is accepted goes into the template of the statement. A
text is a sequence of tokens, a token being a character or a word that the code
only ever looks for as a whole.

- `ConfigParser`: one action per kind of line and loop of `config::parse()`. A line is of
  a kind, which stands for how it starts and which attribute names are in it, and carries
  the characters between its quotes. `GetValue`, `GetAttribute` and `GetNames` take of
  these what the code takes: up to the first quote, as the parser knows of no `\"`, and a
  value without its outer blanks. Any line with a `]` ends the fields (`FieldsEnd`,
  `config.cpp:148`) before it is read itself, any with a `}` the mail (`MailEnds`, 204)
  after it was; what is left of either is read by the loop of the service, which takes
  nothing of it (`SkipLine`). `Agrees` says what of a service may differ from what is
  written for that reason, and `ConfigAsWritten` that nothing else does. The document may
  be cut behind any line. At the end of the file three of the four loops behave differently (`EndOfFile`):
  the loop of the file ends, that of the fields throws, the other two never end.
- `RequestParams`: `DecodeParam`, `ParseQueryString`, `ParseMultipart` and the loop of
  `eof()` (`EofParams`) as functions; `QueryString` and `MultipartBody` are the client
  that encodes a form.
- `Inputs`: `Trim`, `IsInteger`, `IsDouble`, `IsDate` (with `IsDay`, its tests of the three
  numbers), `Stored` and `Literal` (the quoting), all on sequences of characters.
  `GivesDay` is the reference for dates: digits of a day of the calendar in the places of
  yyyy-mm-dd, written without the code's conversions. It leaves the separators free, as
  the code does.
- `SqlText`: `Load`, `Receive`, `Refuse`, `Accept`, and `sql()` with one action for a turn of
  its inner loop (`Substitute`) and one for leaving it (`NextField`). `MeantText` is the
  reference: each placeholder of the template, the longest that begins there,
  stands for its value.

## 4. The runs

| Run | Instance | Checks |
|---|---|---|
| `PoolShutdown` | 3 workers, 3 tasks, a signal at any time | `FrontNonEmpty`, `NoMissedTask`, `HeldOnce`, `AtMostOneOverslept`, implements `TaskQueue`, `EveryTaskServed`, `ShutdownEndsOrOneSleeps` |
| `ShutdownHang` | 2 workers, 1 task | finding: `ShutdownCompletes` fails |
| `ShutdownLive` | 2 workers, 1 task | finding: `ServesLiveRequest` fails |
| `EpollPolite` | 2 clients that wait for their answers, 2 descriptors, 2 workers, 2 requests each, of 3 kinds | `ExclusiveObject`, implements `HttpService`, `RequestsAnswered` |
| `EpollRude` | 2 clients that may leave at any time, 1 descriptor number, 1 worker, a request each, which may be refused on its head | `TypeOK` (with the counters), `PayloadOfOwner`, `NoLostEdge`, `DescriptorReclaimed` |
| `EpollReuse` | 2 clients that may leave, 1 descriptor number, 1 worker | finding: `ArmsItsConnection` fails |
| `SessionsFaults` | 2 workers, 2 users, 1 login, 1 fault, 2 retries, a database that may stay down | `RunsAsSender`, `FaultsMasked`, `RequestsEnd` |
| `LogoutKeepsSession` | 1 worker, 1 user, 1 fault | finding: `LogoutKills` fails |
| `Services` | 3 senders (one unknown), 4 services, 2 fields of 3 values, 2 faults | `OwnInputs`, `Permitted`, `MailToRecipient`, `OneDocument`, `EffectMatchesReply`, `FaultsMasked`, `MultipleResultsets`; no deadlock |
| `SplitStatements` | a service of 3 statements | finding: `MultipleResultsets` fails |
| `Blobs` | 2 workers, 2 saved files, forms of 4 kinds, downloads and deletions of any row, 1 fault (a file that cannot be opened or removed among them) or crash, 1 retry | `RowHasFile`, `NoStrayFile`, `DownloadMatchesRow`, `DeletionIsFinal` |
| `SqlText` | 4 documents cut anywhere, every form over 13 values (5 of them dates or nearly) and 4 files, as a query string and as a multipart body | `ConfigAsWritten`, `ParamsAsSent`, `RefusedIffInvalid`, `SqlAsTemplate`, `ConfigLoads`, `SubstitutionEnds` |

Every passing run also checks the `TypeOK` of its module (`EpollPolite` leaves that to
`EpollRude`).

**Bounds.** The pool's hazards need at most two workers and a producer (one that
waits, one that competes); a third shows that "at most one" is not "at most all
but one". Three tasks let the queue hold two while one is served. In the epoll
loop a stale descriptor needs two connections on one number; two clients on two
numbers and two requests each let a worker's late step meet the next request of
the same object. A response of two units and reads of `ReadSize` units cut every
transfer in two at each place. In `EpollRude` one worker is enough: what the loop does
with a number depends on when a worker acts, not on which. There the body of a
request refused on its head arrives while its answer is prepared, and may queue the
object a second time; that is also how `NoLostEdge` meets bytes that `clear()` drops.
Both runs have heads that arrive whole (`HeadLen` = 1): a head cut in two is refused by
the code, and with it no client would get its service.

For sessions one fault is one more than the code may take without its retries, an
outage uses all of them up, and one session lets a cookie outlive the login of
another user on the same thread; `LogoutKeepsSession` has the code's three retries. The
four services of `Services` are one of each function, made after those of
`config.json`: with and without session, role, fields, validator, mail to a field and
to the sender, and a text of two statements. An outage uses up all three retries there;
broken connections and lost results are at most two. In `Blobs` two files let a form
have two, or two uploads race; the fault is a broken connection, a lost result, an
outage, a file that cannot be written, opened or removed, or a crash, at any point; the
proofs hold for any number of each. The documents of `SqlText` have a placeholder that begins another, in both orders,
fields that inherit a type, two services of one path, mail, an upload, a type that
does not exist, and a service whose texts have quotes, outer blanks, a `]` in the name of a
field and a `}` in its mail; the values have quotes, separators, blanks, a `$` and
placeholders, and dates with dashes, quotes and slashes. A text is worked on up to 80 tokens (`MaxText`), which is what a value with its own
placeholder in it is stopped by.

With two workers of TLC, `SessionsFaults` takes two and a half minutes, `Blobs` (5.4 million states) two,
`EpollPolite` one and a half, every other run less than one.

**Fairness.** Threads that can run do run (`WF` on each worker and on what the
main thread does once it is not waiting for input), and the network delivers what
was sent and lets a client drain its receive buffer (`WF` on `Network`; a client that
never reads keeps its connection, as in the code). Nothing is assumed of clients:
sending and leaving are unfair. Nothing is assumed of the database, of signals or
of spurious wake-ups. The mutex needs no strong fairness: it is held for a bounded
number of steps, and the tasks are finitely many in a run. Under unbounded
contention `std::mutex` promises no more than the model: some waiter gets it. In
`SqlText` the thread that loads the configuration goes on and so does the one that
serves a request; no client has to send one.

**Deadlock.** `Services` and `SplitStatements` check for deadlock. The others say
`CHECK_DEADLOCK FALSE` because the system may stop: after the process has exited
(pool), when the bounded clients have sent what they may and left (epoll), when no
more faults, logins or uploads are allowed (sessions, blobs), and when the request is
served, the configuration is wrong or its parser is in one of the loops that never end
(`SqlText`). That none stops early is what the liveness properties check.

### What the findings show

- `ShutdownHang`: a worker evaluates its predicate (no task, no stop); the main
  thread sets all stop flags and calls every `notify_all`; the worker then blocks.
  No notification follows, the `jthread` destructor joins for ever, and "shutting
  down..." is never logged. `AtMostOneOverslept` (proved for all pool sizes) bounds
  the damage: one worker at most, because the predicate is evaluated under the mutex.
- `ShutdownLive`: `buffers` is local to `start_epoll` and destroyed when it returns,
  before the workers are stopped: a worker inside `http_server` uses a dead request.
- `EpollReuse`: a client leaves while its request is with the pool, its number is
  reused, and the worker arms `EPOLLOUT` on the other connection. Where the other
  client has a request in flight its object and the two threads meet; with
  `EpollRude` we check what survives: no object mixes the bytes of two connections.
- `LogoutKeepsSession`: `session::remove` tries once and reports nothing; a connection
  that breaks between the session check and the delete leaves the session alive
  under a reply of OK.
- `SplitStatements`: from the second of three statements on, the text handed to the
  database has the length of everything up to its semicolon, and runs into what
  follows. In the run the third statement is executed with the second and
  its result appears under the second tag. Two statements are safe
  (`TwoStatementsAreSplit`), which is all that the shipped configuration has.

## 5. The proofs

`WorkerPoolProofs` proves for every `PoolSize`, `MaxTasks` in `Nat` (the only
assumptions, with `MaySignal` in `BOOLEAN`):

| Theorem | Says |
|---|---|
| `TypeCorrectness` | `Spec => []TypeOK` |
| `FrontDefined` | `Spec => []FrontNonEmpty` |
| `NoLostWakeup` | `Spec => []NoMissedTask` |
| `UniqueHolder` | `Spec => []HeldOnce` |
| `OneOverslept` | `Spec => []AtMostOneOverslept` |
| `Refinement` | `Spec => Queue!Spec`: the pool implements `TaskQueue` |

None of the properties is inductive. The invariant `IInv` adds:

- `LockInv`: the mutex is held exactly by the thread whose program counter says so;
  with it a step of another thread cannot fall inside a critical section.
- `PredicateInv`: what a worker learnt from its predicate is still true while it
  holds the mutex. `FrontNonEmpty` is its last part.
- `NoMissedTask` itself: a task is pushed under the mutex, so a worker that has
  evaluated its predicate before is either asleep by then, and will be notified, or
  holds the mutex and the push cannot happen.
- `QueueInv`: the queue holds the latest ranks in order and the workers hold
  smaller, distinct ones: `HeldOnce`, and what the refinement needs of `Get`.
- `StopInv`: how far the loop over the stop sources has come.
- `OversleptInv`: once every notification is sent, two workers cannot both be on
  their way into the wait set, as that takes the mutex ("sleep") and an empty wait
  set before. `AtMostOneOverslept` follows.

`IInv` is proved to hold initially and to be preserved, action by action; the
refinement maps each action to one of `TaskQueue` or to a stutter.

`EpollServerProofs` proves, for any sets of connections, descriptors, workers and kinds of
requests, and whatever the clients do, from the assumptions of `EpollServer` (the names for
"no connection" and "no descriptor" are no members, lengths are positive):

| Theorem | Says |
|---|---|
| `TypeCorrectness` | `Spec => []TypeOK`, which has the two metrics: `connections` is the number of open connections and `active` that of workers in a handler |
| `BytesOfOneConnection` | `Spec => []PayloadOfOwner` |
| `EdgesAreKept` | `Spec => []NoLostEdge` |

- `OwnerInv`: a connection that is open has one descriptor, which epoll watches, and the
  ready list has no descriptor without a connection. `UnitsInv`: what is on its way on a
  connection carries its name. Both together keep `PayloadOfOwner`.
- `MainInv` is what `NoLostEdge` needs to be inductive: between `epoll_wait` and the
  handling of an event the descriptor is in the hands of the main thread, and whatever
  happens to it in that time is on the ready list again.
- `CountInv`: the sets that are counted are finite, which is proved, not assumed, and
  the counters are their cardinalities.

`EpollServiceProofs` goes on with clients that wait (`Polite`): they stay until they are
answered, a head comes in one packet (`HeadLen` = 1), and a request that is answered on
its head, a GET or a bad one, has no body. All three are needed. A client that leaves
brings about `EpollReuse`, a head in two packets is refused by the code, and a body that
follows a refused head would be read as a new request: `EpollRude` has such clients.

| Theorem | Says |
|---|---|
| `ObjectsAreExclusive` | `Polite`: `Spec => []ExclusiveObject` |
| `ServerImplementsService` | `Polite`: `Spec => ImplementsHttpService` |
| `WorkersArmTheirOwn` | `Polite`: `Spec => ArmsItsConnection`, which `EpollReuse` refutes for other clients |

The invariant `PInv` says that a descriptor is with the pool at most once (`Once`), that a
client has at most one request out (`ClientInv`), and that each connection is in one
of four states, which it goes through in this order (`FdInv`):

- `IdleAt`: the client owes a request; the object is empty, nobody has it;
- `ReceivingAt`: what the object has read, what is in the socket and what is on the wire
  are together the request, in this order;
- `ServedAt`: the request is complete and the object is in the queue or with one worker,
  with what that worker knows at each place of its code;
- `WritingAt`: the response due is in the object, sent up to `pos`, and the descriptor
  waits for room.

A step of one connection leaves the state of the others alone (`FdFrame`, `ClientFrame`).
`Reception` is the heart of `read_request()`: the request is reported complete with its
last byte and not before, wherever packets are cut. In the refinement `SendRequest` is
`Ask`, `WriteAll` is `Answer`, and every other step is a stutter.

`MicroservicesProofs` proves, for any set of services, fields, values, users, roles
and any number of retries and faults:

| Theorem | Says |
|---|---|
| `InputsAreOwn` | `Spec => []OwnInputs` |
| `OnlyPermitted` | `Spec => []Permitted` |
| `MailReachesRecipient` | `Spec => []MailToRecipient` |
| `TwoStatementsAreSplit` | with at most one semicolon, every piece that `get_json` cuts is accepted and gives its own result |
| `TypeCorrectness` | `Spec => []TypeOK`: also, retries stay within their bound and the JSON buffer never outgrows the longest answer |
| `AnswerIsOneDocument` | `Spec => []OneDocument` |
| `RepliesTellEffects` | `Spec => []EffectMatchesReply` |
| `FaultsAreMasked` | `CutsFit`: `Spec => []FaultsMasked` |
| `ResultsUnderTheirTags` | `CutsFit`: `Spec => []MultipleResultsets` |

The assumptions are `ServicesAssumption` (the configuration has services, and they
are well formed: a recipient that is a field is one of the service's, and no
statement is empty), `ValuesAssumption`, `UsersAssumption` and `BoundsAssumption`. For
the first three the invariant `IInv` adds to the three properties: `LoginInv` (from the session check on, `login`
is the sender's for a secure service, and nobody's otherwise: with
`t_user_info.clear()` nothing survives of the user before), `RolesInv` (the roles were
checked on the way in and the steps of `sql.cpp` do not change the user), and
`MailInv` (no mail before the service is done). `Types` has the part of the types
that is needed and that `mailTo` is still the configuration's: this is where the
proof uses that `send_mail` gets a copy. Most steps of `sql.cpp` touch none of it; they are
proved together as `Quiet` steps.

The others rest on a second invariant, `AInv`, over the JSON buffer and the modification:

- `QueryInv`: while the n-th statement is executed the buffer holds exactly the results
  before it, which makes `get_json`'s loop a loop over statements, and a modification
  has been applied only where its result was lost.
- `FaultInv`: while the database is up a request has retried no more often than
  connections broke, plus the one that may have been broken from the start; giving
  up would take more faults than there were.
- `ReplyInv`: a service ends in one of four ways (`Outcome`): `Done`, `Whole` (all the
  results of a `dbgetm`), `Failed` (the error alone: the buffer was cleared) or
  `Interrupted` (an outage in the middle of a `dbgetm`). Each kind of reply follows
  from one of them.
- `EarlyInv`: nothing has happened before the service is entered.

`CutsFit` says that the texts of `dbgetm` services have at most one semicolon, as the only
one of the shipped configuration has (`config.json:58`). Without it the two theorems are
false: that is the finding of `SplitStatements`. The others hold for any texts.

`BlobsProofs` proves the five invariants of `Blobs` for any number of workers, uploads,
retries, faults and crashes, and any forms with one title at most
(`FormsAssumption`; with two, `eof()` looks at all of them and the service at the first):

| Theorem | Says |
|---|---|
| `TypeCorrectness` | `Spec => []TypeOK` |
| `RowsHaveFiles` | `Spec => []RowHasFile` |
| `NoStrays` | `Spec => []NoStrayFile` |
| `DownloadsMatch` | `Spec => []DownloadMatchesRow` |
| `DeletionsFinal` | `Spec => []DeletionIsFinal` |

None is inductive. Why a row has its file is a matter of who may still do something to
it, and the invariant `IInv` says so:

- `OwnerInv`: a document is in one place. What the main thread holds nobody else does
  (`MainOwns`); a document has one row (`OneRow`), and while a worker may insert it there
  is none, and no other worker inserts or deletes it (`OneInserter`), unless a lost
  result made an insert happen twice. `FormInv` carries what `eof()` has seen: an empty
  title in front of a file stops the saving and makes the request invalid. `WorkerInv`
  fits a worker to its request: behind `Find` its document is the row's, and ids are
  never issued twice.
- `SavedInv`: what has a row or may get one has its whole file, or could not be
  written.
- `KeptInv`: a file has a row, or somebody who will still give it one or remove it, or
  was given up, or could not be removed.

`SessionsProofs` proves the three invariants of `Sessions` for any number of workers,
users, retries, sessions and faults, from `UsersAssumption` and `BoundsAssumption`:

| Theorem | Says |
|---|---|
| `TypeCorrectness` | `Spec => []TypeOK` |
| `RunsForSender` | `Spec => []RunsAsSender` |
| `FaultsHidden` | `Spec => []FaultsMasked` |

- `RunsAsSender` depends on where an id has been: the row it names, the cookie of a
  client, the request that carries it. `Owns(u, id)` says that session `id` was issued
  and, while it is alive, is user `u`'s; `HoldsInv` says it of what the clients hold,
  `Sender` of the requests, together with what a request has in the thread's records at
  each place of the code (nothing in `roles` until `update()`, its own user in `m_user`
  between `bind()` and `create()`), and `RowsInv` of the rows, whose roles come from
  `m_user`. Rows are only added under new ids (`RowsKept`), so a request of one worker
  takes nothing from another's (`SameKeeps`).
- `FaultsMasked` depends on a budget: `Spent` says that a request has retried at most
  once more often than there were faults, as its connection may have been bad from the
  start, and not even that while the connection is broken now. Giving up takes
  `MaxRetries` retries with a broken connection, hence as many faults.

`InputsProofs` proves what the tests of `validateRequestParams()` accept and what the
parsers of a request return, for every text:

| Theorem | Says |
|---|---|
| `DatesAreDays` | the tests `isDate()` makes of the three numbers accept exactly the days of the Gregorian calendar, for every year, month and day |
| `DatesGiveDays` | `IsDate(text) <=> GivesDay(text)`: ten characters, a day of the calendar in the places of yyyy-mm-dd, and anything in the places of the dashes |
| `DoublesHaveOnePoint` | `isDouble()` accepts exactly the digits with at most one point, which may be anywhere, also alone |
| `TrimTakesOffBlanks` | `trim()` takes off the blanks in front and behind, and nothing else |
| `QueryRead` | `ParseQueryString(QueryString(form))` holds the names of the form, each with its value, whatever the values are |
| `MultipartRead` | `ParseMultipart(MultipartBody(form)) = form`: line ends, dashes and quotes in the contents of a file included |

`QueryRead` is about forms whose names are not empty, have no `&` and no `=`, as a client
sends them as they are, and have one value each. `MultipartRead` is about the forms that a
client can send (`CanBeSent`): the boundary is in no data, a text is one line, a name has no
quote, line end or `name=`, and the name of a file no quote or line end.

`SqlTextProofs` follows a value from the form to the statement, for any documents, values
and contents:

| Theorem | Says |
|---|---|
| `TypeCorrectness` | `Spec => []TypeOK`: the loop of `sql()` over the fields ends behind the last one |
| `LoadedAsWritten` | `Spec => []ConfigAsWritten` |
| `ReceivedAsSent` | `Spec => []ParamsAsSent` |
| `RefusedWhenInvalid` | `Spec => []RefusedIffInvalid` |
| `SubstitutedAsTemplate` | `Spec => []SqlAsTemplate` |

The assumptions are `DocumentsAssumption` (a document is a sequence of services, each with
a text for every key, fields in their order, a text for every attribute of its mail, and
a path without quotes and outer blanks),
`MailKeysAssumption` (these attributes are finitely many), `SentAssumption` (what a client
may fill in: no boundary, one line for a text), `NamesAssumption` (the fields of a service
have names of their own, without the characters that end a name in a form, without a `$`,
and not one of the three that `eof()` sets itself) and `TextsAssumption` (the user's login
is a text). Of a
file only the document is followed: its length, type and name are parameters that no field
is named after. The invariant `IInv` has a part for each stage:

- `ParserInv`: the fields that the parser collects are sequences.
- `ConfigInv`: n services are loaded (`Loaded`), and the parser has read j lines of the
  next one (`Reading`). `FilePlaced` and `ServiceLayout` say where the lines of the
  services and of their sections are in a file; `InService` what the loop knows after j
  lines: the texts whose lines it has read are what is taken of them, the others are still
  empty; and `LoopAt` which loop it is in there, which for the fields and the mail depends
  on whether a line before had a bracket. `ReadAgrees` turns what was taken into what
  `Agrees` says: a text without quotes and outer blanks is taken whole (`GetPlain`).
  That a cut file loads no half service is that a service is added by its last line.
- `RequestInv`: a request is for a service that was loaded.
- `FormInv`: what was received is the form of its client (`AsSent`, from `QueryRead` or
  `MultipartRead` and an induction over the fields), and a request that was refused has
  a bad field, one that was accepted none. `RefusedIffInvalid` follows as the input that
  is validated is the one that was meant (`InputMeant`), and each test is that of its
  type (`TypeTest`; for dates `DatesGiveDays`).
- `TextInv`: the text that `sql()` works on is made of pieces (`Pieces`), one for each
  position of the template: the literal where a placeholder was replaced, nothing behind
  it, and else the character that was there. Replaced are all the placeholders of the
  parameters before `field`, and some of this one's (`UpTo`).

The last needs that what `sql()` finds in its own result is a placeholder of the template
(`FoundInTemplate`), although the text before it has changed length and the one behind it
will. Each condition of `Apart` keeps out one way in which it is not, or in which the literal is not the one meant:

- a date with a quote between its numbers is stored as it is (`mse.cpp:501-506`) and quoted,
  so that its literal is not that of the value;
- a literal with a `$` is searched too, and its `$name` taken for a placeholder;
- a placeholder that begins a later one, as `$d` does `$d1`, is replaced in the midst of it:
  `config.h:71-78` has no notion of where a name ends. The other order is fine, and then
  the first that is found at a position is the longest (`LongestIsFirst`);
- `$userlogin` is replaced once, so that a second stays;
- what stands between two `$` must not begin a placeholder: in `$a$b` the value of `b`, put
  behind `$a`, could complete `$a1`.

Templates that are not `Apart` are in the run, and there the text is not promised. For the
others a turn replaces one more placeholder (`TurnReplaces`), and the inner loop is left
when there is none of its parameter (`NoneLeft`).

**How induction is done.** The induction theorems of the library take an operator as
parameter, which no prover here can instantiate. A set of positions has a least
member, though (`FirstPosition`, from `WFMin`), and `Induction` over a set T of
numbers, that 0 in T and T closed under + 1 give all of Nat, is a statement without such
a parameter; so is `Recursion`, that a function defined by a step from n - 1 to n
exists and has those values. `FlattenFcn` gives `FlattenSeq` as such a function, `Runs` and
`RunsThrough` the loops over the characters of a text, which are taken apart where the
text is.

**Only model-checked.** Liveness (`EveryTaskServed`, `ShutdownEndsOrOneSleeps`,
`RequestsAnswered`, `DescriptorReclaimed`, `RequestsEnd`, `ConfigLoads`,
`SubstitutionEnds`), which needs `ENABLED` and fairness.

## 6. Not modelled

- Formatting of replies, headers, dates and JSON; logging and audit text; the averages
  of the metrics; `getServerInfo`, `getMetrics` and `get_version`; the environment's
  parsing; the SMTP client, a detached thread that nothing waits for. No state of the
  server depends on them.
- The splitting of header lines and of the cookie: a request's head is accepted or
  refused, and its cookie is that of its client.
- How a configuration line is recognised (`starts_with`, `contains` of an attribute name):
  a line has a kind, and a document is laid out as the shipped one is. The shipped
  configuration names a validator `dbfind` (`config.json:141`) that `mse.cpp:436-443` does
  not know.
- In multipart bodies: line breaks in text fields, which the parser loses, closing
  delimiters without a line break, and forms with two titles.
- `get_body()` of the mail and the audit's text: the substitution loops of `sql()` again.
- `]` and `}` where the shipped layout has none: in the type or the `required` of a field.
- Two calls of `get_uuid()` that return the same name.
- The pool of named connections in `sql.cpp`: a worker has one connection per model.

Some disagreements of the code with what its comments or a reader expect are in the model
without a run of their own; the properties name them where they would fail otherwise:

- `isDate()` is commented "check for valid date in format yyyy-mm-dd" (`mse.cpp:51`, also
  `config.h:30`) and never looks at the separators: 2024/02/29 and 2024'02'29 are dates
  (`RefusedIffInvalid`). The second is stored with one quote and put between quotes, which
  is not the statement the template means (`Apart`, in `SqlAsTemplate`).
- A text of the configuration ends at its first quote, escaped or not; a `]` in the name of a
  field loses that field and those behind it, a `}` in a text of a mail the attributes behind
  it (`Agrees`, in `ConfigAsWritten`).
- `deleteFile` answers OK for a file it could not remove (`NoStrayFile`, `DeletionIsFinal`).

Outside the repository, and modelled from their use: the kernel (epoll, sockets, the
file system), libpq's connection status, PostgreSQL's treatment of a text of several
statements, and the SQL functions of the session and login databases. The Docker and
nginx files configure, and are not modelled.
