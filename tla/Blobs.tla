-------------------------------- MODULE Blobs --------------------------------
(***************************************************************************)
(* Documents: files in /var/blobs and rows of demo.blob.                   *)
(*                                                                         *)
(* The main thread saves an uploaded file while it reads the request       *)
(* (request::eof), long before a worker checks the session and the inputs  *)
(* and inserts the row (/ms/blob/add); workers download and delete         *)
(* documents by the id of the row (downloadFile, deleteFile).  Nothing     *)
(* ties the two stores together but the order of the steps, and the        *)
(* process may be killed between any two of them.                          *)
(*                                                                         *)
(* A file is named by the number get_uuid() was called for; the ids of     *)
(* rows are a sequence of the database and never issued twice.             *)
(***************************************************************************)
EXTENDS Naturals, Sequences, FiniteSets

CONSTANTS
  Workers,     \* threads of the pool
  Forms,       \* multipart forms: sequences of the field kinds below
  MaxRetries,  \* sql::max_retries
  MaxQueue,    \* bound: requests waiting for a worker
  MaxUploads,  \* bound: a form is received while no more files were saved
  MaxFaults    \* bound: broken connections, lost results, outages, crashes,
               \* and files that cannot be written, opened or removed

\* A text field "title" with a text, with nothing, with blanks; a file.
FieldKinds == {"title", "no title", "blank title", "file"}

\* A form has one title at most; eof() looks at all of them and the service at
\* the first.
ASSUME FormsAssumption ==
  /\ Forms \subseteq Seq(FieldKinds)
  /\ \A fields \in Forms : \A i, j \in DOMAIN fields :
       fields[i] # "file" /\ fields[j] # "file" => i = j
ASSUME BoundsAssumption ==
  /\ MaxRetries \in Nat /\ MaxQueue \in Nat
  /\ MaxUploads \in Nat /\ MaxFaults \in Nat

NoDoc == 0

VARIABLES
  \* /var/blobs and the database
  disk,      \* disk[d]: "whole" or "part" of the file saved for document d
  rows,      \* rows[id]: the document of the row with that blob_id
  issued,    \* the last blob_id issued
  up,        \* whether the database accepts connections
  faults,    \* how many faults have happened
  \* the main thread
  form,      \* the request being read: its fields, and what eof() has made
  uploads,   \* how many uuids it has drawn
  queue,     \* requests waiting for a worker
  \* the workers
  pc,        \* where the worker is
  task,      \* its request
  doc,       \* the document it works on
  link,      \* its connection: "ok" or "broken"
  retries,   \* local variable of exec_sql() and get_record()
  reply,     \* what the client is told
  \* what happened
  unwritten, \* documents whose file could not be written
  unremoved, \* documents whose file could not be removed
  repeated,  \* documents whose insert is retried although it was executed
  given_up   \* documents left without a row by a refused, failed or killed
             \* request, or that were not the first of their form

dbVars == <<rows, issued, up>>
mainVars == <<form, uploads>>
historyVars == <<unwritten, unremoved, repeated, given_up>>
vars == <<disk, dbVars, faults, mainVars, queue, pc, task, doc, link, retries,
          reply, historyVars>>

Docs == 1..uploads

\* A request: /ms/blob/add with its parameters, or download or delete.
Request(kind, id, d, title) == [kind |-> kind, id |-> id, doc |-> d, title |-> title]
NoRequest == Request("none", 0, NoDoc, "")

\* The main thread reads a form: the fields left, _save, the params.
Reading(fields, save, d, title) ==
  [busy |-> TRUE, fields |-> fields, save |-> save, doc |-> d, title |-> title]
NotReading == [busy |-> FALSE, fields |-> <<>>, save |-> TRUE, doc |-> NoDoc, title |-> ""]

Calls == {"insert", "find", "delete"}
PC == {"idle", "open", "unlink", "reply"} \cup Calls

Init ==
  /\ disk = <<>>
  /\ rows = <<>>
  /\ issued = 0
  /\ up = TRUE
  /\ faults = 0
  /\ form = NotReading
  /\ uploads = 0
  /\ queue = <<>>
  /\ pc = [w \in Workers |-> "idle"]
  /\ task = [w \in Workers |-> NoRequest]
  /\ doc = [w \in Workers |-> NoDoc]
  /\ link = [w \in Workers |-> "ok"]
  /\ retries = [w \in Workers |-> 0]
  /\ reply = [w \in Workers |-> "none"]
  /\ unwritten = {}
  /\ unremoved = {}
  /\ repeated = {}
  /\ given_up = {}

Without(f, x) == [y \in DOMAIN f \ {x} |-> f[y]]
With(f, x, v) == [y \in DOMAIN f \cup {x} |-> IF y = x THEN v ELSE f[y]]

-----------------------------------------------------------------------------
(* The main thread: read_request(), eof(), m_queue.push(). *)

\* The last packet of a form arrives.
ReceiveForm(fields) ==
  /\ ~form.busy
  /\ Len(queue) < MaxQueue
  /\ uploads < MaxUploads
  /\ form' = Reading(fields, TRUE, NoDoc, "")
  /\ UNCHANGED <<disk, dbVars, faults, uploads, queue, pc, task, doc, link,
                 retries, reply, historyVars>>

\* params.emplace("title", ...); an empty one in front of a file means that
\* the request will be refused, and that nothing need be saved.
TitleField(kind) ==
  /\ form' = [form EXCEPT
       !.fields = Tail(@),
       !.title = IF @ = "" THEN kind ELSE @,
       !.save = @ /\ kind # "no title"]
  /\ UNCHANGED <<disk, faults, uploads, unwritten, given_up>>

\* save_blob() logs its errors and returns nothing; a disk that is full takes
\* a part of the file.
SaveBlob(d) ==
  \/ /\ disk' = With(disk, d, "whole")
     /\ UNCHANGED <<faults, unwritten>>
  \/ /\ faults < MaxFaults
     /\ \/ disk' = With(disk, d, "part")
        \/ UNCHANGED disk
     /\ faults' = faults + 1
     /\ unwritten' = unwritten \cup {d}

\* Every file gets a uuid; only the first is a parameter of the request.
FileField ==
  LET d == uploads + 1 IN
  /\ uploads' = d
  /\ form' = [form EXCEPT !.fields = Tail(@), !.doc = IF @ = NoDoc THEN d ELSE @]
  /\ IF form.save THEN SaveBlob(d) ELSE UNCHANGED <<disk, faults, unwritten>>
  /\ given_up' = IF form.doc = NoDoc THEN given_up ELSE given_up \cup {d}

\* One turn of the loop of eof().
NextField ==
  /\ form.busy /\ form.fields # <<>>
  /\ LET kind == Head(form.fields)
     IN  IF kind = "file" THEN FileField ELSE TitleField(kind)
  /\ UNCHANGED <<dbVars, queue, pc, task, doc, link, retries, reply, unremoved,
                 repeated>>

\* The request is complete and goes to the pool.
Dispatch ==
  /\ form.busy /\ form.fields = <<>>
  /\ form' = NotReading
  /\ queue' = Append(queue, Request("add", 0, form.doc, form.title))
  /\ UNCHANGED <<disk, dbVars, faults, uploads, pc, task, doc, link, retries,
                 reply, historyVars>>

\* A download or a deletion: no body.
ReceiveGet(kind, id) ==
  /\ ~form.busy
  /\ Len(queue) < MaxQueue
  /\ queue' = Append(queue, Request(kind, id, NoDoc, ""))
  /\ UNCHANGED <<disk, dbVars, faults, mainVars, pc, task, doc, link, retries,
                 reply, historyVars>>

-----------------------------------------------------------------------------
(* The workers. *)

Goto(w, from, to) == pc[w] = from /\ pc' = [pc EXCEPT ![w] = to]

\* The request is over: what the client will be told.
Answer(w, from, what) ==
  /\ Goto(w, from, "reply")
  /\ reply' = [reply EXCEPT ![w] = what]

\* Documents without a row; when their upload or deletion has failed they are
\* nobody's.
Strays(docs) == {d \in docs \ {NoDoc} : \A id \in DOMAIN rows : rows[id] # d}

\* The oldest request goes to an idle worker.
Take(w, to) ==
  /\ queue # <<>>
  /\ Goto(w, "idle", to)
  /\ queue' = Tail(queue)
  /\ task' = [task EXCEPT ![w] = Head(queue)]
  /\ doc' = [doc EXCEPT ![w] = Head(queue).doc]

\* The services of the three requests have required fields.
Valid(r) == r.kind = "add" => r.doc # NoDoc /\ r.title = "title"

\* sessionUpdate() or validateInputs() refuses it.
Refuse(w) ==
  /\ Take(w, "reply")
  /\ reply' = [reply EXCEPT ![w] = "refused"]
  /\ given_up' = given_up \cup Strays({doc'[w]})
  /\ UNCHANGED <<disk, dbVars, faults, mainVars, link, retries, unwritten,
                 unremoved, repeated>>

\* Its service function is called.
Serve(w) ==
  /\ queue # <<>> /\ Valid(Head(queue))
  /\ Take(w, IF Head(queue).kind = "add" THEN "insert" ELSE "find")
  /\ retries' = [retries EXCEPT ![w] = 0]
  /\ UNCHANGED <<disk, dbVars, faults, mainVars, link, reply, historyVars>>

\* The statement of dbexec() inserts a row.
InsertRow(w) ==
  /\ issued' = issued + 1
  /\ rows' = With(rows, issued + 1, doc[w])

Insert(w) ==
  /\ link[w] = "ok"
  /\ Answer(w, "insert", "ok")
  /\ InsertRow(w)
  /\ UNCHANGED <<disk, up, faults, mainVars, queue, task, doc, link, retries,
                 historyVars>>

\* Mutant: the placeholder of the id is not replaced, the first row is taken.
FindFirst(w) ==
  /\ link[w] = "ok"
  /\ task[w].id \in DOMAIN rows
  /\ Goto(w, "find", IF task[w].kind = "get" THEN "open" ELSE "delete")
  /\ doc' = [doc EXCEPT ![w] =
       rows[CHOOSE id \in DOMAIN rows : \A other \in DOMAIN rows : id <= other]]
  /\ retries' = [retries EXCEPT ![w] = 0]
  /\ UNCHANGED <<disk, dbVars, faults, mainVars, queue, task, link, reply,
                 historyVars>>

\* get_record(): the document of the row.
Find(w) ==
  /\ link[w] = "ok"
  /\ task[w].id \in DOMAIN rows
  /\ Goto(w, "find", IF task[w].kind = "get" THEN "open" ELSE "delete")
  /\ doc' = [doc EXCEPT ![w] = rows[task[w].id]]
  /\ retries' = [retries EXCEPT ![w] = 0]
  /\ UNCHANGED <<disk, dbVars, faults, mainVars, queue, task, link, reply,
                 historyVars>>

\* An empty resultset: an empty file, or status ERROR.
FindNothing(w) ==
  /\ link[w] = "ok"
  /\ task[w].id \notin DOMAIN rows
  /\ Answer(w, "find", IF task[w].kind = "get" THEN "empty" ELSE "error")
  /\ UNCHANGED <<disk, dbVars, faults, mainVars, queue, task, doc, link,
                 retries, historyVars>>

\* downloadFile() opens and reads the file, or answers that it cannot: there is
\* none, or the process has no descriptor left for it.  The client is told the
\* same; the model tells the two apart for the properties.
Open(w) ==
  /\ \/ /\ Answer(w, "open", IF doc[w] \in DOMAIN disk THEN disk[doc[w]] ELSE "no file")
        /\ UNCHANGED faults
     \/ /\ faults < MaxFaults
        /\ faults' = faults + 1
        /\ Answer(w, "open", "not opened")
  /\ UNCHANGED <<disk, dbVars, mainVars, queue, task, doc, link, retries,
                 historyVars>>

\* Mutant: deleting no row is taken for an error.
DeleteOneRow(w) ==
  /\ link[w] = "ok"
  /\ IF task[w].id \in DOMAIN rows
       THEN Goto(w, "delete", "unlink") /\ UNCHANGED reply
       ELSE Answer(w, "delete", "error")
  /\ rows' = Without(rows, task[w].id)
  /\ UNCHANGED <<disk, issued, up, faults, mainVars, queue, task, doc, link,
                 retries, historyVars>>

\* deleteFile(): the row, whether or not it is still there.
Delete(w) ==
  /\ link[w] = "ok"
  /\ Goto(w, "delete", "unlink")
  /\ rows' = Without(rows, task[w].id)
  /\ UNCHANGED <<disk, issued, up, faults, mainVars, queue, task, doc, link,
                 retries, reply, historyVars>>

\* Mutant: the file is left where it is.
UnlinkNothing(w) ==
  /\ Answer(w, "unlink", "ok")
  /\ UNCHANGED <<disk, dbVars, faults, mainVars, queue, task, doc, link, retries,
                 historyVars>>

\* deleteFile(): std::remove, then status OK.  Nobody looks at what it returns:
\* a file that cannot be removed stays, and the answer is the same.
Unlink(w) ==
  /\ Answer(w, "unlink", "ok")
  /\ \/ /\ disk' = Without(disk, doc[w])
        /\ UNCHANGED <<faults, unremoved>>
     \/ /\ doc[w] \in DOMAIN disk
        /\ faults < MaxFaults
        /\ faults' = faults + 1
        /\ unremoved' = unremoved \cup {doc[w]}
        /\ UNCHANGED disk
  /\ UNCHANGED <<dbVars, mainVars, queue, task, doc, link, retries, unwritten,
                 repeated, given_up>>

\* Mutant: deleteFile() removes the file whatever exec_sql() returned.
FailAndUnlink(w) ==
  /\ pc[w] \in Calls
  /\ Answer(w, pc[w], IF pc[w] = "find" THEN "system error" ELSE "error")
  /\ given_up' = given_up \cup Strays({doc[w]})
  /\ disk' = IF pc[w] = "delete" THEN Without(disk, doc[w]) ELSE disk
  /\ UNCHANGED <<dbVars, faults, mainVars, queue, task, doc, link,
                 retries, unwritten, unremoved, repeated>>

\* What a statement that failed for good leads to: exec_sql() returns false,
\* get_record() throws.
Fail(w) ==
  /\ pc[w] \in Calls
  /\ Answer(w, pc[w], IF pc[w] = "find" THEN "system error" ELSE "error")
  /\ given_up' = given_up \cup Strays({doc[w]})
  /\ UNCHANGED <<disk, dbVars, faults, mainVars, queue, task, doc, link,
                 retries, unwritten, unremoved, repeated>>

\* The database rejects the statement.
Rejected(w) == link[w] = "ok" /\ Fail(w)

\* The connection is broken after MaxRetries retries.
GiveUp(w) == link[w] = "broken" /\ retries[w] = MaxRetries /\ Fail(w)

\* Mutant: the retries are counted and not limited.
RetryUnlimited(w) ==
  /\ pc[w] \in Calls
  /\ link[w] = "broken"
  /\ retries' = [retries EXCEPT ![w] = @ + 1]
  /\ link' = [link EXCEPT ![w] = IF up THEN "ok" ELSE "broken"]
  /\ UNCHANGED <<disk, dbVars, faults, mainVars, queue, pc, task, doc, reply,
                 historyVars>>

\* PQexec on a broken connection; reset_connection() and goto retry.
Retry(w) ==
  /\ pc[w] \in Calls
  /\ link[w] = "broken"
  /\ retries[w] < MaxRetries
  /\ retries' = [retries EXCEPT ![w] = @ + 1]
  /\ link' = [link EXCEPT ![w] = IF up THEN "ok" ELSE "broken"]
  /\ UNCHANGED <<disk, dbVars, faults, mainVars, queue, pc, task, doc, reply,
                 historyVars>>

\* The connection breaks when the statement has been executed.
ResultLost(w) ==
  /\ pc[w] \in Calls
  /\ link[w] = "ok"
  /\ faults < MaxFaults
  /\ faults' = faults + 1
  /\ link' = [link EXCEPT ![w] = "broken"]
  /\ CASE pc[w] = "insert" -> InsertRow(w) /\ repeated' = repeated \cup {doc[w]}
       [] pc[w] = "delete" -> rows' = Without(rows, task[w].id)
                              /\ UNCHANGED <<issued, repeated>>
       [] OTHER -> UNCHANGED <<rows, issued, repeated>>
  /\ UNCHANGED <<disk, up, mainVars, queue, pc, task, doc, retries, reply,
                 unwritten, unremoved, given_up>>

Reply(w) ==
  /\ Goto(w, "reply", "idle")
  /\ task' = [task EXCEPT ![w] = NoRequest]
  /\ doc' = [doc EXCEPT ![w] = NoDoc]
  /\ retries' = [retries EXCEPT ![w] = 0]
  /\ reply' = [reply EXCEPT ![w] = "none"]
  /\ UNCHANGED <<disk, dbVars, faults, mainVars, queue, link, historyVars>>

-----------------------------------------------------------------------------
(* The environment. *)

Break(w) ==
  /\ link[w] = "ok"
  /\ faults < MaxFaults
  /\ faults' = faults + 1
  /\ link' = [link EXCEPT ![w] = "broken"]
  /\ UNCHANGED <<disk, dbVars, mainVars, queue, pc, task, doc, retries, reply,
                 historyVars>>

Outage ==
  /\ up
  /\ faults < MaxFaults
  /\ faults' = faults + 1
  /\ up' = FALSE
  /\ link' = [w \in Workers |-> "broken"]
  /\ UNCHANGED <<disk, rows, issued, mainVars, queue, pc, task, doc, retries,
                 reply, historyVars>>

Restart ==
  /\ ~up
  /\ up' = TRUE
  /\ UNCHANGED <<disk, rows, issued, faults, mainVars, queue, pc, task, doc,
                 link, retries, reply, historyVars>>

\* The documents of the requests in the process.
InProgress ==
  {form.doc} \cup {queue[i].doc : i \in DOMAIN queue} \cup {doc[w] : w \in Workers}

\* The process is killed, and started again: files and rows are all that is
\* left.
Crash ==
  /\ faults < MaxFaults
  /\ faults' = faults + 1
  /\ given_up' = given_up \cup Strays(InProgress)
  /\ form' = NotReading
  /\ queue' = <<>>
  /\ pc' = [w \in Workers |-> "idle"]
  /\ task' = [w \in Workers |-> NoRequest]
  /\ doc' = [w \in Workers |-> NoDoc]
  /\ link' = [w \in Workers |-> IF up THEN "ok" ELSE "broken"]
  /\ retries' = [w \in Workers |-> 0]
  /\ reply' = [w \in Workers |-> "none"]
  /\ UNCHANGED <<disk, dbVars, uploads, unwritten, unremoved, repeated>>

-----------------------------------------------------------------------------
Main ==
  \/ \E fields \in Forms : ReceiveForm(fields)
  \/ NextField
  \/ Dispatch
  \/ \E kind \in {"get", "delete"}, id \in 1..issued + 1 : ReceiveGet(kind, id)

Worker(w) ==
  \/ Refuse(w) \/ Serve(w) \/ Insert(w) \/ Find(w) \/ FindNothing(w)
  \/ Open(w) \/ Delete(w) \/ Unlink(w) \/ Rejected(w) \/ GiveUp(w) \/ Retry(w)
  \/ ResultLost(w) \/ Reply(w)

Next ==
  \/ Main
  \/ \E w \in Workers : Worker(w) \/ Break(w)
  \/ Outage \/ Restart \/ Crash

Spec == Init /\ [][Next]_vars

-----------------------------------------------------------------------------
(* Properties. *)

\* The variables keep their types: rows and files are of documents that were
\* uploaded, and the retries stay within their limit.
TypeOK ==
  /\ disk \in [DOMAIN disk -> {"whole", "part"}] /\ DOMAIN disk \subseteq Docs
  /\ issued \in Nat
  /\ rows \in [DOMAIN rows -> Docs] /\ DOMAIN rows \subseteq 1..issued
  /\ up \in BOOLEAN /\ faults \in 0..MaxFaults
  /\ form.busy \in BOOLEAN /\ form.doc \in Docs \cup {NoDoc}
  /\ uploads \in Nat
  /\ \A i \in DOMAIN queue : queue[i].doc \in Docs \cup {NoDoc}
  /\ pc \in [Workers -> PC]
  /\ doc \in [Workers -> Docs \cup {NoDoc}]
  /\ link \in [Workers -> {"ok", "broken"}]
  /\ retries \in [Workers -> 0..MaxRetries]

\* Every row has its whole file, whatever was refused, retried, deleted twice
\* or killed half-way: a file is there before its row and until after it.  Only
\* a file that could not be written, or one that a repeated insert gave two
\* rows, may be missing.
RowHasFile ==
  \A id \in DOMAIN rows :
    \/ rows[id] \in DOMAIN disk /\ disk[rows[id]] = "whole"
    \/ rows[id] \in unwritten \cup repeated

\* A file without a row belongs to a request that is not over, or was left by
\* one that was refused, failed or killed, or was not the first of its form.  Of
\* the requests that were answered OK an upload leaves none, and a deletion only
\* the file that the system did not let it remove: it does not find that out, and
\* no later request knows of the file.
NoStrayFile ==
  \A d \in DOMAIN disk :
    d \in {rows[id] : id \in DOMAIN rows} \cup given_up \cup unremoved \cup InProgress

\* A download gives the document of the row that was asked for, whole if it was
\* written whole, and is not told that there is no file while the row is there;
\* a file that is there may still not be opened.
DownloadMatchesRow ==
  \A w \in Workers :
    pc[w] = "reply" /\ task[w].kind = "get"
      /\ reply[w] \in {"whole", "part", "no file", "not opened"} =>
    /\ task[w].id \in DOMAIN rows => rows[task[w].id] = doc[w]
    /\ reply[w] = "part" => doc[w] \in unwritten
    /\ reply[w] = "no file" /\ task[w].id \in DOMAIN rows =>
         doc[w] \in unwritten \cup repeated

\* A deletion that was answered OK is final: the row is gone and, unless the
\* system refused to remove it, so is the file, although another upload,
\* deletion or retry may be going on.
DeletionIsFinal ==
  \A w \in Workers :
    pc[w] = "reply" /\ task[w].kind = "delete" /\ reply[w] = "ok" =>
      /\ task[w].id \notin DOMAIN rows
      /\ doc[w] \in DOMAIN disk => doc[w] \in unremoved
=============================================================================
