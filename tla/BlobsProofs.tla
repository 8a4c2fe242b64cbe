------------------------------ MODULE BlobsProofs ------------------------------
(***************************************************************************)
(* Proofs about Blobs, for any number of workers, uploads, faults and      *)
(* crashes: rows have their files, files are accounted for, downloads and  *)
(* deletions are of the row that was asked for.                            *)
(*                                                                         *)
(* What carries them is who may still give a document a row: the request   *)
(* that uploaded it, in one place at a time, until the worker that inserts *)
(* it is done.                                                             *)
(***************************************************************************)
EXTENDS Blobs, SequenceTheorems, TLAPS

-----------------------------------------------------------------------------
(* The inductive invariant. *)

Titles == FieldKinds \cup {""}
Kinds == {"none", "add", "get", "delete"}
Replies == {"none", "ok", "error", "system error", "refused", "empty",
            "whole", "part", "no file", "not opened"}

StoreTypes ==
  /\ uploads \in Nat /\ issued \in Nat
  /\ disk \in [DOMAIN disk -> {"whole", "part"}] /\ DOMAIN disk \subseteq Docs
  /\ rows \in [DOMAIN rows -> Docs] /\ DOMAIN rows \subseteq 1..issued
  /\ up \in BOOLEAN /\ faults \in 0..MaxFaults

MainTypes ==
  /\ form \in [busy : BOOLEAN, fields : Seq(FieldKinds), save : BOOLEAN,
               doc : Nat, title : Titles]
  /\ form.doc \in 0..uploads
  /\ queue \in Seq([kind : Kinds, id : Nat, doc : Nat, title : Titles])
  /\ \A i \in DOMAIN queue : queue[i].doc \in 0..uploads

WorkerTypes ==
  /\ pc \in [Workers -> PC]
  /\ task \in [Workers -> [kind : Kinds, id : Nat, doc : Nat, title : Titles]]
  /\ doc \in [Workers -> 0..uploads]
  /\ link \in [Workers -> {"ok", "broken"}]
  /\ retries \in [Workers -> 0..MaxRetries]
  /\ reply \in [Workers -> Replies]

Types == StoreTypes /\ MainTypes /\ WorkerTypes

\* What the main thread knows of the form: an empty title stops the saving, and
\* there is no other title to make up for it.
FormKnown ==
  /\ ~form.busy => form.doc = NoDoc
  /\ ~form.save => form.title = "no title"
  /\ form.title # "" => \A i \in DOMAIN form.fields : form.fields[i] = "file"
  /\ \A i, j \in DOMAIN form.fields :
       form.fields[i] # "file" /\ form.fields[j] # "file" => i = j
FormInv ==
  /\ FormKnown
  /\ \A i \in DOMAIN queue :
       /\ queue[i].kind \in {"add", "get", "delete"}
       /\ queue[i].kind # "add" => queue[i].doc = NoDoc

\* What the main thread holds, nobody else does.
MainOwns ==
  /\ \A i \in DOMAIN queue :
       queue[i].doc # NoDoc =>
         /\ queue[i].doc # form.doc
         /\ \A j \in DOMAIN queue : queue[j].doc = queue[i].doc => i = j
         /\ \A id \in DOMAIN rows : rows[id] # queue[i].doc
         /\ \A w \in Workers : doc[w] # queue[i].doc
  /\ form.doc # NoDoc =>
       /\ \A id \in DOMAIN rows : rows[id] # form.doc
       /\ \A w \in Workers : doc[w] # form.doc

\* A document has one row, and one worker that may insert or remove it, unless
\* its insert was repeated.
OneRow ==
  \A i, j \in DOMAIN rows : rows[i] = rows[j] => i = j \/ rows[i] \in repeated
OneInserter ==
  \A w \in Workers : pc[w] = "insert" /\ doc[w] \notin repeated =>
    /\ \A id \in DOMAIN rows : rows[id] # doc[w]
    /\ \A v \in Workers :
         pc[v] \in {"insert", "delete", "unlink"} /\ doc[v] = doc[w] => v = w

\* Where a worker is fits its request, its document and the rows; an id that
\* was found was issued and is not issued again.
Fits(w) ==
  /\ pc[w] = "insert" => task[w].kind = "add" /\ doc[w] # NoDoc
  /\ pc[w] = "find" => task[w].kind \in {"get", "delete"} /\ doc[w] = NoDoc
  /\ pc[w] \in {"open", "delete", "unlink"} =>
       /\ task[w].id \in 1..issued /\ doc[w] # NoDoc
       /\ task[w].id \in DOMAIN rows => rows[task[w].id] = doc[w]
  /\ pc[w] = "open" => task[w].kind = "get"
  /\ pc[w] \in {"delete", "unlink"} => task[w].kind = "delete"
  /\ pc[w] \in {"delete", "unlink"} =>
       \A id \in DOMAIN rows :
         rows[id] = doc[w] => id = task[w].id \/ doc[w] \in repeated
  /\ pc[w] = "unlink" => task[w].id \notin DOMAIN rows
  /\ pc[w] = "reply" /\ task[w].kind = "delete" /\ reply[w] = "ok" =>
       /\ task[w].id \in 1..issued /\ task[w].id \notin DOMAIN rows
       /\ doc[w] \in Docs
       /\ doc[w] \in DOMAIN disk => doc[w] \in unremoved
  /\ pc[w] = "reply" /\ task[w].kind = "get"
       /\ reply[w] \in {"whole", "part", "no file", "not opened"} =>
       /\ task[w].id \in 1..issued
       /\ task[w].id \in DOMAIN rows => rows[task[w].id] = doc[w]
       /\ reply[w] = "part" => doc[w] \in unwritten
       /\ reply[w] = "no file" /\ task[w].id \in DOMAIN rows =>
            doc[w] \in unwritten \cup repeated
WorkerInv == \A w \in Workers : Fits(w)

OwnerInv == FormInv /\ MainOwns /\ OneRow /\ OneInserter /\ WorkerInv

\* Documents that have a row, or may get one, have their file.
Saved(d) ==
  \/ d \in DOMAIN disk /\ disk[d] = "whole"
  \/ d \in unwritten \cup repeated
SavedInv ==
  /\ \A d \in DOMAIN disk : disk[d] = "part" => d \in unwritten
  /\ \A id \in DOMAIN rows : Saved(rows[id])
  /\ form.doc # NoDoc => Saved(form.doc) \/ form.title = "no title"
  /\ \A i \in DOMAIN queue : Valid(queue[i]) /\ queue[i].kind = "add" => Saved(queue[i].doc)
  /\ \A w \in Workers : pc[w] = "insert" => Saved(doc[w])

\* Files are of documents that have a row, are in work or were given up.
KeptInv ==
  \A d \in DOMAIN disk :
    \/ \E id \in DOMAIN rows : rows[id] = d
    \/ d \in given_up \cup unremoved
    \/ d = form.doc
    \/ \E i \in DOMAIN queue : queue[i].doc = d
    \/ \E w \in Workers : pc[w] \in {"insert", "delete", "unlink"} /\ doc[w] = d

IInv == Types /\ OwnerInv /\ SavedInv /\ KeptInv

-----------------------------------------------------------------------------
(* The initial state. *)

LEMMA EmptyDomain == DOMAIN <<>> = {}
<1>1. <<>> \in Seq({}) /\ Len(<<>>) = 0
  BY EmptySeq
<1> QED
  BY <1>1

LEMMA InitInv == Init => IInv
<1>1. SUFFICES ASSUME Init PROVE IInv
  OBVIOUS
<1>2. DOMAIN disk = {} /\ DOMAIN rows = {} /\ DOMAIN queue = {} /\ DOMAIN form.fields = {}
  BY <1>1, EmptyDomain DEF Init, NotReading
<1>3. StoreTypes
  BY <1>1, <1>2, BoundsAssumption DEF Init, StoreTypes, Docs
<1>4. MainTypes
  <2>1. /\ <<>> \in Seq(FieldKinds)
        /\ <<>> \in Seq([kind : Kinds, id : Nat, doc : Nat, title : Titles])
    BY EmptySeq
  <2>2. form \in [busy : BOOLEAN, fields : Seq(FieldKinds), save : BOOLEAN,
                   doc : Nat, title : Titles] /\ form.doc = 0
    BY <1>1, <2>1 DEF Init, NotReading, Titles, NoDoc
  <2> QED
    BY <1>1, <1>2, <2>1, <2>2 DEF Init, MainTypes
<1>5. WorkerTypes
  <2>1. NoRequest \in [kind : Kinds, id : Nat, doc : Nat, title : Titles]
    BY DEF NoRequest, Request, Kinds, Titles, NoDoc
  <2>2. 0 \in 0..0 /\ 0 \in 0..MaxRetries
    BY BoundsAssumption
  <2> QED
    BY <1>1, <2>1, <2>2 DEF Init, WorkerTypes, PC, Calls, Replies, NoDoc
<1>6. OwnerInv
  BY <1>1, <1>2 DEF Init, NotReading, OwnerInv, FormInv, FormKnown, MainOwns, OneRow, OneInserter,
                    WorkerInv, Fits
<1>7. SavedInv /\ KeptInv
  BY <1>1, <1>2 DEF Init, NotReading, SavedInv, KeptInv
<1> QED
  BY <1>3, <1>4, <1>5, <1>6, <1>7 DEF IInv, Types

-----------------------------------------------------------------------------
(* The stores. *)

LEMMA WithFacts ==
  ASSUME NEW f, NEW x, NEW v
  PROVE  /\ DOMAIN With(f, x, v) = DOMAIN f \cup {x}
         /\ With(f, x, v)[x] = v
         /\ \A y \in DOMAIN f : y # x => With(f, x, v)[y] = f[y]
BY DEF With

LEMMA WithoutFacts ==
  ASSUME NEW f, NEW x
  PROVE  /\ DOMAIN Without(f, x) = DOMAIN f \ {x}
         /\ \A y \in DOMAIN f : y # x => Without(f, x)[y] = f[y]
BY DEF Without

LEMMA WithType ==
  ASSUME NEW S, NEW f, f \in [DOMAIN f -> S], NEW x, NEW v \in S
  PROVE  With(f, x, v) \in [DOMAIN With(f, x, v) -> S]
BY DEF With

LEMMA WithoutType ==
  ASSUME NEW S, NEW f, f \in [DOMAIN f -> S], NEW x
  PROVE  Without(f, x) \in [DOMAIN Without(f, x) -> S]
BY DEF Without

-----------------------------------------------------------------------------
(* Types. *)

RequestTypes == [kind : Kinds, id : Nat, doc : Nat, title : Titles]
FormTypes == [busy : BOOLEAN, fields : Seq(FieldKinds), save : BOOLEAN, doc : Nat, title : Titles]

\* The document numbers in use stay numbers in use.
LEMMA WorkersUntouched ==
  ASSUME StoreTypes, WorkerTypes, UNCHANGED <<pc, task, doc, link, retries, reply>>,
         uploads' \in Nat, uploads <= uploads'
  PROVE  WorkerTypes'
<1>1. 0..uploads \subseteq 0..uploads'
  BY DEF StoreTypes
<1> QED
  BY <1>1 DEF WorkerTypes

LEMMA Queued ==
  ASSUME MainTypes, NEW r \in RequestTypes, r.doc \in 0..uploads,
         queue' = Append(queue, r), UNCHANGED uploads
  PROVE  /\ queue' \in Seq(RequestTypes)
         /\ \A i \in DOMAIN queue' : queue'[i].doc \in 0..uploads'
<1>1. queue \in Seq(RequestTypes) /\ \A i \in DOMAIN queue : queue[i].doc \in 0..uploads
  BY DEF MainTypes, RequestTypes
<1>2. /\ queue' \in Seq(RequestTypes) /\ Len(queue') = Len(queue) + 1
      /\ \A i \in 1..Len(queue) : queue'[i] = queue[i]
      /\ queue'[Len(queue) + 1] = r
  BY <1>1, AppendProperties
<1>3. DOMAIN queue = 1..Len(queue) /\ DOMAIN queue' = 1..Len(queue) + 1 /\ Len(queue) \in Nat
  BY <1>1, <1>2, LenProperties
<1> QED
  BY <1>1, <1>2, <1>3

LEMMA FormTypesStep ==
  ASSUME Types, NEW fields \in Forms, ReceiveForm(fields)
  PROVE  Types'
<1>1. fields \in Seq(FieldKinds)
  BY FormsAssumption
<1>2. StoreTypes'
  BY DEF Types, StoreTypes, ReceiveForm, dbVars, historyVars, Docs
<1>3. form' \in FormTypes /\ form'.doc = 0
  BY <1>1 DEF ReceiveForm, Reading, FormTypes, Titles, NoDoc
<1>4. UNCHANGED <<uploads, queue, pc, task, doc, link, retries, reply>>
  BY DEF ReceiveForm
<1>5. MainTypes'
  <2>1. uploads \in Nat
    BY DEF Types, StoreTypes
  <2> QED
    BY <1>3, <1>4, <2>1 DEF Types, MainTypes, FormTypes
<1>6. WorkerTypes'
  BY <1>4, WorkersUntouched DEF Types, StoreTypes
<1> QED
  BY <1>2, <1>5, <1>6 DEF Types

LEMMA FieldTypesStep ==
  ASSUME Types, NextField
  PROVE  Types'
<1>1. /\ form \in FormTypes /\ form.fields # <<>>
      /\ Head(form.fields) \in FieldKinds /\ Tail(form.fields) \in Seq(FieldKinds)
  BY HeadTailProperties DEF Types, MainTypes, FormTypes, NextField
<1>2. uploads \in Nat /\ uploads' \in Nat /\ uploads <= uploads'
  BY DEF Types, StoreTypes, NextField, TitleField, FileField
<1>3. WorkerTypes'
  BY <1>2, WorkersUntouched DEF Types, NextField
<1>4. UNCHANGED <<rows, issued, up, queue>>
  BY DEF NextField, dbVars
<1>5. ASSUME TitleField(Head(form.fields)) PROVE StoreTypes' /\ MainTypes'
  <2>1. form' \in FormTypes /\ form'.doc = form.doc
    BY <1>1, <1>5 DEF TitleField, FormTypes, Titles
  <2>2. StoreTypes'
    BY <1>4, <1>5 DEF Types, StoreTypes, TitleField, Docs
  <2> QED
    BY <1>4, <1>5, <2>1, <2>2 DEF Types, MainTypes, FormTypes, TitleField
<1>6. ASSUME FileField PROVE StoreTypes' /\ MainTypes'
  <2>1. uploads' = uploads + 1
    BY <1>6 DEF FileField
  <2>2. 0..uploads \subseteq 0..uploads' /\ Docs \subseteq Docs' /\ uploads' \in Docs'
    BY <1>2, <2>1 DEF Docs
  <2>3. /\ \/ disk' = With(disk, uploads', "whole")
           \/ disk' = With(disk, uploads', "part")
           \/ disk' = disk
        /\ faults' = faults \/ (faults < MaxFaults /\ faults' = faults + 1)
    <3>1. CASE SaveBlob(uploads + 1)
      BY <2>1, <3>1 DEF SaveBlob
    <3>2. CASE UNCHANGED <<disk, faults, unwritten>>
      BY <3>2
    <3> QED
      BY <1>6, <3>1, <3>2 DEF FileField
  <2>4. disk \in [DOMAIN disk -> {"whole", "part"}] /\ DOMAIN disk \subseteq Docs
    BY DEF Types, StoreTypes
  <2>5. disk' \in [DOMAIN disk' -> {"whole", "part"}] /\ DOMAIN disk' \subseteq Docs'
    <3>1. \A v \in {"whole", "part"} :
            /\ With(disk, uploads', v) \in [DOMAIN With(disk, uploads', v) -> {"whole", "part"}]
            /\ DOMAIN With(disk, uploads', v) = DOMAIN disk \cup {uploads'}
      BY <2>4, WithType, WithFacts
    <3> QED
      BY <2>2, <2>3, <2>4, <3>1
  <2>6. StoreTypes'
    <3>1. faults' \in 0..MaxFaults
      BY <2>3, BoundsAssumption DEF Types, StoreTypes
    <3>2. rows' \in [DOMAIN rows' -> Docs'] /\ DOMAIN rows' \subseteq 1..issued'
      BY <1>4, <2>2 DEF Types, StoreTypes
    <3> QED
      BY <1>2, <1>4, <2>5, <3>1, <3>2 DEF Types, StoreTypes
  <2>7. form' \in FormTypes /\ form'.doc \in 0..uploads'
    <3>1. form.doc \in 0..uploads
      BY DEF Types, MainTypes
    <3> QED
      <4>1. form' = [form EXCEPT
              !.fields = Tail(@), !.doc = IF @ = NoDoc THEN uploads + 1 ELSE @]
        BY <1>6 DEF FileField
      <4>2. /\ (IF form.doc = NoDoc THEN uploads + 1 ELSE form.doc) \in Nat
            /\ (IF form.doc = NoDoc THEN uploads + 1 ELSE form.doc) \in 0..uploads'
        BY <1>2, <2>1, <3>1
      <4> QED
        BY <1>1, <4>1, <4>2 DEF FormTypes
  <2>8. MainTypes'
    BY <1>4, <2>2, <2>7 DEF Types, MainTypes, FormTypes
  <2> QED
    BY <2>6, <2>8
<1> QED
  BY <1>3, <1>5, <1>6 DEF Types, NextField

LEMMA QueueTypesStep ==
  ASSUME Types,
         \/ Dispatch
         \/ \E kind \in {"get", "delete"}, id \in 1..issued + 1 : ReceiveGet(kind, id)
  PROVE  Types'
<1>1. UNCHANGED <<disk, rows, issued, up, faults, uploads, pc, task, doc, link, retries, reply>>
  BY DEF Dispatch, ReceiveGet, dbVars, mainVars
<1>2. StoreTypes'
  BY <1>1 DEF Types, StoreTypes, Docs
<1>3. WorkerTypes'
  BY <1>1, <1>2, WorkersUntouched DEF Types, StoreTypes
<1>4. form' \in FormTypes /\ form'.doc \in 0..uploads'
  <2>1. <<>> \in Seq(FieldKinds)
    BY EmptySeq
  <2>2. NotReading \in FormTypes /\ NotReading.doc = 0
    BY <2>1 DEF NotReading, FormTypes, Titles, NoDoc
  <2>3. form' = NotReading \/ form' = form
    BY DEF Dispatch, ReceiveGet, mainVars
  <2>4. form \in FormTypes /\ form.doc \in 0..uploads /\ uploads \in Nat
    BY DEF Types, MainTypes, StoreTypes, FormTypes
  <2> QED
    BY <1>1, <2>2, <2>3, <2>4
<1>5. \E r \in RequestTypes : r.doc \in 0..uploads /\ queue' = Append(queue, r)
  <2>1. ASSUME Dispatch PROVE \E r \in RequestTypes : r.doc \in 0..uploads /\ queue' = Append(queue, r)
    <3>1. form.doc \in Nat /\ form.doc \in 0..uploads /\ form.title \in Titles
      BY DEF Types, MainTypes
    <3>2. Request("add", 0, form.doc, form.title) \in RequestTypes
      BY <3>1 DEF Request, RequestTypes, Kinds
    <3>3. Request("add", 0, form.doc, form.title).doc = form.doc
      BY DEF Request
    <3> QED
      BY <2>1, <3>1, <3>2, <3>3 DEF Dispatch
  <2>2. ASSUME NEW kind \in {"get", "delete"}, NEW id \in 1..issued + 1, ReceiveGet(kind, id)
        PROVE  \E r \in RequestTypes : r.doc \in 0..uploads /\ queue' = Append(queue, r)
    <3>1. uploads \in Nat /\ id \in Nat
      BY DEF Types, StoreTypes
    <3>2. Request(kind, id, NoDoc, "") \in RequestTypes
      BY <3>1 DEF Request, RequestTypes, Kinds, Titles, NoDoc
    <3>3. Request(kind, id, NoDoc, "").doc \in 0..uploads
      BY <3>1 DEF Request, NoDoc
    <3> QED
      BY <2>2, <3>2, <3>3 DEF ReceiveGet
  <2> QED
    BY <2>1, <2>2
<1>6. MainTypes'
  BY <1>1, <1>4, <1>5, Queued DEF Types, MainTypes, FormTypes, RequestTypes
<1> QED
  BY <1>2, <1>3, <1>6 DEF Types

LEMMA TakeTypes ==
  ASSUME Types, NEW w \in Workers, NEW to \in PC, Take(w, to), UNCHANGED <<form, uploads>>
  PROVE  /\ MainTypes'
         /\ pc' \in [Workers -> PC]
         /\ task' \in [Workers -> RequestTypes]
         /\ doc' \in [Workers -> 0..uploads]
<1>1. /\ queue \in Seq(RequestTypes) /\ queue # <<>>
      /\ \A i \in 1..Len(queue) : queue[i].doc \in 0..uploads
  BY LenProperties DEF Types, MainTypes, RequestTypes, Take
<1>2. /\ Head(queue) \in RequestTypes /\ Head(queue).doc \in 0..uploads
      /\ queue' \in Seq(RequestTypes)
      /\ \A i \in 1..Len(queue') : queue'[i].doc \in 0..uploads
  <2>1. Head(queue) = queue[1] /\ Len(queue) \in Nat \ {0}
    BY <1>1, EmptySeq, LenProperties
  <2>2. /\ Tail(queue) \in Seq(RequestTypes) /\ Len(Tail(queue)) = Len(queue) - 1
        /\ \A i \in 1..Len(Tail(queue)) : Tail(queue)[i] = queue[i + 1]
        /\ Head(queue) \in RequestTypes
    BY <1>1, HeadTailProperties
  <2> QED
    BY <1>1, <2>1, <2>2 DEF Take
<1>3. MainTypes'
  BY <1>2, LenProperties DEF Types, MainTypes, RequestTypes
<1>4. /\ pc' = [pc EXCEPT ![w] = to]
      /\ task' = [task EXCEPT ![w] = Head(queue)]
      /\ doc' = [doc EXCEPT ![w] = Head(queue).doc]
  BY DEF Take, Goto
<1> QED
  BY <1>2, <1>3, <1>4 DEF Types, WorkerTypes, RequestTypes

LEMMA RowTypes ==
  ASSUME Types, UNCHANGED uploads,
         \/ \E w \in Workers : doc[w] # NoDoc /\ InsertRow(w)
         \/ \E id \in Nat : rows' = Without(rows, id) /\ UNCHANGED issued
         \/ UNCHANGED <<rows, issued>>
  PROVE  issued' \in Nat /\ rows' \in [DOMAIN rows' -> Docs] /\ DOMAIN rows' \subseteq 1..issued'
<1>1. /\ uploads \in Nat /\ issued \in Nat
      /\ rows \in [DOMAIN rows -> Docs] /\ DOMAIN rows \subseteq 1..issued
  BY DEF Types, StoreTypes
<1>2. ASSUME NEW w \in Workers, doc[w] # NoDoc, InsertRow(w)
      PROVE  issued' \in Nat /\ rows' \in [DOMAIN rows' -> Docs] /\ DOMAIN rows' \subseteq 1..issued'
  <2>1. doc[w] \in Docs
    BY <1>1, <1>2 DEF Types, WorkerTypes, Docs, NoDoc
  <2>2. issued' = issued + 1 /\ rows' = With(rows, issued', doc[w])
    BY <1>2 DEF InsertRow
  <2>3. rows' \in [DOMAIN rows' -> Docs] /\ DOMAIN rows' = DOMAIN rows \cup {issued'}
    BY <1>1, <2>1, <2>2, WithType, WithFacts
  <2> QED
    BY <1>1, <2>2, <2>3
<1>3. ASSUME NEW id \in Nat, rows' = Without(rows, id), UNCHANGED issued
      PROVE  issued' \in Nat /\ rows' \in [DOMAIN rows' -> Docs] /\ DOMAIN rows' \subseteq 1..issued'
  BY <1>1, <1>3, WithoutType, WithoutFacts
<1> QED
  BY <1>1, <1>2, <1>3

\* Refuse and Serve take a request from the queue.
LEMMA TakingTypesStep ==
  ASSUME Types, NEW w \in Workers, Refuse(w) \/ Serve(w)
  PROVE  Types'
<1>1. UNCHANGED <<disk, rows, issued, up, faults, form, uploads, link>>
  BY DEF Refuse, Serve, dbVars, mainVars
<1>2. StoreTypes'
  BY <1>1 DEF Types, StoreTypes, Docs
<1>3. \E to \in PC : Take(w, to)
  BY DEF Refuse, Serve, PC, Calls
<1>4. /\ MainTypes' /\ pc' \in [Workers -> PC] /\ task' \in [Workers -> RequestTypes]
      /\ doc' \in [Workers -> 0..uploads]
  BY <1>1, <1>3, TakeTypes
<1>5. retries' \in [Workers -> 0..MaxRetries] /\ reply' \in [Workers -> Replies]
  <2>1. retries' = retries \/ retries' = [retries EXCEPT ![w] = 0]
    BY DEF Refuse, Serve
  <2>2. reply' = reply \/ reply' = [reply EXCEPT ![w] = "refused"]
    BY DEF Refuse, Serve
  <2>3. 0 \in 0..MaxRetries /\ "refused" \in Replies
    BY BoundsAssumption DEF Replies
  <2>4. retries \in [Workers -> 0..MaxRetries] /\ reply \in [Workers -> Replies]
    BY DEF Types, WorkerTypes
  <2> QED
    BY <2>1, <2>2, <2>3, <2>4
<1> QED
  BY <1>1, <1>2, <1>4, <1>5 DEF Types, WorkerTypes, RequestTypes

\* The other steps of a worker leave the queue alone.
WorkingStep(w) ==
  \/ Insert(w) \/ Find(w) \/ FindNothing(w) \/ Open(w) \/ Delete(w) \/ Unlink(w)
  \/ Fail(w) \/ Retry(w) \/ ResultLost(w) \/ Reply(w) \/ Break(w)

LEMMA WorkingTypesStep ==
  ASSUME Types, WorkerInv, NEW w \in Workers, WorkingStep(w)
  PROVE  Types'
<1> USE DEF WorkingStep, Goto, Answer
<1>1. UNCHANGED <<up, form, uploads, queue>>
  BY DEF Insert, Find, FindNothing, Open, Delete, Unlink, Fail, Retry, ResultLost, Reply,
         Break, dbVars, mainVars
<1>2. MainTypes'
  BY <1>1 DEF Types, MainTypes
<1>3. disk' = disk \/ disk' = Without(disk, doc[w])
  <2>1. CASE Unlink(w)
    BY <2>1 DEF Unlink
  <2>2. CASE ~Unlink(w)
    BY <2>2 DEF Insert, Find, FindNothing, Open, Delete, Fail, Retry, ResultLost, Reply, Break
  <2> QED
    BY <2>1, <2>2
<1>4. disk' \in [DOMAIN disk' -> {"whole", "part"}] /\ DOMAIN disk' \subseteq Docs
  <2>1. disk \in [DOMAIN disk -> {"whole", "part"}] /\ DOMAIN disk \subseteq Docs
    BY DEF Types, StoreTypes
  <2>2. /\ Without(disk, doc[w]) \in [DOMAIN Without(disk, doc[w]) -> {"whole", "part"}]
        /\ DOMAIN Without(disk, doc[w]) = DOMAIN disk \ {doc[w]}
    BY <2>1, WithoutType, WithoutFacts
  <2>3. Docs' = Docs
    BY <1>1 DEF Docs
  <2> QED
    BY <1>3, <2>1, <2>2, <2>3
<1>5. faults' = faults \/ (faults < MaxFaults /\ faults' = faults + 1)
  BY DEF Insert, Find, FindNothing, Open, Delete, Unlink, Fail, Retry, ResultLost, Reply, Break
<1>6. \/ doc[w] # NoDoc /\ InsertRow(w)
      \/ rows' = Without(rows, task[w].id) /\ UNCHANGED issued
      \/ UNCHANGED <<rows, issued>>
  <2>1. pc[w] = "insert" => doc[w] # NoDoc
    BY DEF WorkerInv, Fits
  <2>2. CASE Insert(w)
    BY <2>2, <2>1 DEF Insert
  <2>3. CASE ResultLost(w)
    BY <2>3, <2>1 DEF ResultLost, Calls
  <2>4. CASE Delete(w)
    BY <2>4 DEF Delete
  <2>5. CASE ~Insert(w) /\ ~ResultLost(w) /\ ~Delete(w)
    BY <2>5 DEF Find, FindNothing, Open, Unlink, Fail, Retry, Reply, Break, dbVars
  <2> QED
    BY <2>2, <2>3, <2>4, <2>5
<1>7. task[w].id \in Nat
  BY DEF Types, WorkerTypes
<1>8. issued' \in Nat /\ rows' \in [DOMAIN rows' -> Docs] /\ DOMAIN rows' \subseteq 1..issued'
  BY <1>1, <1>6, <1>7, RowTypes
<1>9. StoreTypes'
  BY <1>1, <1>4, <1>5, <1>8, BoundsAssumption DEF Types, StoreTypes, Docs
<1>10. pc' \in [Workers -> PC] /\ link' \in [Workers -> {"ok", "broken"}]
  BY DEF Types, WorkerTypes, Insert, Find, FindNothing, Open, Delete, Unlink, Fail, Retry,
         ResultLost, Reply, Break, PC, Calls
<1>11. task' \in [Workers -> RequestTypes] /\ doc' \in [Workers -> 0..uploads]
  <2>1. NoRequest \in RequestTypes
    BY DEF NoRequest, Request, RequestTypes, Kinds, Titles, NoDoc
  <2>2. task' = task \/ task' = [task EXCEPT ![w] = NoRequest]
    BY DEF Insert, Find, FindNothing, Open, Delete, Unlink, Fail, Retry, ResultLost, Reply, Break
  <2>3. \E d \in 0..uploads : doc' = doc \/ doc' = [doc EXCEPT ![w] = d]
    <3>1. uploads \in Nat /\ \A id \in DOMAIN rows : rows[id] \in 0..uploads
      BY DEF Types, StoreTypes, Docs
    <3>2. CASE Find(w)
      BY <3>1, <3>2 DEF Find
    <3>3. CASE Reply(w)
      <4>1. doc' = [doc EXCEPT ![w] = 0] /\ 0 \in 0..uploads
        BY <3>1, <3>3 DEF Reply, NoDoc
      <4> QED
        BY <4>1
    <3>4. CASE ~Find(w) /\ ~Reply(w)
      <4>1. doc' = doc
        BY <3>4 DEF Insert, FindNothing, Open, Delete, Unlink, Fail, Retry, ResultLost, Break
      <4> QED
        BY <3>1, <4>1
    <3> QED
      BY <3>2, <3>3, <3>4
  <2> QED
    BY <2>1, <2>2, <2>3 DEF Types, WorkerTypes, RequestTypes
<1>12. retries' \in [Workers -> 0..MaxRetries]
  <2>1. \E r \in 0..MaxRetries : retries' = retries \/ retries' = [retries EXCEPT ![w] = r]
    <3>1. MaxRetries \in Nat /\ retries[w] \in 0..MaxRetries
      BY BoundsAssumption DEF Types, WorkerTypes
    <3>2. CASE Find(w) \/ Reply(w)
      BY <3>1, <3>2 DEF Find, Reply
    <3>3. CASE Retry(w)
      <4>1. /\ retries' = [retries EXCEPT ![w] = retries[w] + 1]
            /\ retries[w] + 1 \in 0..MaxRetries
        BY <3>1, <3>3 DEF Retry
      <4> QED
        BY <4>1
    <3>4. CASE ~Find(w) /\ ~Reply(w) /\ ~Retry(w)
      <4>1. retries' = retries
        BY <3>4 DEF Insert, FindNothing, Open, Delete, Unlink, Fail, ResultLost, Break
      <4> QED
        BY <3>1, <4>1
    <3> QED
      BY <3>2, <3>3, <3>4
  <2> QED
    BY <2>1 DEF Types, WorkerTypes
<1>13. reply' \in [Workers -> Replies]
  <2>1. \E r \in Replies : reply' = reply \/ reply' = [reply EXCEPT ![w] = r]
    BY DEF Types, StoreTypes, Insert, Find, FindNothing, Open, Delete, Unlink, Fail, Retry,
           ResultLost, Reply, Break, Replies
  <2> QED
    BY <2>1 DEF Types, WorkerTypes
<1> QED
  BY <1>1, <1>2, <1>9, <1>10, <1>11, <1>12, <1>13 DEF Types, WorkerTypes, RequestTypes

LEMMA TypesStep == IInv /\ [Next]_vars => Types'
<1>1. SUFFICES ASSUME IInv, [Next]_vars PROVE Types'
  OBVIOUS
<1>2. Types /\ WorkerInv
  BY <1>1 DEF IInv, OwnerInv
<1>3. CASE Main
  BY <1>2, <1>3, FormTypesStep, FieldTypesStep, QueueTypesStep DEF Main
<1>4. ASSUME NEW w \in Workers, Worker(w) \/ Break(w) PROVE Types'
  <2>1. CASE Refuse(w) \/ Serve(w)
    BY <1>2, <2>1, TakingTypesStep
  <2>2. CASE WorkingStep(w)
    BY <1>2, <2>2, WorkingTypesStep
  <2> QED
    BY <1>4, <2>1, <2>2 DEF Worker, WorkingStep, Rejected, GiveUp
<1>5. CASE Outage \/ Restart \/ UNCHANGED vars
  <2>1. UNCHANGED <<disk, rows, issued, form, uploads, queue, pc, task, doc, retries, reply>>
    BY <1>5 DEF Outage, Restart, vars, dbVars, mainVars
  <2>2. /\ up' \in BOOLEAN
        /\ faults' = faults \/ (faults < MaxFaults /\ faults' = faults + 1)
        /\ link' = link \/ link' = [w \in Workers |-> "broken"]
    BY <1>2, <1>5 DEF Types, StoreTypes, Outage, Restart, vars, dbVars
  <2>3. StoreTypes'
    BY <1>2, <2>1, <2>2, BoundsAssumption DEF Types, StoreTypes, Docs
  <2>4. MainTypes'
    BY <1>2, <2>1 DEF Types, MainTypes
  <2>5. WorkerTypes'
    BY <1>2, <2>1, <2>2 DEF Types, WorkerTypes
  <2> QED
    BY <2>3, <2>4, <2>5 DEF Types
<1>6. CASE Crash
  <2>1. StoreTypes'
    BY <1>2, <1>6, BoundsAssumption DEF Types, StoreTypes, Crash, dbVars, Docs
  <2>2. <<>> \in Seq(FieldKinds) /\ <<>> \in Seq(RequestTypes) /\ DOMAIN <<>> = {}
    BY EmptySeq, EmptyDomain
  <2>3. uploads \in Nat /\ UNCHANGED uploads
    BY <1>2, <1>6 DEF Types, StoreTypes, Crash
  <2>4. NotReading \in FormTypes /\ NotReading.doc = 0
    BY <2>2 DEF NotReading, FormTypes, Titles, NoDoc
  <2>5. MainTypes'
    BY <1>6, <2>2, <2>3, <2>4 DEF MainTypes, Crash, FormTypes, RequestTypes
  <2>6. NoRequest \in RequestTypes /\ 0 \in 0..MaxRetries
    BY BoundsAssumption DEF NoRequest, Request, RequestTypes, Kinds, Titles, NoDoc
  <2>7. WorkerTypes'
    BY <1>6, <2>3, <2>6 DEF WorkerTypes, Crash, RequestTypes, PC, Replies, NoDoc
  <2> QED
    BY <2>1, <2>5, <2>7 DEF Types
<1> QED
  BY <1>1, <1>3, <1>4, <1>5, <1>6 DEF Next

-----------------------------------------------------------------------------
(* Who owns a document. *)

\* What a step of w may do to the rows.
RowsChange(w) ==
  /\ repeated \subseteq repeated' /\ unwritten \subseteq unwritten'
  /\ unremoved \subseteq unremoved'
  /\ \/ UNCHANGED <<rows, issued>>
     \/ /\ pc[w] = "insert"
        /\ issued' = issued + 1 /\ DOMAIN rows' = DOMAIN rows \cup {issued + 1}
        /\ rows'[issued + 1] = doc[w]
        /\ \A id \in DOMAIN rows : rows'[id] = rows[id]
     \/ /\ pc[w] = "delete"
        /\ UNCHANGED issued /\ DOMAIN rows' = DOMAIN rows \ {task[w].id}
        /\ \A id \in DOMAIN rows' : rows'[id] = rows[id]

LEMMA InsertedRow ==
  ASSUME IInv, NEW w \in Workers, pc[w] = "insert", InsertRow(w)
  PROVE  /\ issued' = issued + 1 /\ DOMAIN rows' = DOMAIN rows \cup {issued + 1}
         /\ rows'[issued + 1] = doc[w]
         /\ \A id \in DOMAIN rows : rows'[id] = rows[id]
<1>1. rows' = With(rows, issued + 1, doc[w]) /\ issued' = issued + 1
  BY DEF InsertRow
<1>2. \A id \in DOMAIN rows : id # issued + 1
  BY DEF IInv, Types, StoreTypes
<1> QED
  BY <1>1, <1>2 DEF With

LEMMA RemovedRow ==
  ASSUME NEW id, rows' = Without(rows, id)
  PROVE  /\ DOMAIN rows' = DOMAIN rows \ {id}
         /\ \A other \in DOMAIN rows' : rows'[other] = rows[other]
BY DEF Without

LEMMA RowsStep ==
  ASSUME IInv, NEW w \in Workers, WorkingStep(w)
  PROVE  RowsChange(w)
<1>1. CASE Insert(w)
  <2>1. pc[w] = "insert" /\ InsertRow(w) /\ UNCHANGED historyVars
    BY <1>1 DEF Insert, Answer, Goto, historyVars
  <2> QED
    BY <2>1, InsertedRow DEF RowsChange, historyVars
<1>2. CASE Delete(w)
  <2>1. /\ pc[w] = "delete" /\ rows' = Without(rows, task[w].id)
        /\ UNCHANGED <<issued, unwritten, unremoved, repeated>>
    BY <1>2 DEF Delete, Goto, historyVars
  <2> QED
    BY <2>1, RemovedRow DEF RowsChange
<1>3. CASE ResultLost(w)
  <2>1. UNCHANGED <<unwritten, unremoved>>
    BY <1>3 DEF ResultLost
  <2>2. CASE pc[w] = "insert"
    <3>1. InsertRow(w) /\ repeated \subseteq repeated'
      BY <1>3, <2>2 DEF ResultLost
    <3> QED
      BY <2>1, <2>2, <3>1, InsertedRow DEF RowsChange
  <2>3. CASE pc[w] = "delete"
    <3>1. rows' = Without(rows, task[w].id) /\ UNCHANGED <<issued, repeated>>
      BY <1>3, <2>3 DEF ResultLost
    <3> QED
      BY <2>1, <2>3, <3>1, RemovedRow DEF RowsChange
  <2>4. CASE pc[w] = "find"
    BY <1>3, <2>1, <2>4 DEF ResultLost, RowsChange
  <2> QED
    BY <1>3, <2>2, <2>3, <2>4 DEF ResultLost, Calls
<1>4. CASE ~Insert(w) /\ ~Delete(w) /\ ~ResultLost(w)
  BY <1>4 DEF WorkingStep, Find, FindNothing, Open, Unlink, Fail, Retry, Reply, Break,
              RowsChange, dbVars, historyVars
<1> QED
  BY <1>1, <1>2, <1>3, <1>4

\* The steps of one worker keep what another one relies on.
LEMMA OthersFit ==
  ASSUME IInv, NEW w \in Workers, NEW v \in Workers, v # w, RowsChange(w),
         pc'[v] = pc[v], task'[v] = task[v], doc'[v] = doc[v], reply'[v] = reply[v],
         DOMAIN disk' \subseteq DOMAIN disk, UNCHANGED uploads
  PROVE  Fits(v)'
<1> USE DEF RowsChange
<1>1. Fits(v) /\ Docs' = Docs
  BY DEF IInv, OwnerInv, WorkerInv, Docs
<1>2. issued \in Nat /\ DOMAIN rows \subseteq 1..issued
  BY DEF IInv, Types, StoreTypes
<1>3. 1..issued \subseteq 1..issued'
  BY <1>2
<1>4. \A id \in 1..issued :
        id \in DOMAIN rows' => id \in DOMAIN rows /\ rows'[id] = rows[id]
  BY <1>2
<1>5. ASSUME pc[v] \in {"delete", "unlink"}, NEW id \in DOMAIN rows', rows'[id] = doc[v]
      PROVE  id = task[v].id \/ doc[v] \in repeated'
  <2>1. CASE id \in DOMAIN rows /\ rows'[id] = rows[id]
    BY <1>1, <1>5, <2>1 DEF Fits
  <2>2. CASE pc[w] = "insert" /\ rows'[id] = doc[w]
    BY <1>5, <2>2 DEF IInv, OwnerInv, OneInserter
  <2> QED
    BY <2>1, <2>2
<1> QED
  BY <1>1, <1>3, <1>4, <1>5 DEF Fits

\* The stepping worker itself, one step after the other.
LEMMA StepperFits ==
  ASSUME IInv, NEW w \in Workers, WorkingStep(w)
  PROVE  Fits(w)'
<1> USE DEF Goto, Answer
<1>1. /\ Fits(w) /\ issued \in Nat /\ DOMAIN rows \subseteq 1..issued
      /\ \A id \in DOMAIN rows : rows[id] \in Docs /\ rows[id] # NoDoc
      /\ \A i, j \in DOMAIN rows : rows[i] = rows[j] => i = j \/ rows[i] \in repeated
  BY DEF IInv, Types, StoreTypes, OwnerInv, WorkerInv, OneRow, Docs, NoDoc
<1>2. /\ pc \in [Workers -> PC] /\ task \in [Workers -> RequestTypes]
      /\ doc \in [Workers -> 0..uploads] /\ reply \in [Workers -> Replies]
  BY DEF IInv, Types, WorkerTypes, RequestTypes
<1>3. CASE Insert(w)
  BY <1>1, <1>2, <1>3 DEF Insert, Fits
<1>4. CASE Find(w)
  BY <1>1, <1>2, <1>4 DEF Find, Fits, dbVars, historyVars
<1>5. CASE FindNothing(w)
  BY <1>1, <1>2, <1>5 DEF FindNothing, Fits
<1>6. CASE Open(w)
  <2>1. /\ pc[w] = "open" /\ pc'[w] = "reply" /\ doc'[w] = doc[w] /\ task'[w] = task[w]
        /\ \/ reply'[w] = IF doc[w] \in DOMAIN disk THEN disk[doc[w]] ELSE "no file"
           \/ reply'[w] = "not opened"
        /\ UNCHANGED <<disk, rows, issued, unwritten, repeated>>
    BY <1>2, <1>6 DEF Open, dbVars, historyVars
  <2>2. /\ reply'[w] = "part" => doc[w] \in unwritten
        /\ reply'[w] = "no file" => doc[w] \notin DOMAIN disk
    <3>1. \A d \in DOMAIN disk : disk[d] \in {"whole", "part"} /\ (disk[d] = "part" => d \in unwritten)
      BY DEF IInv, Types, StoreTypes, SavedInv
    <3> QED
      BY <2>1, <3>1
  <2>3. task[w].id \in DOMAIN rows /\ doc[w] \notin DOMAIN disk => doc[w] \in unwritten \cup repeated
    BY <1>1, <2>1 DEF Fits, IInv, SavedInv, Saved
  <2> QED
    BY <1>1, <2>1, <2>2, <2>3 DEF Fits
<1>7. CASE Delete(w)
  <2>1. /\ pc[w] = "delete" /\ pc'[w] = "unlink" /\ doc'[w] = doc[w] /\ task'[w] = task[w]
        /\ rows' = Without(rows, task[w].id) /\ UNCHANGED <<issued, repeated>>
    BY <1>2, <1>7 DEF Delete, historyVars
  <2> QED
    BY <1>1, <2>1, RemovedRow DEF Fits
<1>8. CASE Unlink(w)
  <2>1. /\ pc[w] = "unlink" /\ pc'[w] = "reply" /\ doc'[w] = doc[w] /\ task'[w] = task[w]
        /\ disk' = Without(disk, doc[w]) \/ doc[w] \in unremoved'
        /\ UNCHANGED <<issued, rows, uploads>>
    BY <1>2, <1>8 DEF Unlink, dbVars, mainVars
  <2>2. /\ doc[w] \in DOMAIN disk' => doc[w] \in unremoved'
        /\ doc[w] \in Docs' /\ task[w].kind = "delete"
    <3>1. uploads \in Nat /\ doc[w] \in 0..uploads /\ doc[w] # 0 /\ task[w].kind = "delete"
      BY <1>1, <1>2, <2>1 DEF Fits, NoDoc, IInv, Types, StoreTypes
    <3>2. DOMAIN Without(disk, doc[w]) = DOMAIN disk \ {doc[w]}
      BY WithoutFacts
    <3> QED
      BY <2>1, <3>1, <3>2 DEF Docs
  <2> QED
    BY <1>1, <2>1, <2>2 DEF Fits
<1>9. CASE Fail(w)
  BY <1>1, <1>2, <1>9 DEF Fail, Fits, Calls
<1>10. CASE Retry(w) \/ Break(w)
  BY <1>1, <1>2, <1>10 DEF Retry, Break, Fits, dbVars, mainVars, historyVars, Docs
<1>11. CASE ResultLost(w)
  <2>1. RowsChange(w) /\ pc[w] \in Calls /\ UNCHANGED <<pc, task, doc, reply>>
    BY <1>11, RowsStep DEF ResultLost, WorkingStep
  <2>2. CASE pc[w] = "insert"
    BY <1>1, <2>1, <2>2 DEF Fits
  <2>3. CASE pc[w] = "find"
    BY <1>1, <2>1, <2>3 DEF Fits
  <2>4. CASE pc[w] = "delete"
    <3>1. /\ repeated \subseteq repeated' /\ issued' = issued
          /\ DOMAIN rows' \subseteq DOMAIN rows
          /\ \A id \in DOMAIN rows' : rows'[id] = rows[id]
      BY <2>1, <2>4 DEF RowsChange
    <3> QED
      BY <1>1, <2>1, <2>4, <3>1 DEF Fits
  <2> QED
    BY <2>1, <2>2, <2>3, <2>4 DEF Calls
<1>12. CASE Reply(w)
  BY <1>2, <1>12 DEF Reply, Fits
<1> QED
  BY <1>3, <1>4, <1>5, <1>6, <1>7, <1>8, <1>9, <1>10, <1>11, <1>12 DEF WorkingStep
\* What the steps of w may do to the documents.
DocsChange(w) ==
  /\ UNCHANGED <<form, uploads, queue>>
  /\ \A v \in Workers \ {w} :
       pc'[v] = pc[v] /\ task'[v] = task[v] /\ doc'[v] = doc[v] /\ reply'[v] = reply[v]
  /\ DOMAIN disk' \subseteq DOMAIN disk
  /\ \/ doc'[w] \in {doc[w], NoDoc}
     \/ UNCHANGED rows /\ \E id \in DOMAIN rows : doc'[w] = rows[id]
  /\ pc'[w] = "insert" =>
       pc[w] = "insert" /\ doc'[w] = doc[w] /\ (UNCHANGED rows \/ doc[w] \in repeated')
  /\ pc'[w] \in {"delete", "unlink"} =>
       \/ pc[w] \in {"delete", "unlink"} /\ doc'[w] = doc[w]
       \/ UNCHANGED rows /\ \E id \in DOMAIN rows : doc'[w] = rows[id]

LEMMA DocsStep ==
  ASSUME IInv, NEW w \in Workers, WorkingStep(w)
  PROVE  DocsChange(w)
<1> USE DEF Goto, Answer
<1>1. /\ pc \in [Workers -> PC] /\ task \in [Workers -> RequestTypes]
      /\ doc \in [Workers -> 0..uploads] /\ reply \in [Workers -> Replies]
  BY DEF IInv, Types, WorkerTypes, RequestTypes
<1>2. UNCHANGED <<form, uploads, queue>>
  BY DEF WorkingStep, Insert, Find, FindNothing, Open, Delete, Unlink, Fail, Retry, ResultLost,
         Reply, Break, mainVars
<1>3. /\ pc' = pc \/ \E p \in PC : pc' = [pc EXCEPT ![w] = p]
      /\ task' = task \/ task' = [task EXCEPT ![w] = NoRequest]
      /\ doc' = doc \/ \E d : doc' = [doc EXCEPT ![w] = d]
      /\ reply' = reply \/ \E r : reply' = [reply EXCEPT ![w] = r]
  <2>1. CASE Find(w)
    BY <2>1 DEF Find, PC, Calls
  <2>2. CASE ~Find(w)
    BY <2>2 DEF WorkingStep, Insert, FindNothing, Open, Delete, Unlink, Fail, Retry, ResultLost,
                Reply, Break, PC, Calls
  <2> QED
    BY <2>1, <2>2
<1>4. \A v \in Workers \ {w} :
        pc'[v] = pc[v] /\ task'[v] = task[v] /\ doc'[v] = doc[v] /\ reply'[v] = reply[v]
  BY <1>1, <1>3
<1>5. DOMAIN disk' \subseteq DOMAIN disk
  <2>1. disk' = disk \/ disk' = Without(disk, doc[w])
    BY DEF WorkingStep, Insert, Find, FindNothing, Open, Delete, Unlink, Fail, Retry, ResultLost,
           Reply, Break
  <2> QED
    BY <2>1, WithoutFacts
<1>6. CASE Find(w)
  <2>1. /\ UNCHANGED rows /\ pc'[w] \in {"open", "delete"}
        /\ \E id \in DOMAIN rows : doc'[w] = rows[id]
    BY <1>1, <1>6 DEF Find, dbVars
  <2> QED
    BY <1>2, <1>4, <1>5, <2>1 DEF DocsChange
<1>7. CASE Reply(w)
  <2>1. doc'[w] = NoDoc /\ pc'[w] = "idle"
    BY <1>1, <1>7 DEF Reply
  <2> QED
    BY <1>2, <1>4, <1>5, <2>1 DEF DocsChange
<1>8. CASE Delete(w)
  <2>1. doc'[w] = doc[w] /\ pc[w] = "delete" /\ pc'[w] = "unlink"
    BY <1>1, <1>8 DEF Delete
  <2> QED
    BY <1>2, <1>4, <1>5, <2>1 DEF DocsChange
<1>9. CASE Insert(w) \/ FindNothing(w) \/ Open(w) \/ Unlink(w) \/ Fail(w)
  <2>1. doc'[w] = doc[w] /\ pc'[w] = "reply"
    BY <1>1, <1>9 DEF Insert, FindNothing, Open, Unlink, Fail
  <2> QED
    BY <1>2, <1>4, <1>5, <2>1 DEF DocsChange
<1>10. CASE Retry(w) \/ Break(w)
  <2>1. doc'[w] = doc[w] /\ pc'[w] = pc[w] /\ UNCHANGED rows
    BY <1>10 DEF Retry, Break, dbVars
  <2> QED
    BY <1>2, <1>4, <1>5, <2>1 DEF DocsChange
<1>11. CASE ResultLost(w)
  <2>1. doc'[w] = doc[w] /\ pc'[w] = pc[w] /\ pc[w] \in Calls
    BY <1>11 DEF ResultLost
  <2>2. pc[w] = "insert" => doc[w] \in repeated'
    BY <1>11 DEF ResultLost
  <2> QED
    BY <1>2, <1>4, <1>5, <2>1, <2>2 DEF DocsChange, Calls
<1> QED
  BY <1>6, <1>7, <1>8, <1>9, <1>10, <1>11 DEF WorkingStep

\* A row that appears is the inserter's.
LEMMA RowsOrigin ==
  ASSUME NEW w \in Workers, RowsChange(w), NEW id \in DOMAIN rows'
  PROVE  \/ id \in DOMAIN rows /\ rows'[id] = rows[id]
         \/ pc[w] = "insert" /\ id = issued + 1 /\ rows'[id] = doc[w]
BY DEF RowsChange

LEMMA WorkingOwner ==
  ASSUME IInv, NEW w \in Workers, WorkingStep(w)
  PROVE  OwnerInv'
<1>1. RowsChange(w) /\ DocsChange(w)
  BY RowsStep, DocsStep
<1>2. FormInv /\ MainOwns /\ OneRow /\ OneInserter /\ WorkerInv
  BY DEF IInv, OwnerInv
<1>3. issued \in Nat /\ DOMAIN rows \subseteq 1..issued
  BY DEF IInv, Types, StoreTypes
<1>4. UNCHANGED <<form, queue>> /\ repeated \subseteq repeated'
  BY <1>1 DEF DocsChange, RowsChange
<1>5. FormInv'
  BY <1>2, <1>4 DEF FormInv, FormKnown
<1>6. MainOwns'
  <2>1. ASSUME NEW d, d # NoDoc, \A id \in DOMAIN rows : rows[id] # d,
               \A v \in Workers : doc[v] # d
        PROVE  (\A id \in DOMAIN rows' : rows'[id] # d) /\ (\A v \in Workers : doc'[v] # d)
    <3>1. \A id \in DOMAIN rows' : rows'[id] # d
      BY <1>1, <2>1, RowsOrigin
    <3>2. \A v \in Workers : doc'[v] # d
      BY <1>1, <2>1 DEF DocsChange
    <3> QED
      BY <3>1, <3>2
  <2> QED
    BY <1>2, <1>4, <2>1 DEF MainOwns
<1>7. OneRow'
  <2>1. SUFFICES ASSUME NEW i \in DOMAIN rows', NEW j \in DOMAIN rows', rows'[i] = rows'[j],
                        rows'[i] \notin repeated'
                 PROVE  i = j
    BY DEF OneRow
  <2>2. CASE pc[w] = "insert"
    <3>1. rows'[i] = doc[w] => doc[w] \notin repeated
      BY <1>4, <2>1
    <3>2. rows'[i] = doc[w] => \A id \in DOMAIN rows : rows[id] # doc[w]
      BY <1>2, <2>2, <3>1 DEF OneInserter
    <3> QED
      BY <1>1, <1>2, <1>4, <2>1, <3>2, RowsOrigin DEF OneRow
  <2>3. CASE pc[w] # "insert"
    BY <1>1, <1>2, <1>4, <2>1, <2>3, RowsOrigin DEF OneRow
  <2> QED
    BY <2>2, <2>3
<1>8. OneInserter'
  <2>1. SUFFICES ASSUME NEW v \in Workers, pc'[v] = "insert", doc'[v] \notin repeated'
                 PROVE  /\ \A id \in DOMAIN rows' : rows'[id] # doc'[v]
                        /\ \A u \in Workers :
                             pc'[u] \in {"insert", "delete", "unlink"} /\ doc'[u] = doc'[v] => u = v
    BY DEF OneInserter
  <2>2. pc[v] = "insert" /\ doc'[v] = doc[v] /\ doc[v] \notin repeated
    BY <1>1, <1>4, <2>1 DEF DocsChange
  <2>3. /\ \A id \in DOMAIN rows : rows[id] # doc[v]
        /\ \A u \in Workers :
             pc[u] \in {"insert", "delete", "unlink"} /\ doc[u] = doc[v] => u = v
    BY <1>2, <2>2 DEF OneInserter
  <2>4. \A id \in DOMAIN rows' : rows'[id] # doc'[v]
    <3>1. CASE v = w
      <4>1. UNCHANGED rows
        BY <1>1, <2>1, <2>2, <3>1 DEF DocsChange
      <4> QED
        BY <2>2, <2>3, <4>1
    <3>2. CASE v # w
      BY <1>1, <2>2, <2>3, <3>2, RowsOrigin
    <3> QED
      BY <3>1, <3>2
  <2>5. ASSUME NEW u \in Workers, pc'[u] \in {"insert", "delete", "unlink"}, doc'[u] = doc'[v]
        PROVE  u = v
    <3>1. CASE u # w
      BY <1>1, <2>2, <2>3, <2>5, <3>1 DEF DocsChange
    <3>2. CASE u = w
      <4>1. \/ pc[w] \in {"insert", "delete", "unlink"} /\ doc'[w] = doc[w]
            \/ \E id \in DOMAIN rows : doc'[w] = rows[id]
        BY <1>1, <2>5, <3>2 DEF DocsChange
      <4> QED
        BY <2>2, <2>3, <2>5, <3>2, <4>1
    <3> QED
      BY <3>1, <3>2
  <2> QED
    BY <2>4, <2>5
<1>9. WorkerInv'
  <2>1. Fits(w)'
    BY StepperFits
  <2>2. ASSUME NEW v \in Workers, v # w PROVE Fits(v)'
    BY <1>1, <2>2, OthersFit DEF DocsChange
  <2> QED
    BY <2>1, <2>2 DEF WorkerInv
<1> QED
  BY <1>5, <1>6, <1>7, <1>8, <1>9 DEF OwnerInv

\* The request that a worker takes is its own from then on.
LEMMA TakingInv ==
  ASSUME IInv, NEW w \in Workers, Refuse(w) \/ Serve(w)
  PROVE  OwnerInv' /\ SavedInv' /\ KeptInv'
<1> DEFINE r == queue[1]
<1>1. FormInv /\ MainOwns /\ OneRow /\ OneInserter /\ WorkerInv
  BY DEF IInv, OwnerInv
<1>2. /\ pc \in [Workers -> PC] /\ task \in [Workers -> RequestTypes]
      /\ doc \in [Workers -> 0..uploads] /\ reply \in [Workers -> Replies]
  BY DEF IInv, Types, WorkerTypes, RequestTypes
<1>3. /\ Head(queue) = queue[1] /\ 1 \in DOMAIN queue
      /\ \A i \in DOMAIN queue' :
           i \in Nat \ {0} /\ i + 1 \in DOMAIN queue /\ queue'[i] = queue[i + 1]
  <2>1. queue \in Seq(RequestTypes) /\ queue # <<>> /\ queue' = Tail(queue)
    BY DEF IInv, Types, MainTypes, RequestTypes, Refuse, Serve, Take
  <2>2. Len(queue) \in Nat \ {0} /\ DOMAIN queue = 1..Len(queue)
    BY <2>1, EmptySeq, LenProperties
  <2>3. /\ queue' \in Seq(RequestTypes) /\ Len(queue') = Len(queue) - 1
        /\ \A i \in 1..Len(queue') : queue'[i] = queue[i + 1]
        /\ Head(queue) = queue[1]
    BY <2>1, HeadTailProperties
  <2>4. DOMAIN queue' = 1..Len(queue')
    BY <2>3, LenProperties
  <2> QED
    BY <2>2, <2>3, <2>4
<1>4. /\ UNCHANGED <<disk, rows, issued, form, uploads, unwritten, unremoved, repeated>>
      /\ task'[w] = r /\ doc'[w] = r.doc
      /\ \A v \in Workers \ {w} :
           pc'[v] = pc[v] /\ task'[v] = task[v] /\ doc'[v] = doc[v] /\ reply'[v] = reply[v]
  <2>1. UNCHANGED <<disk, rows, issued, form, uploads, unwritten, unremoved, repeated>>
    BY DEF Refuse, Serve, dbVars, mainVars, historyVars
  <2>2. /\ task' = [task EXCEPT ![w] = r] /\ doc' = [doc EXCEPT ![w] = r.doc]
        /\ \E p : pc' = [pc EXCEPT ![w] = p]
        /\ reply' = reply \/ reply' = [reply EXCEPT ![w] = "refused"]
    BY <1>3 DEF Refuse, Serve, Take, Goto
  <2> QED
    BY <1>2, <2>1, <2>2
<1>5. \/ pc'[w] = "reply" /\ reply'[w] = "refused" /\ given_up' = given_up \cup Strays({r.doc})
      \/ /\ Valid(r) /\ given_up' = given_up
         /\ pc'[w] = IF r.kind = "add" THEN "insert" ELSE "find"
  <2>1. CASE Refuse(w)
    BY <1>2, <1>4, <2>1 DEF Refuse, Take, Goto
  <2>2. CASE Serve(w)
    BY <1>2, <1>3, <2>2 DEF Serve, Take, Goto, historyVars
  <2> QED
    BY <2>1, <2>2
<1>6. /\ r.kind \in {"add", "get", "delete"} /\ (r.kind # "add" => r.doc = NoDoc)
      /\ r.kind = "add" /\ Valid(r) => r.doc # NoDoc
      /\ r.doc # NoDoc =>
           /\ r.doc # form.doc
           /\ \A j \in DOMAIN queue : queue[j].doc = r.doc => j = 1
           /\ \A id \in DOMAIN rows : rows[id] # r.doc
           /\ \A v \in Workers : doc[v] # r.doc
  BY <1>1, <1>3 DEF FormInv, MainOwns, Valid
<1>7. FormInv'
  <2>1. FormKnown'
    BY <1>1, <1>4 DEF FormInv, FormKnown
  <2>2. \A i \in DOMAIN queue' :
          /\ queue'[i].kind \in {"add", "get", "delete"}
          /\ queue'[i].kind # "add" => queue'[i].doc = NoDoc
    BY <1>1, <1>3 DEF FormInv
  <2> QED
    BY <1>1, <2>1, <2>2 DEF FormInv
<1>8. MainOwns'
  <2>1. ASSUME NEW i \in DOMAIN queue', queue'[i].doc # NoDoc
        PROVE  /\ queue'[i].doc # form'.doc
               /\ \A j \in DOMAIN queue' : queue'[j].doc = queue'[i].doc => i = j
               /\ \A id \in DOMAIN rows' : rows'[id] # queue'[i].doc
               /\ \A v \in Workers : doc'[v] # queue'[i].doc
    <3>1. /\ i \in Nat \ {0} /\ i + 1 \in DOMAIN queue /\ queue'[i] = queue[i + 1]
          /\ queue[i + 1].doc # form.doc
          /\ \A j \in DOMAIN queue : queue[j].doc = queue[i + 1].doc => i + 1 = j
          /\ \A id \in DOMAIN rows : rows[id] # queue[i + 1].doc
          /\ \A v \in Workers : doc[v] # queue[i + 1].doc
      BY <1>1, <1>3, <2>1 DEF MainOwns
    <3>2. r.doc # queue[i + 1].doc
      BY <1>3, <3>1
    <3>3. \A v \in Workers : doc'[v] # queue'[i].doc
      BY <1>4, <3>1, <3>2
    <3>4. \A j \in DOMAIN queue' : queue'[j].doc = queue'[i].doc => i = j
      <4>1. ASSUME NEW j \in DOMAIN queue', queue'[j].doc = queue'[i].doc PROVE i = j
        <5>1. j \in Nat /\ j + 1 = i + 1
          BY <1>3, <3>1, <4>1
        <5> QED
          BY <3>1, <5>1
      <4> QED
        BY <4>1
    <3> QED
      BY <1>4, <3>1, <3>3, <3>4
  <2>2. ASSUME form'.doc # NoDoc
        PROVE  /\ \A id \in DOMAIN rows' : rows'[id] # form'.doc
               /\ \A v \in Workers : doc'[v] # form'.doc
    BY <1>1, <1>4, <1>6, <2>2 DEF MainOwns
  <2> QED
    BY <2>1, <2>2 DEF MainOwns
<1>9. OneRow'
  BY <1>1, <1>4 DEF OneRow
<1>10. OneInserter'
  <2>1. SUFFICES ASSUME NEW v \in Workers, pc'[v] = "insert", doc'[v] \notin repeated'
                 PROVE  /\ \A id \in DOMAIN rows' : rows'[id] # doc'[v]
                        /\ \A u \in Workers :
                             pc'[u] \in {"insert", "delete", "unlink"} /\ doc'[u] = doc'[v] => u = v
    BY DEF OneInserter
  <2>2. CASE v = w
    <3>1. r.doc # NoDoc /\ doc'[v] = r.doc
      BY <1>4, <1>5, <1>6, <2>1, <2>2
    <3> QED
      BY <1>4, <1>6, <2>2, <3>1
  <2>3. CASE v # w
    <3>1. /\ pc[v] = "insert" /\ doc[v] \notin repeated /\ doc'[v] = doc[v] /\ doc[v] # NoDoc
          /\ \A id \in DOMAIN rows : rows[id] # doc[v]
          /\ \A u \in Workers :
               pc[u] \in {"insert", "delete", "unlink"} /\ doc[u] = doc[v] => u = v
      <4>1. pc[v] = "insert" /\ doc[v] \notin repeated /\ doc'[v] = doc[v]
        BY <1>4, <2>1, <2>3
      <4>2. doc[v] # NoDoc
        BY <1>1, <4>1 DEF WorkerInv, Fits
      <4> QED
        BY <1>1, <4>1, <4>2 DEF OneInserter
    <3>2. doc'[w] # doc[v]
      BY <1>4, <1>6, <3>1
    <3> QED
      BY <1>4, <3>1, <3>2
  <2> QED
    BY <2>2, <2>3
<1>11. WorkerInv'
  <2>1. Fits(w)'
    BY <1>4, <1>5, <1>6 DEF Fits
  <2>2. ASSUME NEW v \in Workers, v # w PROVE Fits(v)'
    <3>1. Fits(v) /\ Docs' = Docs
      BY <1>1, <1>4 DEF WorkerInv, Docs
    <3> QED
      BY <1>4, <2>2, <3>1 DEF Fits
  <2> QED
    BY <2>1, <2>2 DEF WorkerInv
<1>12. SavedInv'
  <2>1. SavedInv /\ \A d : Saved(d)' <=> Saved(d)
    BY <1>4 DEF IInv, Saved
  <2>2. \A v \in Workers : pc'[v] = "insert" => Saved(doc'[v])
    BY <1>3, <1>4, <1>5, <2>1 DEF SavedInv
  <2>3. \A i \in DOMAIN queue' : Valid(queue'[i]) /\ queue'[i].kind = "add" => Saved(queue'[i].doc)
    BY <1>3, <2>1 DEF SavedInv
  <2>4. /\ \A d \in DOMAIN disk' : disk'[d] = "part" => d \in unwritten'
        /\ \A id \in DOMAIN rows' : Saved(rows'[id])
        /\ form'.doc # NoDoc => Saved(form'.doc) \/ form'.title = "no title"
    BY <1>4, <2>1 DEF SavedInv
  <2> QED
    BY <2>1, <2>2, <2>3, <2>4 DEF SavedInv, Valid, Saved
<1>13. KeptInv'
  <2>1. SUFFICES ASSUME NEW d \in DOMAIN disk, d \notin given_up' \cup unremoved', d # form.doc,
                        \A id \in DOMAIN rows : rows[id] # d
                 PROVE  \/ \E i \in DOMAIN queue' : queue'[i].doc = d
                        \/ \E v \in Workers : pc'[v] \in {"insert", "delete", "unlink"} /\ doc'[v] = d
    BY <1>4 DEF KeptInv
  <2>2. d # NoDoc /\ d \notin given_up \cup unremoved
    BY <1>4, <1>5, <2>1 DEF IInv, Types, StoreTypes, Docs, NoDoc
  <2>3. \/ \E i \in DOMAIN queue : queue[i].doc = d
        \/ \E v \in Workers : pc[v] \in {"insert", "delete", "unlink"} /\ doc[v] = d
    BY <2>1, <2>2 DEF IInv, KeptInv
  <2>4. CASE r.doc = d
    <3>1. d \notin Strays({r.doc}) => FALSE
      BY <2>1, <2>2, <2>4 DEF Strays
    <3>2. pc'[w] = "insert" /\ doc'[w] = d
      BY <1>4, <1>5, <1>6, <2>1, <2>2, <2>4, <3>1
    <3> QED
      BY <3>2
  <2>5. CASE r.doc # d
    <3>1. ASSUME NEW i \in DOMAIN queue, queue[i].doc = d
          PROVE  \E j \in DOMAIN queue' : queue'[j].doc = d
      <4>1. queue \in Seq(RequestTypes) /\ queue # <<>> /\ queue' = Tail(queue)
        BY DEF IInv, Types, MainTypes, RequestTypes, Refuse, Serve, Take
      <4>2. /\ DOMAIN queue = 1..Len(queue) /\ Len(queue) \in Nat
            /\ queue' \in Seq(RequestTypes) /\ Len(queue') = Len(queue) - 1
        BY <4>1, LenProperties, HeadTailProperties
      <4>3. DOMAIN queue' = 1..Len(queue')
        BY <4>2, LenProperties
      <4>4. i # 1 /\ i - 1 \in DOMAIN queue' /\ (i - 1) + 1 = i
        BY <2>5, <3>1, <4>2, <4>3
      <4> QED
        BY <1>3, <3>1, <4>4
    <3>2. ASSUME NEW v \in Workers, pc[v] \in {"insert", "delete", "unlink"}, doc[v] = d
          PROVE  pc'[v] \in {"insert", "delete", "unlink"} /\ doc'[v] = d
      <4>1. pc[w] = "idle"
        BY DEF Refuse, Serve, Take, Goto
      <4> QED
        BY <1>4, <3>2, <4>1
    <3> QED
      BY <2>3, <3>1, <3>2
  <2> QED
    BY <2>4, <2>5
<1> QED
  BY <1>7, <1>8, <1>9, <1>10, <1>11, <1>12, <1>13 DEF OwnerInv

LEMMA RemovedFile ==
  ASSUME NEW d, disk' = Without(disk, d)
  PROVE  /\ DOMAIN disk' = DOMAIN disk \ {d}
         /\ \A other \in DOMAIN disk' : disk'[other] = disk[other]
BY DEF Without

LEMMA WorkingSaved ==
  ASSUME IInv, NEW w \in Workers, WorkingStep(w)
  PROVE  SavedInv'
<1> DEFINE SavedNext(d) == (d \in DOMAIN disk' /\ disk'[d] = "whole") \/ d \in unwritten' \cup repeated'
<1>1. RowsChange(w) /\ DocsChange(w)
  BY RowsStep, DocsStep
<1>2. FormInv /\ MainOwns /\ OneRow /\ OneInserter /\ WorkerInv /\ SavedInv
  BY DEF IInv, OwnerInv
<1>3. \/ disk' = disk
      \/ pc[w] = "unlink" /\ disk' = Without(disk, doc[w])
  BY DEF WorkingStep, Insert, Find, FindNothing, Open, Delete, Unlink, Fail, Retry, ResultLost,
         Reply, Break, Answer, Goto
<1>4. ASSUME NEW d, Saved(d), pc[w] = "unlink" /\ d = doc[w] => d \in repeated
      PROVE  SavedNext(d)
  <2>1. CASE disk' = disk
    BY <1>1, <1>4, <2>1 DEF Saved, RowsChange
  <2>2. CASE pc[w] = "unlink" /\ disk' = Without(disk, doc[w])
    BY <1>1, <1>4, <2>2, RemovedFile DEF Saved, RowsChange
  <2> QED
    BY <1>3, <2>1, <2>2
<1>5. \A d \in DOMAIN disk' : disk'[d] = "part" => d \in unwritten'
  <2>1. \A d \in DOMAIN disk' : d \in DOMAIN disk /\ disk'[d] = disk[d]
    BY <1>3, RemovedFile
  <2> QED
    BY <1>1, <1>2, <2>1 DEF SavedInv, RowsChange
<1>6. ASSUME NEW id \in DOMAIN rows' PROVE SavedNext(rows'[id])
  <2>1. CASE id \in DOMAIN rows /\ rows'[id] = rows[id]
    <3>1. Saved(rows[id])
      BY <1>2, <2>1 DEF SavedInv
    <3>2. pc[w] = "unlink" /\ rows[id] = doc[w] => rows[id] \in repeated
      BY <1>2, <2>1 DEF WorkerInv, Fits
    <3> QED
      BY <1>4, <2>1, <3>1, <3>2
  <2>2. CASE pc[w] = "insert" /\ rows'[id] = doc[w]
    <3>1. Saved(doc[w])
      BY <1>2, <2>2 DEF SavedInv
    <3> QED
      BY <1>4, <2>2, <3>1
  <2> QED
    BY <1>1, <2>1, <2>2, RowsOrigin
<1>7. form'.doc # NoDoc => SavedNext(form'.doc) \/ form'.title = "no title"
  <2>1. SUFFICES ASSUME form.doc # NoDoc, form.title # "no title" PROVE SavedNext(form.doc)
    BY <1>1 DEF DocsChange
  <2>2. Saved(form.doc) /\ form.doc # doc[w]
    BY <1>2, <2>1 DEF SavedInv, MainOwns
  <2> QED
    BY <1>4, <2>2
<1>8. ASSUME NEW i \in DOMAIN queue', Valid(queue'[i]), queue'[i].kind = "add"
      PROVE  SavedNext(queue'[i].doc)
  <2>1. queue' = queue
    BY <1>1 DEF DocsChange
  <2>2. Saved(queue[i].doc) /\ queue[i].doc # doc[w]
    BY <1>2, <1>8, <2>1 DEF SavedInv, MainOwns, Valid
  <2> QED
    BY <1>4, <2>1, <2>2
<1>9. ASSUME NEW v \in Workers, pc'[v] = "insert" PROVE SavedNext(doc'[v])
  <2>1. pc[v] = "insert" /\ doc'[v] = doc[v]
    BY <1>1, <1>9 DEF DocsChange
  <2>2. Saved(doc[v]) /\ (pc[w] = "unlink" /\ doc[v] = doc[w] => doc[v] \in repeated)
    BY <1>2, <2>1 DEF SavedInv, OneInserter
  <2> QED
    BY <1>4, <2>1, <2>2
<1> QED
  BY <1>5, <1>6, <1>7, <1>8, <1>9 DEF SavedInv, Saved, Valid

LEMMA WorkingKept ==
  ASSUME IInv, NEW w \in Workers, WorkingStep(w)
  PROVE  KeptInv'
<1>1. RowsChange(w) /\ DocsChange(w)
  BY RowsStep, DocsStep
<1>2. WorkerInv /\ KeptInv
  BY DEF IInv, OwnerInv
<1>3. /\ pc \in [Workers -> PC] /\ doc \in [Workers -> 0..uploads]
      /\ \A d \in DOMAIN disk : d # NoDoc
  BY DEF IInv, Types, WorkerTypes, StoreTypes, Docs, NoDoc
<1>4. given_up \subseteq given_up' /\ unremoved \subseteq unremoved'
  BY DEF WorkingStep, Insert, Find, FindNothing, Open, Delete, Unlink, Fail, Retry, ResultLost,
         Reply, Break, historyVars
<1> DEFINE Working(d) ==
             \E v \in Workers : pc'[v] \in {"insert", "delete", "unlink"} /\ doc'[v] = d
<1>5. ASSUME NEW d \in DOMAIN disk', pc[w] \in {"insert", "delete", "unlink"}, doc[w] = d
      PROVE  (\E id \in DOMAIN rows' : rows'[id] = d) \/ d \in given_up' \cup unremoved' \/ Working(d)
  <2>1. CASE Insert(w)
    <3>1. pc[w] = "insert" /\ InsertRow(w)
      BY <2>1 DEF Insert, Answer, Goto
    <3> QED
      BY <1>5, <3>1, InsertedRow
  <2>2. CASE Delete(w)
    BY <1>3, <1>5, <2>2 DEF Delete, Goto, historyVars
  <2>3. CASE Unlink(w)
    <3>1. disk' = Without(disk, doc[w]) \/ doc[w] \in unremoved'
      BY <2>3 DEF Unlink
    <3> QED
      BY <1>5, <3>1, RemovedFile
  <2>4. CASE Fail(w)
    <3>1. given_up' = given_up \cup Strays({doc[w]}) /\ rows' = rows
      BY <2>4 DEF Fail, dbVars
    <3>2. d \in DOMAIN disk /\ d # NoDoc
      BY <1>1, <1>3, <1>5 DEF DocsChange
    <3> QED
      BY <1>5, <3>1, <3>2 DEF Strays
  <2>5. CASE Retry(w) \/ ResultLost(w) \/ Break(w)
    <3>1. UNCHANGED <<pc, doc>>
      BY <2>5 DEF Retry, ResultLost, Break
    <3> QED
      BY <1>5, <3>1
  <2>6. CASE Find(w) \/ FindNothing(w) \/ Open(w) \/ Reply(w)
    BY <1>5, <2>6 DEF Find, FindNothing, Open, Reply, Answer, Goto
  <2> QED
    BY <2>1, <2>2, <2>3, <2>4, <2>5, <2>6 DEF WorkingStep
<1>6. ASSUME NEW d \in DOMAIN disk', \E id \in DOMAIN rows : rows[id] = d
      PROVE  (\E id \in DOMAIN rows' : rows'[id] = d) \/ d \in given_up' \cup unremoved' \/ Working(d)
  <2>1. PICK id \in DOMAIN rows : rows[id] = d
    BY <1>6
  <2>2. CASE id \in DOMAIN rows'
    <3>1. rows'[id] = rows[id]
      BY <1>1, <2>1, <2>2 DEF RowsChange, IInv, Types, StoreTypes
    <3> QED
      BY <2>1, <2>2, <3>1
  <2>3. CASE id \notin DOMAIN rows'
    <3>1. pc[w] = "delete" /\ id = task[w].id
      BY <1>1, <2>1, <2>3 DEF RowsChange
    <3>2. doc[w] = d
      BY <1>2, <2>1, <3>1 DEF WorkerInv, Fits
    <3> QED
      BY <1>5, <3>1, <3>2
  <2> QED
    BY <2>2, <2>3
<1>7. ASSUME NEW d \in DOMAIN disk'
      PROVE  \/ (\E id \in DOMAIN rows' : rows'[id] = d) \/ d \in given_up' \cup unremoved' \/ Working(d)
             \/ d = form'.doc
             \/ \E i \in DOMAIN queue' : queue'[i].doc = d
  <2>1. /\ d \in DOMAIN disk /\ form' = form /\ queue' = queue
        /\ \A v \in Workers \ {w} : pc'[v] = pc[v] /\ doc'[v] = doc[v]
    BY <1>1 DEF DocsChange
  <2>2. CASE \E id \in DOMAIN rows : rows[id] = d
    BY <1>6, <2>2
  <2>3. CASE \E v \in Workers : pc[v] \in {"insert", "delete", "unlink"} /\ doc[v] = d
    BY <1>5, <2>1, <2>3
  <2>4. CASE d \in given_up \cup unremoved \/ d = form.doc \/ \E i \in DOMAIN queue : queue[i].doc = d
    BY <1>4, <2>1, <2>4
  <2> QED
    BY <1>2, <2>1, <2>2, <2>3, <2>4 DEF KeptInv
<1> QED
  BY <1>7 DEF KeptInv

-----------------------------------------------------------------------------
(* The main thread. *)

\* The main thread leaves the workers what they rely on: it saves no file for a
\* document that is in use.
LEMMA MainRely ==
  ASSUME IInv, UNCHANGED <<rows, issued, pc, task, doc, reply, unremoved, repeated>>,
         unwritten \subseteq unwritten', Docs \subseteq Docs',
         \A d \in Docs : d \in DOMAIN disk' => d \in DOMAIN disk
  PROVE  OneRow' /\ OneInserter' /\ WorkerInv'
<1>1. OneRow /\ OneInserter /\ WorkerInv
  BY DEF IInv, OwnerInv
<1>2. OneRow' /\ OneInserter'
  BY <1>1 DEF OneRow, OneInserter
<1>3. ASSUME NEW w \in Workers PROVE Fits(w)'
  <2>1. Fits(w)
    BY <1>1 DEF WorkerInv
  <2> QED
    BY <2>1 DEF Fits
<1> QED
  BY <1>2, <1>3 DEF WorkerInv

LEMMA Appended ==
  ASSUME IInv, NEW r \in RequestTypes, queue' = Append(queue, r)
  PROVE  \E n : /\ DOMAIN queue' = DOMAIN queue \cup {n} /\ n \notin DOMAIN queue
                /\ queue'[n] = r
                /\ \A i \in DOMAIN queue : queue'[i] = queue[i]
<1>1. queue \in Seq(RequestTypes)
  BY DEF IInv, Types, MainTypes, RequestTypes
<1>2. /\ queue' \in Seq(RequestTypes) /\ Len(queue') = Len(queue) + 1
      /\ \A i \in 1..Len(queue) : queue'[i] = queue[i]
      /\ queue'[Len(queue) + 1] = r
  BY <1>1, AppendProperties
<1>3. DOMAIN queue = 1..Len(queue) /\ DOMAIN queue' = 1..Len(queue) + 1 /\ Len(queue) \in Nat
  BY <1>1, <1>2, LenProperties
<1>4. /\ DOMAIN queue' = DOMAIN queue \cup {Len(queue) + 1} /\ Len(queue) + 1 \notin DOMAIN queue
      /\ \A i \in DOMAIN queue : queue'[i] = queue[i]
  BY <1>2, <1>3
<1> QED
  BY <1>2, <1>4

LEMMA ReceiveFormInv ==
  ASSUME IInv, NEW fields \in Forms, ReceiveForm(fields)
  PROVE  OwnerInv' /\ SavedInv' /\ KeptInv'
<1>1. /\ UNCHANGED <<disk, rows, issued, uploads, queue, pc, task, doc, reply, unwritten, unremoved, repeated,
                  given_up>>
      /\ form' = Reading(fields, TRUE, NoDoc, "") /\ ~form.busy
  BY DEF ReceiveForm, dbVars, historyVars
<1>2. FormInv /\ MainOwns /\ SavedInv /\ KeptInv
  BY DEF IInv, OwnerInv
<1>3. OneRow' /\ OneInserter' /\ WorkerInv'
  BY <1>1, MainRely DEF Docs
<1>4. \A i, j \in DOMAIN fields : fields[i] # "file" /\ fields[j] # "file" => i = j
  BY FormsAssumption
<1>5. FormInv'
  BY <1>1, <1>2, <1>4 DEF FormInv, FormKnown, Reading
<1>6. MainOwns'
  BY <1>1, <1>2 DEF MainOwns, Reading
<1>7. SavedInv'
  BY <1>1, <1>2 DEF SavedInv, Saved, Valid, Reading
<1>8. KeptInv'
  <2>1. form.doc = NoDoc /\ NoDoc \notin DOMAIN disk
    <3>1. form.doc = NoDoc
      BY <1>1, <1>2 DEF FormInv, FormKnown
    <3>2. NoDoc \notin DOMAIN disk
      BY DEF IInv, Types, StoreTypes, Docs, NoDoc
    <3> QED
      BY <3>1, <3>2
  <2> QED
    BY <1>1, <1>2, <2>1 DEF KeptInv
<1> QED
  BY <1>3, <1>5, <1>6, <1>7, <1>8 DEF OwnerInv

\* One title at most: a form with a title in front has only files left.
LEMMA FieldsLeft ==
  ASSUME IInv, NextField
  PROVE  /\ Head(form.fields) \in FieldKinds
         /\ form \in FormTypes /\ Tail(form.fields) \in Seq(FieldKinds)
         /\ Head(form.fields) # "file" => form.title = ""
         /\ \A i \in DOMAIN Tail(form.fields) :
              (form.title # "" \/ Head(form.fields) # "file") => Tail(form.fields)[i] = "file"
         /\ \A i, j \in DOMAIN Tail(form.fields) :
              Tail(form.fields)[i] # "file" /\ Tail(form.fields)[j] # "file" => i = j
<1> DEFINE fields == form.fields
<1>1. form \in FormTypes /\ fields \in Seq(FieldKinds) /\ fields # <<>> /\ FormKnown
  BY DEF IInv, Types, MainTypes, FormTypes, OwnerInv, FormInv, NextField
<1>2. /\ Head(fields) \in FieldKinds /\ Head(fields) = fields[1]
      /\ Tail(fields) \in Seq(FieldKinds) /\ Len(Tail(fields)) = Len(fields) - 1
      /\ \A i \in 1..Len(Tail(fields)) : Tail(fields)[i] = fields[i + 1]
  BY <1>1, HeadTailProperties
<1>3. /\ Len(fields) \in Nat \ {0} /\ DOMAIN fields = 1..Len(fields)
      /\ DOMAIN Tail(fields) = 1..Len(Tail(fields))
  BY <1>1, <1>2, EmptySeq, LenProperties
<1>4. 1 \in DOMAIN fields
  BY <1>3
<1>5. \A i \in DOMAIN Tail(fields) :
        i \in Nat \ {0} /\ i + 1 \in DOMAIN fields /\ Tail(fields)[i] = fields[i + 1]
  BY <1>2, <1>3
<1>6. Head(fields) # "file" => form.title = ""
  BY <1>1, <1>2, <1>4 DEF FormKnown
<1>7. ASSUME NEW i \in DOMAIN Tail(fields), form.title # "" \/ Head(fields) # "file"
      PROVE  Tail(fields)[i] = "file"
  <2>1. i + 1 \in DOMAIN fields /\ i + 1 # 1 /\ Tail(fields)[i] = fields[i + 1]
    BY <1>5
  <2> QED
    BY <1>1, <1>2, <1>4, <1>7, <2>1 DEF FormKnown
<1>8. ASSUME NEW i \in DOMAIN Tail(fields), NEW j \in DOMAIN Tail(fields),
             Tail(fields)[i] # "file", Tail(fields)[j] # "file"
      PROVE  i = j
  <2>1. i + 1 = j + 1 /\ i \in Nat /\ j \in Nat
    BY <1>1, <1>5, <1>8 DEF FormKnown
  <2> QED
    BY <2>1
<1> QED
  BY <1>1, <1>2, <1>6, <1>7, <1>8

LEMMA TitleInv ==
  ASSUME IInv, NextField, Head(form.fields) # "file"
  PROVE  OwnerInv' /\ SavedInv' /\ KeptInv'
<1> DEFINE kind == Head(form.fields)
<1>1. TitleField(kind)
  BY DEF NextField
<1>2. /\ UNCHANGED <<disk, rows, issued, uploads, queue, pc, task, doc, reply, unwritten, unremoved, repeated,
                  given_up>>
      /\ form' = [form EXCEPT
           !.fields = Tail(@), !.title = IF @ = "" THEN kind ELSE @,
           !.save = @ /\ kind # "no title"]
  BY <1>1 DEF NextField, TitleField, dbVars
<1>3. FormInv /\ FormKnown /\ MainOwns /\ SavedInv /\ KeptInv
  BY DEF IInv, OwnerInv, FormInv
<1>4. OneRow' /\ OneInserter' /\ WorkerInv'
  BY <1>2, MainRely DEF Docs
<1>5. /\ form'.busy = form.busy /\ form'.doc = form.doc /\ form'.fields = Tail(form.fields)
      /\ form'.title = kind /\ (form'.save <=> form.save /\ kind # "no title")
      /\ form.title = "" /\ kind # ""
  BY <1>2, FieldsLeft DEF FormTypes, FieldKinds
<1>6. FormInv'
  <2>1. FormKnown'
    BY <1>3, <1>5, FieldsLeft DEF FormKnown
  <2> QED
    BY <1>2, <1>3, <2>1 DEF FormInv
<1>7. MainOwns'
  BY <1>2, <1>3, <1>5 DEF MainOwns
<1>8. SavedInv'
  BY <1>2, <1>3, <1>5 DEF SavedInv, Saved, Valid
<1>9. KeptInv'
  BY <1>2, <1>3, <1>5 DEF KeptInv
<1> QED
  BY <1>4, <1>6, <1>7, <1>8, <1>9 DEF OwnerInv

LEMMA FileInv ==
  ASSUME IInv, NextField, Head(form.fields) = "file"
  PROVE  OwnerInv' /\ SavedInv' /\ KeptInv'
<1> DEFINE d == uploads + 1
<1>1. FileField
  BY DEF NextField
<1>2. /\ UNCHANGED <<rows, issued, queue, pc, task, doc, reply, repeated>>
      /\ uploads' = d
      /\ form' = [form EXCEPT !.fields = Tail(@), !.doc = IF @ = NoDoc THEN d ELSE @]
      /\ given_up' = IF form.doc = NoDoc THEN given_up ELSE given_up \cup {d}
      /\ unremoved' = unremoved
  BY <1>1 DEF NextField, FileField, dbVars
<1>3. FormInv /\ FormKnown /\ MainOwns /\ SavedInv /\ KeptInv
  BY DEF IInv, OwnerInv, FormInv
<1>4. /\ uploads \in Nat /\ DOMAIN disk \subseteq 1..uploads
      /\ \A id \in DOMAIN rows : rows[id] # d
      /\ \A w \in Workers : doc[w] # d
      /\ \A i \in DOMAIN queue : queue[i].doc # d
      /\ form.doc # d /\ d # NoDoc /\ NoDoc \notin DOMAIN disk
  <2>1. uploads \in Nat /\ DOMAIN disk \subseteq 1..uploads
    BY DEF IInv, Types, StoreTypes, Docs
  <2>2. \A id \in DOMAIN rows : rows[id] \in 1..uploads
    BY DEF IInv, Types, StoreTypes, Docs
  <2>3. /\ \A w \in Workers : doc[w] \in 0..uploads
        /\ \A i \in DOMAIN queue : queue[i].doc \in 0..uploads
        /\ form.doc \in 0..uploads
    BY DEF IInv, Types, WorkerTypes, MainTypes
  <2>4. d \notin 0..uploads /\ d \notin 1..uploads /\ d # 0 /\ 0 \notin 1..uploads
    BY <2>1
  <2> QED
    BY <2>1, <2>2, <2>3, <2>4 DEF NoDoc
<1>5. /\ unwritten \subseteq unwritten'
      /\ \/ disk' = With(disk, d, "whole") /\ form.save
         \/ disk' = With(disk, d, "part") /\ form.save /\ d \in unwritten'
         \/ disk' = disk /\ form.save /\ d \in unwritten'
         \/ disk' = disk /\ ~form.save
  <2>1. CASE form.save
    BY <1>1, <2>1 DEF FileField, SaveBlob
  <2>2. CASE ~form.save
    BY <1>1, <2>2 DEF FileField
  <2> QED
    BY <2>1, <2>2
<1>6. /\ DOMAIN disk \subseteq DOMAIN disk' /\ DOMAIN disk' \subseteq DOMAIN disk \cup {d}
      /\ \A e \in DOMAIN disk : disk'[e] = disk[e]
      /\ d \in DOMAIN disk' => disk'[d] = "whole" \/ d \in unwritten'
      /\ form.save => (d \in DOMAIN disk' /\ disk'[d] = "whole") \/ d \in unwritten'
  <2>1. d \notin DOMAIN disk
    BY <1>4
  <2>2. CASE disk' = disk /\ (form.save => d \in unwritten')
    BY <2>1, <2>2
  <2>3. CASE disk' = With(disk, d, "whole")
    BY <2>1, <2>3 DEF With
  <2>4. CASE disk' = With(disk, d, "part") /\ d \in unwritten'
    BY <2>1, <2>4 DEF With
  <2> QED
    BY <1>5, <2>2, <2>3, <2>4
<1>7. OneRow' /\ OneInserter' /\ WorkerInv'
  <2>1. Docs \subseteq Docs' /\ d \notin Docs
    BY <1>2, <1>4 DEF Docs
  <2> QED
    BY <1>2, <1>5, <1>6, <2>1, MainRely
<1>8. /\ form'.busy = form.busy /\ form'.save = form.save /\ form'.title = form.title
      /\ form'.fields = Tail(form.fields)
      /\ form'.doc = IF form.doc = NoDoc THEN d ELSE form.doc
  BY <1>2, FieldsLeft DEF FormTypes
<1>9. FormInv'
  <2>1. form.busy
    BY DEF NextField
  <2>2. FormKnown'
    BY <1>3, <1>8, <2>1, FieldsLeft DEF FormKnown
  <2> QED
    BY <1>2, <1>3, <2>2 DEF FormInv
<1>10. MainOwns'
  BY <1>2, <1>3, <1>4, <1>8 DEF MainOwns
<1>11. SavedInv'
  <2> DEFINE SavedNext(e) == (e \in DOMAIN disk' /\ disk'[e] = "whole") \/ e \in unwritten' \cup repeated'
  <2>1. \A e : Saved(e) => SavedNext(e)
    BY <1>2, <1>5, <1>6 DEF Saved
  <2>2. form'.doc # NoDoc => SavedNext(form'.doc) \/ form'.title = "no title"
    <3>1. CASE form.doc = NoDoc
      BY <1>3, <1>6, <1>8, <3>1 DEF FormKnown
    <3>2. CASE form.doc # NoDoc
      BY <1>3, <1>8, <2>1, <3>2 DEF SavedInv
    <3> QED
      BY <3>1, <3>2
  <2>3. \A e \in DOMAIN disk' : disk'[e] = "part" => e \in unwritten'
    BY <1>3, <1>5, <1>6 DEF SavedInv
  <2>4. /\ \A id \in DOMAIN rows' : SavedNext(rows'[id])
        /\ \A i \in DOMAIN queue' :
             Valid(queue'[i]) /\ queue'[i].kind = "add" => SavedNext(queue'[i].doc)
        /\ \A w \in Workers : pc'[w] = "insert" => SavedNext(doc'[w])
    BY <1>2, <1>3, <2>1 DEF SavedInv
  <2> QED
    BY <2>2, <2>3, <2>4 DEF SavedInv, Saved, Valid
<1>12. KeptInv'
  BY <1>2, <1>3, <1>4, <1>6, <1>8 DEF KeptInv
<1> QED
  BY <1>7, <1>9, <1>10, <1>11, <1>12 DEF OwnerInv

LEMMA DispatchInv ==
  ASSUME IInv, Dispatch
  PROVE  OwnerInv' /\ SavedInv' /\ KeptInv'
<1> DEFINE r == Request("add", 0, form.doc, form.title)
<1>1. /\ UNCHANGED <<disk, rows, issued, uploads, pc, task, doc, reply, unwritten, unremoved, repeated,
                  given_up>>
      /\ form.busy /\ form' = NotReading /\ queue' = Append(queue, r)
  BY DEF Dispatch, dbVars, historyVars
<1>2. FormInv /\ MainOwns /\ SavedInv /\ KeptInv
  BY DEF IInv, OwnerInv
<1>3. r \in RequestTypes /\ r.doc = form.doc /\ r.kind = "add" /\ r.title = form.title
  <2>1. form.doc \in Nat /\ form.title \in Titles
    BY DEF IInv, Types, MainTypes
  <2> QED
    BY <2>1 DEF Request, RequestTypes, Kinds
<1>4. PICK n : /\ DOMAIN queue' = DOMAIN queue \cup {n} /\ n \notin DOMAIN queue
               /\ queue'[n] = r
               /\ \A i \in DOMAIN queue : queue'[i] = queue[i]
  BY <1>1, <1>3, Appended
<1>5. form'.doc = NoDoc /\ form'.save /\ form'.title = "" /\ DOMAIN form'.fields = {}
  BY <1>1, EmptyDomain DEF NotReading
<1>6. OneRow' /\ OneInserter' /\ WorkerInv'
  BY <1>1, MainRely DEF Docs
<1>7. FormInv'
  <2>1. FormKnown'
    BY <1>5 DEF FormKnown
  <2> QED
    BY <1>2, <1>3, <1>4, <2>1 DEF FormInv
<1>8. MainOwns'
  <2>1. ASSUME NEW i \in DOMAIN queue', queue'[i].doc # NoDoc
        PROVE  /\ queue'[i].doc # form'.doc
               /\ \A j \in DOMAIN queue' : queue'[j].doc = queue'[i].doc => i = j
               /\ \A id \in DOMAIN rows' : rows'[id] # queue'[i].doc
               /\ \A w \in Workers : doc'[w] # queue'[i].doc
    <3>1. CASE i = n
      <4>1. \A j \in DOMAIN queue : queue[j].doc # form.doc
        BY <1>2, <1>3, <1>4, <2>1, <3>1 DEF MainOwns
      <4>2. \A j \in DOMAIN queue' : queue'[j].doc = queue'[i].doc => i = j
        BY <1>3, <1>4, <3>1, <4>1
      <4>3. /\ \A id \in DOMAIN rows : rows[id] # form.doc
            /\ \A w \in Workers : doc[w] # form.doc
        BY <1>2, <1>3, <1>4, <2>1, <3>1 DEF MainOwns
      <4> QED
        BY <1>1, <1>3, <1>4, <1>5, <2>1, <3>1, <4>2, <4>3
    <3>2. CASE i # n
      <4>1. i \in DOMAIN queue /\ queue'[i] = queue[i] /\ queue[i].doc # form.doc
        BY <1>2, <1>4, <2>1, <3>2 DEF MainOwns
      <4>2. /\ \A j \in DOMAIN queue : queue[j].doc = queue[i].doc => i = j
            /\ \A id \in DOMAIN rows : rows[id] # queue[i].doc
            /\ \A w \in Workers : doc[w] # queue[i].doc
        BY <1>2, <2>1, <4>1 DEF MainOwns
      <4>3. \A j \in DOMAIN queue' : queue'[j].doc = queue'[i].doc => i = j
        BY <1>3, <1>4, <4>1, <4>2
      <4> QED
        BY <1>1, <1>5, <2>1, <4>1, <4>2, <4>3
    <3> QED
      BY <3>1, <3>2
  <2> QED
    BY <1>5, <2>1 DEF MainOwns
<1>9. SavedInv'
  <2>1. \A d : (d \in DOMAIN disk' /\ disk'[d] = "whole") \/ d \in unwritten' \cup repeated' <=> Saved(d)
    BY <1>1 DEF Saved
  <2>2. \A i \in DOMAIN queue' :
          Valid(queue'[i]) /\ queue'[i].kind = "add" => Saved(queue'[i].doc)
    BY <1>2, <1>3, <1>4 DEF SavedInv, Valid
  <2> QED
    BY <1>1, <1>2, <1>5, <2>1, <2>2 DEF SavedInv, Saved, Valid
<1>10. KeptInv'
  BY <1>1, <1>2, <1>3, <1>4 DEF KeptInv
<1> QED
  BY <1>6, <1>7, <1>8, <1>9, <1>10 DEF OwnerInv

LEMMA ReceiveGetInv ==
  ASSUME IInv, NEW kind \in {"get", "delete"}, NEW wanted \in 1..issued + 1, ReceiveGet(kind, wanted)
  PROVE  OwnerInv' /\ SavedInv' /\ KeptInv'
<1> DEFINE r == Request(kind, wanted, NoDoc, "")
<1>1. /\ UNCHANGED <<disk, rows, issued, uploads, pc, task, doc, reply, unwritten, unremoved, repeated,
                  given_up, form>>
      /\ queue' = Append(queue, r)
  BY DEF ReceiveGet, dbVars, mainVars, historyVars
<1>2. FormInv /\ MainOwns /\ SavedInv /\ KeptInv
  BY DEF IInv, OwnerInv
<1>3. r \in RequestTypes /\ r.doc = NoDoc /\ r.kind = kind
  <2>1. issued \in Nat
    BY DEF IInv, Types, StoreTypes
  <2> QED
    BY <2>1 DEF Request, RequestTypes, Kinds, Titles, NoDoc
<1>4. PICK n : /\ DOMAIN queue' = DOMAIN queue \cup {n} /\ n \notin DOMAIN queue
               /\ queue'[n] = r
               /\ \A i \in DOMAIN queue : queue'[i] = queue[i]
  BY <1>1, <1>3, Appended
<1>5. OneRow' /\ OneInserter' /\ WorkerInv'
  BY <1>1, MainRely DEF Docs
<1>6. FormInv'
  <2>1. FormKnown'
    BY <1>1, <1>2 DEF FormInv, FormKnown
  <2> QED
    BY <1>2, <1>3, <1>4, <2>1 DEF FormInv
<1>7. MainOwns'
  <2>1. ASSUME NEW i \in DOMAIN queue', queue'[i].doc # NoDoc
        PROVE  /\ queue'[i].doc # form'.doc
               /\ \A j \in DOMAIN queue' : queue'[j].doc = queue'[i].doc => i = j
               /\ \A id \in DOMAIN rows' : rows'[id] # queue'[i].doc
               /\ \A w \in Workers : doc'[w] # queue'[i].doc
    <3>1. i \in DOMAIN queue /\ queue'[i] = queue[i]
      BY <1>3, <1>4, <2>1
    <3> QED
      BY <1>1, <1>2, <1>3, <1>4, <2>1, <3>1 DEF MainOwns
  <2>2. form'.doc # NoDoc =>
          /\ \A id \in DOMAIN rows' : rows'[id] # form'.doc
          /\ \A w \in Workers : doc'[w] # form'.doc
    BY <1>1, <1>2 DEF MainOwns
  <2> QED
    BY <2>1, <2>2 DEF MainOwns
<1>8. SavedInv'
  <2>1. \A i \in DOMAIN queue' :
          Valid(queue'[i]) /\ queue'[i].kind = "add" => Saved(queue'[i].doc)
    BY <1>2, <1>3, <1>4 DEF SavedInv
  <2> QED
    BY <1>1, <1>2, <2>1 DEF SavedInv, Saved, Valid
<1>9. KeptInv'
  <2>1. UNCHANGED <<disk, rows, given_up, unremoved, form, pc, doc>>
    BY <1>1
  <2>2. \A d : (\E i \in DOMAIN queue : queue[i].doc = d) => \E i \in DOMAIN queue' : queue'[i].doc = d
    BY <1>4
  <2> QED
    BY <1>2, <2>1, <2>2 DEF KeptInv
<1> QED
  BY <1>5, <1>6, <1>7, <1>8, <1>9 DEF OwnerInv

-----------------------------------------------------------------------------
(* The environment, and all steps together. *)

LEMMA OutageInv ==
  ASSUME IInv, Outage \/ Restart \/ UNCHANGED vars
  PROVE  OwnerInv' /\ SavedInv' /\ KeptInv'
<1>1. UNCHANGED <<disk, rows, issued, uploads, form, queue, pc, task, doc, reply, unwritten,
                  unremoved, repeated, given_up>>
  BY DEF Outage, Restart, vars, dbVars, mainVars, historyVars
<1>2. FormInv /\ MainOwns /\ SavedInv /\ KeptInv
  BY DEF IInv, OwnerInv
<1>3. OneRow' /\ OneInserter' /\ WorkerInv'
  BY <1>1, MainRely DEF Docs
<1>4. FormInv'
  BY <1>1, <1>2 DEF FormInv, FormKnown
<1>5. MainOwns'
  BY <1>1, <1>2 DEF MainOwns
<1>6. SavedInv'
  BY <1>1, <1>2 DEF SavedInv, Saved, Valid
<1>7. KeptInv'
  BY <1>1, <1>2 DEF KeptInv
<1> QED
  BY <1>3, <1>4, <1>5, <1>6, <1>7 DEF OwnerInv

LEMMA CrashInv ==
  ASSUME IInv, Crash
  PROVE  OwnerInv' /\ SavedInv' /\ KeptInv'
<1>1. /\ UNCHANGED <<disk, rows, issued, uploads, unwritten, unremoved, repeated>>
      /\ form' = NotReading /\ queue' = <<>>
      /\ given_up' = given_up \cup Strays(InProgress)
      /\ \A w \in Workers : pc'[w] = "idle"
      /\ \A w \in Workers : doc'[w] = NoDoc
  BY DEF Crash, dbVars
<1>2. form'.doc = NoDoc /\ form'.save /\ form'.title = "" /\ DOMAIN form'.fields = {} /\ DOMAIN queue' = {}
  BY <1>1, EmptyDomain DEF NotReading
<1>3. OneRow /\ SavedInv /\ KeptInv
  BY DEF IInv, OwnerInv
<1>4. FormInv' /\ MainOwns'
  BY <1>1, <1>2 DEF FormInv, FormKnown, MainOwns
<1>5. OneRow' /\ OneInserter' /\ WorkerInv'
  BY <1>1, <1>3 DEF OneRow, OneInserter, WorkerInv, Fits
<1>6. SavedInv'
  BY <1>1, <1>2, <1>3 DEF SavedInv, Saved
<1>7. KeptInv'
  <2>1. SUFFICES ASSUME NEW d \in DOMAIN disk, \A id \in DOMAIN rows : rows[id] # d
                 PROVE  d \in given_up' \cup unremoved'
    BY <1>1 DEF KeptInv
  <2>2. d # NoDoc
    BY DEF IInv, Types, StoreTypes, Docs, NoDoc
  <2>3. d \in given_up \cup unremoved \/ d \in InProgress
    BY <1>3, <2>1 DEF KeptInv, InProgress
  <2> QED
    BY <1>1, <2>1, <2>2, <2>3 DEF Strays
<1> QED
  BY <1>4, <1>5, <1>6, <1>7 DEF OwnerInv

LEMMA StepInv == IInv /\ [Next]_vars => IInv'
<1>1. SUFFICES ASSUME IInv, [Next]_vars PROVE OwnerInv' /\ SavedInv' /\ KeptInv'
  BY TypesStep DEF IInv
<1>2. CASE Main
  <2>1. CASE NextField
    BY <1>1, <2>1, TitleInv, FileInv
  <2> QED
    BY <1>1, <1>2, <2>1, ReceiveFormInv, DispatchInv, ReceiveGetInv DEF Main
<1>3. ASSUME NEW w \in Workers, Worker(w) \/ Break(w)
      PROVE  OwnerInv' /\ SavedInv' /\ KeptInv'
  <2>1. CASE Refuse(w) \/ Serve(w)
    BY <1>1, <2>1, TakingInv
  <2>2. CASE WorkingStep(w)
    BY <1>1, <2>2, WorkingOwner, WorkingSaved, WorkingKept
  <2> QED
    BY <1>3, <2>1, <2>2 DEF Worker, WorkingStep, Rejected, GiveUp
<1>4. CASE Outage \/ Restart \/ UNCHANGED vars
  BY <1>1, <1>4, OutageInv
<1>5. CASE Crash
  BY <1>1, <1>5, CrashInv
<1> QED
  BY <1>1, <1>2, <1>3, <1>4, <1>5 DEF Next

LEMMA Invariance == Spec => []IInv
BY InitInv, StepInv, PTL DEF Spec

-----------------------------------------------------------------------------
(* What the properties say, for every instance. *)

\* Types, and the limit of the retries of every statement (exec_sql and
\* get_record try a statement 1 + max_retries times at most).
THEOREM TypeCorrectness == Spec => []TypeOK
<1>1. IInv => TypeOK
  <2>1. SUFFICES ASSUME IInv PROVE TypeOK
    OBVIOUS
  <2>2. \A d : d \in 0..uploads => d \in Docs \cup {NoDoc}
    BY <2>1 DEF IInv, Types, StoreTypes, Docs, NoDoc
  <2>3. /\ form.busy \in BOOLEAN /\ form.doc \in Docs \cup {NoDoc}
        /\ \A i \in DOMAIN queue : queue[i].doc \in Docs \cup {NoDoc}
    BY <2>1, <2>2 DEF IInv, Types, MainTypes
  <2>4. doc \in [Workers -> Docs \cup {NoDoc}]
    BY <2>1, <2>2 DEF IInv, Types, WorkerTypes
  <2> QED
    BY <2>1, <2>3, <2>4 DEF IInv, Types, StoreTypes, WorkerTypes, TypeOK
<1> QED
  BY <1>1, Invariance, PTL

\* A row has its file, whatever else happens (/ms/blob/add inserts the row of a
\* file that is on the disk, deleteFile removes the row before the file).
THEOREM RowsHaveFiles == Spec => []RowHasFile
<1>1. IInv => RowHasFile
  BY DEF IInv, SavedInv, Saved, RowHasFile
<1> QED
  BY <1>1, Invariance, PTL

\* A file without a row is in work, was given up, or is one that the system
\* refused to remove: other requests that were answered OK leave none.
THEOREM NoStrays == Spec => []NoStrayFile
<1>1. IInv => NoStrayFile
  BY DEF IInv, KeptInv, NoStrayFile, InProgress
<1> QED
  BY <1>1, Invariance, PTL

\* What downloadFile sends is the document of the row, whole if it was written
\* whole.
THEOREM DownloadsMatch == Spec => []DownloadMatchesRow
<1>1. IInv => DownloadMatchesRow
  BY DEF IInv, OwnerInv, WorkerInv, Fits, DownloadMatchesRow
<1> QED
  BY <1>1, Invariance, PTL

\* What deleteFile has answered OK to stays deleted: the row, and the file unless
\* the system refused to remove it (mse.cpp:338 answers OK to that as well).
THEOREM DeletionsFinal == Spec => []DeletionIsFinal
<1>1. IInv => DeletionIsFinal
  BY DEF IInv, OwnerInv, WorkerInv, Fits, DeletionIsFinal
<1> QED
  BY <1>1, Invariance, PTL
=============================================================================
