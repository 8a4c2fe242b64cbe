------------------------------- MODULE SqlText -------------------------------
(***************************************************************************)
(* From the configuration file and the text of a request to the text of    *)
(* the SQL statement: ConfigParser loads the services, RequestParams gives *)
(* the parameters of a request, Inputs accepts or refuses each of them,    *)
(* and requestParameters::sql() puts them into the template of the         *)
(* service, one occurrence of one parameter at a time.                     *)
(*                                                                         *)
(* What makes it hard is that every stage works on plain text: a template  *)
(* is searched again after a value was put into it, and a placeholder may  *)
(* be the beginning of another.                                            *)
(***************************************************************************)
EXTENDS ConfigParser, RequestParams, Inputs, FiniteSets, TLC

CONSTANTS
  Values,    \* what a client may send for a text field
  Contents,  \* the contents of a file it may send
  NotSent,   \* for a field that is not in its form
  UserLogin, \* t_user_info.userLogin
  MaxText    \* bound: a text that has grown to this size is not worked on

\* parse_multipart() drops the ends of the lines of a text: what is filled into a
\* field is one line.  The boundary that the client chose is in nothing it sends.
ASSUME SentAssumption ==
  /\ \A v \in Values : v \in Seq(Range(v) \ {Boundary, "\n"})
  /\ \A c \in Contents : c \in Seq(Range(c) \ {Boundary})
  /\ NotSent \notin Values \cup Contents \cup {<<>>}

\* What eof() makes of a file besides its document; only the document is modelled.
FileParams == {<<"content_len">>, <<"content_type">>, <<"filename">>}

\* The fields of a service have names of their own, without the characters that
\* end a name in a form: a client sends those names as they are.
ASSUME NamesAssumption ==
  \A doc \in Documents : \A i \in DOMAIN doc : \A f \in DOMAIN doc[i].fields :
    LET name == doc[i].fields[f].name
    IN  /\ name # <<>> /\ name \in Seq(Range(name) \ {"&", "=", Quote, "name=", "\n"})
        /\ name \notin FileParams /\ "$" \notin Range(name)
        /\ \A g \in DOMAIN doc[i].fields : doc[i].fields[g].name = name => g = f

\* The user's login is a text.
ASSUME TextsAssumption == IsText(UserLogin)

VARIABLES
  stage,     \* "none", "received", "refused", "substitute" or "done"
  path,      \* the path of the request
  sent,      \* the form of the client: a value for each field
  received,  \* the parameters and the files of the request
  values,    \* p.value of each field
  text,      \* local variable of sql(): the text so far
  field      \* the field whose occurrences are being replaced

requestVars == <<stage, path, sent, received, values, text, field>>
vars == <<parserVars, requestVars>>

Init ==
  /\ ParserInit
  /\ stage = "none"
  /\ path = <<>> /\ sent = <<>>
  /\ received = [params |-> NoParams, files |-> <<>>]
  /\ values = <<>> /\ text = <<>> /\ field = 0

Load == Parse /\ UNCHANGED requestVars

-----------------------------------------------------------------------------
Fields == services[path].fields
IsDocument(f) == f.name = <<"document">>

\* What a client may fill in, and the form it sends: the fields it left out are
\* not in it, and the document of an upload is a file.
Filled(fields) ==
  {s \in [DOMAIN fields -> Values \cup {NotSent} \cup Contents] :
     \A i \in DOMAIN fields :
       s[i] \in IF IsDocument(fields[i]) THEN Contents ELSE Values \cup {NotSent}}
Entry(f, data) ==
  [name     |-> IF IsDocument(f) THEN <<"file1">> ELSE f.name,
   filename |-> IF IsDocument(f) THEN <<"a.txt">> ELSE <<>>,
   data     |-> data]
Form(fields, s) ==
  FlattenSeq([i \in DOMAIN fields |->
                IF s[i] = NotSent THEN <<>> ELSE <<Entry(fields[i], s[i])>>])

\* request::parse() and eof(); a form with a file is sent as a POST, another
\* one either way.
Receive ==
  /\ loop = "done" /\ stage = "none"
  /\ stage' = "received"
  /\ \E p \in DOMAIN services :
     LET fields == services[p].fields IN
     \E s \in Filled(fields) :
       /\ path' = p /\ sent' = s
       /\ \/ received' = EofParams(ParseMultipart(MultipartBody(Form(fields, s))))
          \/ /\ \A i \in DOMAIN fields : ~IsDocument(fields[i])
             /\ received' = [params |-> ParseQueryString(QueryString(Form(fields, s))),
                             files |-> <<>>]
  /\ UNCHANGED <<parserVars, values, text, field>>

\* The value of the i-th field that is validated.
Input(i) ==
  IF Fields[i].name \in DOMAIN received.params THEN Trim(received.params[Fields[i].name])
  ELSE <<>>

BadField(i) ==
  \/ Fields[i].required /\ Input(i) = <<>>
  \/ Input(i) # <<>> /\ ~HasType(Input(i), Fields[i].type)

Refuse ==
  /\ stage = "received"
  /\ \E i \in DOMAIN Fields : BadField(i)
  /\ stage' = "refused"
  /\ UNCHANGED <<parserVars, path, sent, received, values, text, field>>

Placeholder(name) == <<"$">> \o name
ReplaceFirst(where, what, by) ==
  IF Occurrences(where, what) = {} THEN where
  ELSE ReplaceSubSeqAt(FirstOf(Occurrences(where, what)), by, what, where)

\* sql() begins with the first $userlogin.
Accept ==
  /\ stage = "received"
  /\ \A i \in DOMAIN Fields : ~BadField(i)
  /\ stage' = "substitute"
  /\ values' = [i \in DOMAIN Fields |-> Stored(Input(i), Fields[i].type)]
  /\ text' = ReplaceFirst(services[path].texts["sql"], Placeholder(<<"userlogin">>),
                          <<"'">> \o UserLogin \o <<"'">>)
  /\ field' = 1
  /\ UNCHANGED <<parserVars, path, sent, received>>

Found ==
  /\ field \in DOMAIN Fields
  /\ Occurrences(text, Placeholder(Fields[field].name)) # {}

\* Mutant: a parameter without a value is skipped and stays in the text.
SubstituteSent ==
  text' = IF values[field] = <<>> THEN text
          ELSE ReplaceFirst(text, Placeholder(Fields[field].name),
                            Literal(values[field], Fields[field].type))

\* sql.replace()
SubstituteValue ==
  text' = ReplaceFirst(text, Placeholder(Fields[field].name),
                       Literal(values[field], Fields[field].type))

\* One turn of the inner loop.
Substitute ==
  /\ stage = "substitute"
  /\ Found
  /\ Len(text) < MaxText
  /\ SubstituteValue
  /\ UNCHANGED <<parserVars, stage, path, sent, received, values, field>>

\* Mutant: the loop over the parameters goes one too far.
PastLast(i) == i > Len(Fields) + 1

Finished(i) == i > Len(Fields)

\* The inner loop is left; after the last parameter the text is complete.
NextField ==
  /\ stage = "substitute"
  /\ ~Found
  /\ IF Finished(field) THEN stage' = "done" /\ UNCHANGED field
     ELSE field' = field + 1 /\ UNCHANGED stage
  /\ UNCHANGED <<parserVars, path, sent, received, values, text>>

Serve == Refuse \/ Accept \/ Substitute \/ NextField

Next == Load \/ Receive \/ Serve

Spec == Init /\ [][Next]_vars

\* The thread that loads the configuration goes on, and so does the one that
\* serves a request; no client has to send one.
FairSpec == Spec /\ WF_vars(Load) /\ WF_vars(Serve)

-----------------------------------------------------------------------------
(* Properties *)

\* The texts and the counters stay in their ranges: the loop of sql() looks at
\* each parameter and stops behind the last one.
TypeOK ==
  /\ loop \in {"file", "service", "fields", "email", "done", "aborted"}
  /\ stage \in {"none", "received", "refused", "substitute", "done"}
  /\ path \in DOMAIN services \cup {<<>>}
  /\ field \in IF stage \in {"substitute", "done"} THEN 1..Len(Fields) + 1 ELSE {0}
  /\ DOMAIN values = IF stage \in {"substitute", "done"} THEN DOMAIN Fields ELSE {}

\* A text is taken as it is when it has no quote in it and, as a value, no blank at
\* its ends: get_value() and get_attribute() know of no \" and the first trims.
PlainText(t) == "\"" \notin Range(t) /\ Trim(t) = t
Plain(key, raw) ==
  IF key \in ValueKeys THEN PlainText(raw) ELSE \A i \in DOMAIN raw : "\"" \notin Range(raw[i])

\* A ] in the name of a field ends the list of the fields in front of it, and a }
\* in a text the mail behind it.
KeptFields(s) ==
  {i \in DOMAIN s.fields : \A j \in 1..i : "]" \notin Range(s.fields[j].name)}
Braced(mail) == \E k \in MailKeys : "}" \in Range(mail[k])

\* What a service of the document says is what is loaded, as far as its texts are
\* taken as they are: an attribute that a line states is that of the field, whatever
\* the lines before it said, and nothing else is lost than those fields and mails.
Agrees(service, s) ==
  /\ \A k \in Keys : Plain(k, s.texts[k]) => service.texts[k] = s.texts[k]
  /\ \A k \in MailKeys : PlainText(s.mail[k]) =>
       \/ service.mail[k] = s.mail[k]
       \/ service.mail[k] = <<>> /\ Braced(s.mail)
  /\ service.secure = s.secure
  /\ DOMAIN service.fields = KeptFields(s)
  /\ \A i \in KeptFields(s) :
       LET said == s.fields[i]
           f == service.fields[i]
       IN  /\ said.name # <<>> => f.name = said.name
           /\ said.type # Unstated => f.type = said.type
           /\ said.required # Unstated => f.required = (said.required = "true")

\* config::parse() loads no half service and mixes no two of them, wherever the
\* file was cut: what is in m_services are the first services of the document,
\* each as it is written, and of two with the same path the first.  What is lost
\* of a service is what Agrees() says: what stands behind a quote within a text,
\* fields from one with a ] on, and attributes of a mail behind a }.
ConfigAsWritten ==
  \E n \in 0..Len(document) :
    LET read == {i \in 1..n : \A j \in 1..i - 1 : document[j].uri # document[i].uri}
    IN  /\ DOMAIN services = {document[i].uri : i \in read}
        /\ \A i \in read : Agrees(services[document[i].uri], document[i])

\* A document whose fields all have a type, their own or that of the field in
\* front of them.
Valid(doc) ==
  \A i \in DOMAIN doc : \A f \in DOMAIN doc[i].fields :
    doc[i].fields[f].type \in Types \cup (IF f = 1 THEN {} ELSE {Unstated})
WholeFile == SubSeq(File(document), 4, Len(File(document)))

\* A whole and valid file is loaded to its end, with every service in it.  (Of a
\* file that is cut within a service the parser never comes back.)
ConfigLoads ==
  (todo = WholeFile /\ Valid(document)) ~>
  (loop = "done" /\ DOMAIN services = {document[i].uri : i \in DOMAIN document})

\* What the parser of a request finds is what the client filled in, whichever
\* way the form was encoded: names, values, and the bytes of a file, which is
\* saved unless a title in front of it was left empty.
ParamsAsSent ==
  stage # "none" =>
    /\ \A i \in DOMAIN Fields :
         \/ IsDocument(Fields[i])
         \/ IF sent[i] = NotSent THEN Fields[i].name \notin DOMAIN received.params
            ELSE /\ Fields[i].name \in DOMAIN received.params
                 /\ received.params[Fields[i].name] = sent[i]
    /\ received.files =
         FlattenSeq([f \in DOMAIN Fields |->
           IF /\ IsDocument(Fields[f])
              /\ \A i \in 1..f - 1 : Fields[i].name = <<"title">> => sent[i] # <<>>
             THEN <<sent[f]>> ELSE <<>>])

\* What a field is meant to hold, without the blanks around it.
Meant(i) ==
  IF IsDocument(Fields[i]) THEN Uuid ELSE IF sent[i] = NotSent THEN <<>> ELSE Trim(sent[i])
Malformed(i) ==
  LET chars == {Meant(i)[c] : c \in DOMAIN Meant(i)}
  IN  CASE Fields[i].type \in {"int", "integer"} -> ~(chars \subseteq Digits)
        [] Fields[i].type = "double" ->
             \/ ~(chars \subseteq Digits \cup {"."})
             \/ Cardinality({c \in DOMAIN Meant(i) : Meant(i)[c] = "."}) > 1
        [] Fields[i].type = "date" -> ~GivesDay(Meant(i))
        [] Fields[i].type = "string" -> FALSE

\* A form is refused when a required field was left out or a value is not one
\* of the field's type, and never otherwise.  A date is the year, the month and the
\* day of a day of the calendar.  Not that it is written yyyy-mm-dd, as the comment
\* of isDate() has it (mse.cpp:51): 2024/02/29 and 2024'02'29 are accepted.
RefusedIffInvalid ==
  LET invalid == \E i \in DOMAIN Fields :
        IF Meant(i) = <<>> THEN Fields[i].required ELSE Malformed(i)
  IN  /\ stage = "refused" => invalid
      /\ stage \in {"substitute", "done"} => ~invalid

\* The literals that are meant: of the user's login for 0, of a field's value else.
MeantLiteral(i) ==
  LET Doubled(value) ==
        FlattenSeq([c \in DOMAIN value |->
                      IF value[c] = "'" THEN <<"'", "'">> ELSE <<value[c]>>])
  IN  CASE i = 0 -> <<"'">> \o UserLogin \o <<"'">>
        [] i # 0 /\ Meant(i) = <<>> -> <<"NULL">>
        [] i # 0 /\ Meant(i) # <<>> /\ Fields[i].type \in {"int", "integer", "double"} -> Meant(i)
        [] OTHER -> <<"'">> \o Doubled(Meant(i)) \o <<"'">>

\* The placeholders in the order of sql(), and the longest that begins at p.
Marks ==
  [i \in {0} \cup DOMAIN Fields |->
     Placeholder(IF i = 0 THEN <<"userlogin">> ELSE Fields[i].name)]
MarksAt(template, marks, p) == {i \in DOMAIN marks : p \in Occurrences(template, marks[i])}
Longest(template, marks, p) ==
  CHOOSE i \in MarksAt(template, marks, p) :
    \A j \in MarksAt(template, marks, p) : Len(marks[j]) <= Len(marks[i])

\* The statement a service is meant to run: each placeholder of its template,
\* the longest one that begins there, stands for its literal.
MeantText(template) ==
  LET Within(p) == \E q \in 1..p - 1 : /\ MarksAt(template, Marks, q) # {}
                                       /\ p < q + Len(Marks[Longest(template, Marks, q)])
  IN  FlattenSeq([p \in DOMAIN template |->
        IF MarksAt(template, Marks, p) # {} THEN MeantLiteral(Longest(template, Marks, p))
        ELSE IF Within(p) THEN <<>> ELSE <<template[p]>>])

\* What sql() finds is what the template has: no value brings a $, no date a quote
\* (isDate() accepts one between the numbers, and only strings have theirs doubled),
\* no placeholder begins a later one, $userlogin is there once, and what stands
\* between two $ of the template does not become a placeholder when the second is
\* replaced.
Apart(stored, template) ==
  /\ \A value \in Range(stored) \cup {UserLogin} : Occurrences(value, <<"$">>) = {}
  /\ \A i \in DOMAIN Fields : Fields[i].type = "date" => "'" \notin Range(stored[i])
  /\ \A i, j \in DOMAIN Marks : i < j => ~IsPrefix(Marks[i], Marks[j])
  /\ \A p, q \in Occurrences(template, Marks[0]) : p = q
  /\ \A p, q \in Occurrences(template, <<"$">>), i \in DOMAIN Marks :
       p < q => ~IsStrictPrefix(SubSeq(template, p, q - 1), Marks[i])

\* sql() searches its own result again and again and still gives that text.
SqlAsTemplate ==
  (stage = "done" /\ Apart(values, services[path].texts["sql"]))
  => text = MeantText(services[path].texts["sql"])

\* Every request with an accepted form gets its statement: the loop of sql() ends
\* whenever no value contains the placeholder of its own field.
SubstitutionEnds ==
  (/\ stage = "received"
   /\ \A i \in DOMAIN Fields : Occurrences(Input(i), Placeholder(Fields[i].name)) = {})
  ~> stage \in {"refused", "done"}
=============================================================================
