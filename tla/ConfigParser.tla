---------------------------- MODULE ConfigParser ----------------------------
(***************************************************************************)
(* config::parse(): /etc/cppserver/config.json, read line by line.         *)
(*                                                                         *)
(* The parser does not know JSON.  It tells lines apart by how they start  *)
(* and by the attribute names they contain, and has a loop for the file,   *)
(* one for a service, one for its fields and one for its mail; only the    *)
(* loop of the file asks for its end.  Any ] ends the fields and any } the *)
(* mail, also one within a text.                                           *)
(*                                                                         *)
(* Here a line is what those tests find out about it, and a text is the    *)
(* sequence of characters between its quotes in the file: a quote in it is *)
(* written as a backslash and a quote.                                     *)
(***************************************************************************)
EXTENDS Naturals, Sequences, FiniteSets, SequencesExt, Inputs

CONSTANTS
  Documents,  \* what a config.json may say: sequences of services
  MailKeys    \* attributes of a mail

Types == {"string", "date", "double", "int", "integer"}
ValueKeys == {"db", "sql", "function"}             \* a line with one text
ListKeys == {"validator", "roles", "tags", "audit"}   \* a line with some
Keys == ValueKeys \cup ListKeys
Unstated == ""   \* an attribute that a line does not have

ASSUME MailKeysAssumption == IsFiniteSet(MailKeys) /\ Unstated \notin MailKeys

IsText(text) == text \in Seq(Range(text))

\* A document is a sequence of services: each has a path, a text or a list of
\* texts for every key, fields in their order, and a text for every attribute of
\* its mail.  The path is that of a URL: without quotes, and without blanks
\* around it.
ASSUME DocumentsAssumption ==
  \A doc \in Documents :
    /\ IsText(doc)
    /\ \A i \in DOMAIN doc :
         /\ IsText(doc[i].uri) /\ "\"" \notin Range(doc[i].uri)
         /\ Trim(doc[i].uri) = doc[i].uri
         /\ doc[i].texts = [k \in Keys |-> doc[i].texts[k]]
         /\ \A k \in Keys : IsText(doc[i].texts[k])
         /\ doc[i].mail = [k \in MailKeys |-> doc[i].mail[k]]
         /\ \A k \in MailKeys : IsText(doc[i].mail[k])
         /\ IsText(doc[i].fields)
         /\ doc[i].secure \in BOOLEAN

VARIABLES
  document,  \* what the file says
  todo,      \* the lines not read yet
  loop,      \* the loop the parser is in; "done", or "aborted" by exit(-1)
  uri, m,    \* local variables: the path of the service and the service
  carried,   \* name, type and required as the last field left them
  params,    \* the fields read so far
  services   \* m_services

parserVars == <<document, todo, loop, uri, m, carried, params, services>>

-----------------------------------------------------------------------------
(* The file.  A document says of a service its uri, the texts of its keys,  *)
(* whether it is secure, its fields and its mail.                           *)

Line(is, key, text) ==
  [is |-> is, key |-> key, text |-> text,
   name |-> <<>>, type |-> Unstated, required |-> Unstated]
Mark(is) == Line(is, "", <<>>)
FieldLine(f) ==
  [is |-> "field", key |-> "", text |-> <<>>,
   name |-> f.name, type |-> f.type, required |-> f.required]

KeyLines(is, texts, keys) ==
  LET stated == SetToSeq({k \in keys : texts[k] # <<>>})
  IN  [i \in DOMAIN stated |-> Line(is, stated[i], texts[stated[i]])]

ServiceLines(s) ==
  <<Mark("{"), Line("key", "uri", s.uri)>>
  \o KeyLines("key", s.texts, Keys)
  \o (IF s.secure THEN <<>> ELSE <<Line("key", "secure", <<"0">>)>>)
  \o (IF s.fields = <<>> THEN <<>>
      ELSE <<Mark("fields")>> \o [i \in DOMAIN s.fields |-> FieldLine(s.fields[i])]
           \o <<Mark("]")>>)
  \o (IF \A k \in MailKeys : s.mail[k] = <<>> THEN <<>>
      ELSE <<Mark("email")>> \o KeyLines("mail", s.mail, MailKeys) \o <<Mark("}}}")>>)
  \o <<Mark("}")>>

File(doc) ==
  FlattenSeq(<<<<Mark("other"), Mark("other"), Mark("other")>>>>
             \o [i \in DOMAIN doc |-> ServiceLines(doc[i])]
             \o <<<<Mark("other"), Mark("other")>>>>)

-----------------------------------------------------------------------------
(* What is taken of a text.  The line is searched for the next quote, whether *)
(* or not that one is in the text.                                           *)

\* get_attribute()
GetAttribute(text) ==
  LET quotes == {i \in DOMAIN text : text[i] = "\""}
  IN  IF quotes = {} THEN text
      ELSE SubSeq(text, 1, (CHOOSE i \in quotes : \A j \in quotes : i <= j) - 1)

\* get_value()
GetValue(text) == Trim(GetAttribute(text))

\* get_names(), and get_attribute() for each of the names of the line.
GetNames(texts) == [i \in DOMAIN texts |-> GetAttribute(texts[i])]

Read(key, raw) == IF key \in ValueKeys THEN GetValue(raw) ELSE GetNames(raw)

-----------------------------------------------------------------------------
NewService ==
  [texts |-> [k \in Keys |-> <<>>], secure |-> TRUE, fields |-> <<>>,
   mail |-> [k \in MailKeys |-> <<>>]]
NoField == [name |-> <<>>, type |-> Unstated, required |-> Unstated]

\* The file may end anywhere: it was cut while it was written.
ParserInit ==
  /\ document \in Documents
  /\ \E last \in 3..Len(File(document)) : todo = SubSeq(File(document), 4, last)
  /\ loop = "file"
  /\ uri = <<>> /\ m = NewService
  /\ carried = NoField /\ params = <<>>
  /\ services = <<>>

\* line_reader::getline()
GetLine(in) == loop = in /\ todo # <<>> /\ todo' = Tail(todo)
Current == Head(todo)

\* The loop of the file looks for the next service.
ReadTop ==
  /\ GetLine("file")
  /\ IF Current.is = "{"
       THEN loop' = "service" /\ m' = NewService /\ uri' = <<>>
       ELSE UNCHANGED <<loop, m, uri>>
  /\ UNCHANGED <<document, carried, params, services>>

ReadKey ==
  /\ GetLine("service") /\ Current.is = "key"
  /\ uri' = IF Current.key = "uri" THEN GetValue(Current.text) ELSE uri
  /\ m' = CASE Current.key = "secure" -> [m EXCEPT !.secure = GetValue(Current.text) # <<"0">>]
            [] Current.key \in Keys ->
                 [m EXCEPT !.texts[Current.key] = Read(Current.key, Current.text)]
            [] OTHER -> m
  /\ UNCHANGED <<document, loop, carried, params, services>>

\* The rest of a list of fields, or of a mail, whose loop was left before its
\* end: those lines start with none of the names of a service.
SkipLine ==
  /\ GetLine("service") /\ Current.is \in {"field", "]", "mail", "}}}"}
  /\ UNCHANGED <<document, loop, uri, m, carried, params, services>>

\* The next line belongs to an inner loop, whose variables are new.
EnterLoop ==
  /\ GetLine("service") /\ Current.is \in {"fields", "email"}
  /\ loop' = Current.is
  /\ params' = <<>> /\ carried' = NoField
  /\ UNCHANGED <<document, uri, m, services>>

\* m_services.emplace(): the first service of a path stays.
EndService ==
  /\ GetLine("service") /\ Current.is = "}"
  /\ loop' = "file"
  /\ services' = IF uri \in DOMAIN services THEN services
                 ELSE [u \in DOMAIN services \cup {uri} |->
                         IF u = uri THEN m ELSE services[u]]
  /\ UNCHANGED <<document, uri, m, carried, params>>

\* Mutant: whether a field is required is not read from its line.
FieldOfLine == [name |-> Current.name, type |-> Current.type,
                required |-> carried.required]

\* name, type and required are declared outside of the loop: an attribute that
\* a line does not have is the one of the field before it.
Field ==
  [name     |-> IF Current.name = <<>> THEN carried.name ELSE GetAttribute(Current.name),
   type     |-> IF Current.type = Unstated THEN carried.type ELSE Current.type,
   required |-> IF Current.required = Unstated THEN carried.required
                ELSE Current.required]

\* The line contains a ].
FieldsEnd == Current.is = "]" \/ "]" \in Range(Current.name)

ReadField ==
  /\ GetLine("fields") /\ ~FieldsEnd
  /\ carried' = Field
  /\ IF Field.type \in Types
       THEN params' = Append(params, [Field EXCEPT !.required = @ = "true"])
            /\ UNCHANGED loop
       ELSE loop' = "aborted" /\ UNCHANGED params
  /\ UNCHANGED <<document, uri, m, services>>

\* A field that ends the list is not read itself.
EndFields ==
  /\ GetLine("fields") /\ FieldsEnd
  /\ loop' = "service"
  /\ m' = [m EXCEPT !.fields = params]
  /\ UNCHANGED <<document, uri, carried, params, services>>

\* Mutant: the loop of the mail goes on to the end of the service.
MailEndsWithService == Current.is = "}"

\* The line contains a }.
MailEnds == Current.is \in {"}", "}}}"} \/ "}" \in Range(Current.text)

\* An attribute that ends the mail is read before.
ReadMail ==
  /\ GetLine("email")
  /\ m' = IF Current.key \in MailKeys
            THEN [m EXCEPT !.mail[Current.key] = GetValue(Current.text)]
          ELSE m
  /\ loop' = IF MailEnds THEN "service" ELSE loop
  /\ UNCHANGED <<document, uri, carried, params, services>>

\* getline() returns "" at the end.  The loop of the file ends.  The loop of the
\* fields throws, on an empty type or when it has taken all the memory.  The
\* others go on for ever: there is no step.
EndOfFile ==
  /\ todo = <<>>
  /\ \/ loop = "file" /\ loop' = "done"
     \/ loop = "fields" /\ loop' = "aborted"
  /\ UNCHANGED <<document, todo, uri, m, carried, params, services>>

Parse ==
  \/ ReadTop \/ ReadKey \/ SkipLine \/ EnterLoop \/ EndService \/ ReadField
  \/ EndFields \/ ReadMail \/ EndOfFile
=============================================================================
