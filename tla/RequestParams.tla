---------------------------- MODULE RequestParams ----------------------------
(***************************************************************************)
(* From the text of a request to its parameters: parse_query_string() and  *)
(* decode_param() for a GET, parse_multipart() and the loop of eof() for a *)
(* POST; and the client that wrote the text.                               *)
(*                                                                         *)
(* A text is a sequence of tokens: a character, or a word that the code    *)
(* looks for as a whole.                                                   *)
(***************************************************************************)
EXTENDS Naturals, Sequences, SequencesExt

\* Where a part of a text begins; std::string::find() returns the first.
Occurrences(text, part) ==
  {i \in 1..Len(text) - Len(part) + 1 : SubSeq(text, i, i + Len(part) - 1) = part}
FirstOf(positions) == CHOOSE i \in positions : \A j \in positions : i <= j

\* unordered_map::emplace(): what is there stays.
Emplace(params, name, value) ==
  IF name \in DOMAIN params THEN params
  ELSE [n \in DOMAIN params \cup {name} |-> IF n = name THEN value ELSE params[n]]

NoParams == [n \in {} |-> <<>>]

-----------------------------------------------------------------------------
(* Query strings. *)

\* Percent codes.
Code(char) ==
  CASE char = "&" -> <<"%", "2", "6">>
    [] char = "%" -> <<"%", "2", "5">>
    [] char = "+" -> <<"%", "2", "B">>
    [] char = "=" -> <<"%", "3", "D">>
    [] char = " " -> <<"+">>
    [] OTHER      -> <<char>>
Coded == {"&", "%", "+", "="}
Char(hex) ==
  IF \E c \in Coded : Tail(Code(c)) = hex
    THEN CHOOSE c \in Coded : Tail(Code(c)) = hex ELSE "?"

\* Mutant: a code at the end of the value is not one.
DecodeBeforeEnd(value) ==
  LET n == Len(value)
      decode[i \in 1..n + 1] ==
        IF i > n THEN <<>>
        ELSE IF value[i] = "%" /\ i + 2 < n
               THEN <<Char(SubSeq(value, i + 1, i + 2))>> \o decode[i + 3]
        ELSE <<IF value[i] = "+" THEN " " ELSE value[i]>> \o decode[i + 1]
  IN  decode[1]

\* decode_param(): a % without two characters behind it is one.
DecodeParam(value) ==
  LET n == Len(value)
      decode[i \in 1..n + 1] ==
        IF i > n THEN <<>>
        ELSE IF value[i] = "%" /\ i + 2 <= n
               THEN <<Char(SubSeq(value, i + 1, i + 2))>> \o decode[i + 3]
        ELSE <<IF value[i] = "+" THEN " " ELSE value[i]>> \o decode[i + 1]
  IN  decode[1]

\* parse_query_string(), on what follows the ?: names are not decoded, the
\* first of a name stays, and a value may contain =.
StartPair(params) == [name |-> <<>>, value |-> <<>>, inValue |-> FALSE, params |-> params]
EndPair(s) ==
  IF s.name = <<>> THEN s.params ELSE Emplace(s.params, s.name, DecodeParam(s.value))
ReadChar(s, c) ==
  CASE c = "&" -> StartPair(EndPair(s))
    [] c = "=" /\ ~s.inValue -> [s EXCEPT !.inValue = TRUE]
    [] OTHER -> IF s.inValue THEN [s EXCEPT !.value = Append(@, c)]
                ELSE [s EXCEPT !.name = Append(@, c)]
ParseQueryString(query) ==
  LET n == Len(query)
      read[i \in 0..n] ==
        IF i = 0 THEN StartPair(NoParams) ELSE ReadChar(read[i - 1], query[i])
  IN  EndPair(read[n])

-----------------------------------------------------------------------------
(* Multipart bodies. *)

Boundary == "--boundary"
Eol == <<"\r", "\n">>
Quote == "\""

\* The lines that std::getline() returns.
NoLines == [done |-> <<>>, line |-> <<>>]
ReadByte(s, c) ==
  IF c = "\n" THEN [done |-> Append(s.done, s.line), line |-> <<>>]
  ELSE [s EXCEPT !.line = Append(@, c)]
Lines(body) ==
  LET n == Len(body)
      read[i \in 0..n] == IF i = 0 THEN NoLines ELSE ReadByte(read[i - 1], body[i])
  IN  IF read[n].line = <<>> THEN read[n].done ELSE Append(read[n].done, read[n].line)

\* get_part_field(): what follows the word, up to the next quote.
Attribute(line, word) ==
  IF Occurrences(line, word) = {} THEN <<>>
  ELSE LET rest == SubSeq(line, FirstOf(Occurrences(line, word)) + Len(word), Len(line))
       IN  IF Occurrences(rest, <<Quote>>) = {} THEN rest
           ELSE SubSeq(rest, 1, FirstOf(Occurrences(rest, <<Quote>>)) - 1)

\* The word filename=" ends in the word name=".
NameWord == <<"name=", Quote>>
FileWord == <<"file", "name=", Quote>>

\* Mutant: only the line feed in front of the boundary is taken off.
TrimLineFeed(part) ==
  IF part.filename # <<>> /\ part.data # <<>> THEN [part EXCEPT !.data = Front(@)]
  ELSE part

\* The end of line in front of a boundary is not part of a file.
Trimmed(part) ==
  IF part.filename # <<>> /\ part.data # <<>>
    THEN [part EXCEPT !.data = Front(Front(@))] ELSE part

\* parse_multipart().  `next` is what the following getline() is for.
NoPart == [name |-> <<>>, filename |-> <<>>, data |-> <<>>]
NoParts == [fields |-> <<>>, part |-> NoPart, next |-> "data"]
Stripped(line) == IF line # <<>> /\ line[1] = Boundary THEN Front(line) ELSE line
Emit(s) ==
  IF s.part.name = <<>> THEN s
  ELSE [s EXCEPT !.fields = Append(@, Trimmed(s.part)), !.part = NoPart]
Data(s, line) ==
  IF s.part.filename # <<>> THEN line \o <<"\n">>
  ELSE IF line # <<>> /\ Last(line) = "\r" THEN Front(line) ELSE line
ReadLine(s, line) ==
  CASE s.next = "disposition" ->
         LET filename == Attribute(line, FileWord)
         IN  [s EXCEPT !.part.name = Attribute(line, NameWord),
                       !.part.filename = filename,
                       !.next = IF filename = <<>> THEN "blank" ELSE "type"]
    [] s.next = "type"  -> [s EXCEPT !.next = "blank"]
    [] s.next = "blank" -> [s EXCEPT !.next = "data"]
    [] s.next = "data" /\ Stripped(line) = <<Boundary>> ->
         [Emit(s) EXCEPT !.next = "disposition"]
    [] s.next = "data" /\ Stripped(line) = <<Boundary, "-", "-">> -> Emit(s)
    [] OTHER -> [s EXCEPT !.part.data = @ \o Data(s, Stripped(line))]
ParseMultipart(body) ==
  LET lines == Lines(body)
      n == Len(lines)
      read[i \in 0..n] == IF i = 0 THEN NoParts ELSE ReadLine(read[i - 1], lines[i])
  IN  read[n].fields

\* The loop of eof(): the parameters, and the contents given to save_blob().
Uuid == <<"uuid">>
NoneTaken == [params |-> NoParams, save |-> TRUE, files |-> <<>>]
TakeField(s, f) ==
  IF f.filename = <<>>
    THEN [s EXCEPT !.params = Emplace(@, f.name, f.data),
                   !.save = @ /\ ~(f.name = <<"title">> /\ f.data = <<>>)]
    ELSE [params |-> Emplace(s.params, <<"document">>, Uuid),
          save   |-> s.save,
          files  |-> IF s.save THEN Append(s.files, f.data) ELSE s.files]
EofParams(fields) ==
  LET n == Len(fields)
      taken[i \in 0..n] == IF i = 0 THEN NoneTaken ELSE TakeField(taken[i - 1], fields[i])
  IN  [params |-> taken[n].params, files |-> taken[n].files]

-----------------------------------------------------------------------------
(* The client: a form is a sequence of names and data; a file has a name.   *)

Encoded(value) == FlattenSeq([i \in DOMAIN value |-> Code(value[i])])
Pair(form, i) ==
  (IF i = 1 THEN <<>> ELSE <<"&">>) \o form[i].name \o <<"=">> \o Encoded(form[i].data)
QueryString(form) == FlattenSeq([i \in DOMAIN form |-> Pair(form, i)])

Ended(line) == line \o Eol
Disposition(f) ==
  <<"form-data">> \o NameWord \o f.name \o <<Quote>>
  \o (IF f.filename = <<>> THEN <<>> ELSE FileWord \o f.filename \o <<Quote>>)
ContentType(f) == IF f.filename = <<>> THEN <<>> ELSE Ended(<<"Content-Type: ">>)
Part(f) ==
  Ended(<<Boundary>>) \o Ended(Disposition(f)) \o ContentType(f) \o Ended(<<>>) \o Ended(f.data)
MultipartBody(form) ==
  FlattenSeq([i \in DOMAIN form |-> Part(form[i])]) \o Ended(<<Boundary, "-", "-">>)
=============================================================================
