------------------------------- MODULE Inputs -------------------------------
(***************************************************************************)
(* Validation of one input (mse.cpp): trim, isInteger, isDouble, isDate and *)
(* the quoting of strings, on texts that are sequences of characters; and  *)
(* what an input is written as in an SQL text (requestParameters::sql).    *)
(***************************************************************************)
EXTENDS Naturals, Sequences, SequencesExt

\* The characters isdigit() accepts, and what stoi() makes of one.
Numerals == <<"0", "1", "2", "3", "4", "5", "6", "7", "8", "9">>
Digits == {Numerals[i] : i \in 1..10}
ValueOf(c) == (CHOOSE i \in 1..10 : Numerals[i] = c) - 1

\* trim()
Trim(text) ==
  LET filled == {i \in DOMAIN text : text[i] # " "}
  IN  IF filled = {} THEN <<>>
      ELSE SubSeq(text, CHOOSE i \in filled : \A j \in filled : i <= j,
                        CHOOSE i \in filled : \A j \in filled : i >= j)

\* isInteger(): an empty text is one.
IsInteger(text) == \A i \in DOMAIN text : text[i] \in Digits

\* isDouble(): at most one point, anywhere.
IsDouble(text) ==
  LET points == {i \in DOMAIN text : text[i] = "."}
  IN  IF points = {} THEN IsInteger(text)
      ELSE LET d == CHOOSE i \in points : \A j \in points : i <= j
           IN  IsInteger(SubSeq(text, 1, d - 1)) /\ IsInteger(SubSeq(text, d + 1, Len(text)))

\* Mutant: every fourth year is a leap year.
JulianIsDay(y, m, d) ==
  /\ m \in 1..12 /\ d \in 1..31
  /\ ~(d = 31 /\ m \in {2, 4, 6, 9, 11})
  /\ ~(d = 30 /\ m = 2)
  /\ ~(m = 2 /\ d = 29 /\ y % 4 # 0)

\* The tests of isDate(), in their order.
IsDay(y, m, d) ==
  /\ m \in 1..12 /\ d \in 1..31
  /\ ~(d = 31 /\ m \in {2, 4, 6, 9, 11})
  /\ ~(d = 30 /\ m = 2)
  /\ IF m = 2 /\ d = 29 /\ y % 4 # 0 THEN FALSE
     ELSE IF m = 2 /\ d = 29 /\ y % 400 = 0 THEN TRUE
     ELSE IF m = 2 /\ d = 29 /\ y % 100 = 0 THEN FALSE
     ELSE TRUE

\* stoi() of the two digits at i.
Two(text, i) == 10 * ValueOf(text[i]) + ValueOf(text[i + 1])

\* isDate(): ten characters, with digits where the numbers are.  What stands
\* between the numbers is not looked at.
IsDate(text) ==
  /\ Len(text) = 10
  /\ IsInteger(SubSeq(text, 9, 10)) /\ IsInteger(SubSeq(text, 6, 7))
  /\ IsInteger(SubSeq(text, 1, 4))
  /\ IsDay(100 * Two(text, 1) + Two(text, 3), Two(text, 6), Two(text, 9))

\* The tests of validateRequestParams(), for a value that is not empty.
HasType(text, type) ==
  CASE type \in {"int", "integer"} -> IsInteger(text)
    [] type = "double"             -> IsDouble(text)
    [] type = "date"               -> IsDate(text)
    [] type = "string"             -> TRUE

\* replaceString() returns at once when there is nothing to replace by, so
\* that of the backslashes does nothing.
ReplaceToken(text, from, to) ==
  IF to = <<>> THEN text
  ELSE FlattenSeq([i \in DOMAIN text |-> IF text[i] = from THEN to ELSE <<text[i]>>])

\* Mutant: quotes are left as they are.
StoredUnquoted(text, type) == text

\* p.value: only a string has its quotes doubled.
Stored(text, type) ==
  IF type = "string"
    THEN ReplaceToken(ReplaceToken(text, "'", <<"'", "'">>), "\\", <<>>)
    ELSE text

\* The literal that sql() puts in the place of a parameter.
Literal(value, type) ==
  CASE value = <<>> -> <<"NULL">>
    [] value # <<>> /\ type \in {"int", "integer", "double"} -> value
    [] OTHER -> <<"'">> \o value \o <<"'">>

-----------------------------------------------------------------------------
(* The calendar, for reference. *)
LeapYear(y) == y % 4 = 0 /\ (y % 100 # 0 \/ y % 400 = 0)
DaysOf(y, m) ==
  IF m = 2 THEN IF LeapYear(y) THEN 29 ELSE 28
  ELSE IF m \in {4, 6, 9, 11} THEN 30 ELSE 31
CalendarDay(y, m, d) == m \in 1..12 /\ d \in 1..DaysOf(y, m)

\* A text that gives a day: year, month and day with as many digits as they take
\* in yyyy-mm-dd, and any character in the place of each dash.
GivesDay(text) ==
  LET n(i) == ValueOf(text[i])
  IN  /\ Len(text) = 10
      /\ {text[i] : i \in {1, 2, 3, 4, 6, 7, 9, 10}} \subseteq Digits
      /\ CalendarDay(1000 * n(1) + 100 * n(2) + 10 * n(3) + n(4),
                     10 * n(6) + n(7), 10 * n(9) + n(10))
=============================================================================
