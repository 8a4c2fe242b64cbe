---------------------------- MODULE InputsProofs ----------------------------
(***************************************************************************)
(* What the tests of an input accept: isDate() the texts that give a day   *)
(* of the Gregorian calendar, in every year and with any character between *)
(* the numbers, isDouble() the digits with at most one point; and trim()   *)
(* takes off the blanks around a text and nothing else.  And the parsers   *)
(* of a request give back what a client wrote, as a query string or as a   *)
(* multipart body.                                                         *)
(*                                                                         *)
(* Both rest on what is said here of texts: first and last positions,      *)
(* induction over their characters, recursive functions, and FlattenSeq(); *)
(* at the end, of the pieces that a text is put together from.             *)
(***************************************************************************)
EXTENDS Inputs, RequestParams, FiniteSets, SequenceTheorems, FiniteSetTheorems,
        WellFoundedInduction, TLAPS

\* The order of the tests of isDate() does no harm: of 29 February it asks for
\* the multiples of 4, then of 400, then of 100.
LEMMA LeapDays ==
  ASSUME NEW y \in Nat
  PROVE  (IF y % 4 # 0 THEN FALSE ELSE IF y % 400 = 0 THEN TRUE
          ELSE IF y % 100 = 0 THEN FALSE ELSE TRUE) <=> LeapYear(y)
<1>1. y % 400 = 0 => y % 4 = 0
  BY SMT
<1> QED
  BY <1>1 DEF LeapYear

\* The numbers isDate() accepts are exactly the days of the calendar, in every
\* year (mse.cpp:65-86).
THEOREM DatesAreDays ==
  ASSUME NEW y \in Nat, NEW m \in Nat, NEW d \in Nat
  PROVE  IsDay(y, m, d) <=> CalendarDay(y, m, d)
<1>1. CASE m = 2 /\ d = 29
  BY <1>1, LeapDays DEF IsDay, CalendarDay, DaysOf
<1>2. CASE ~(m = 2 /\ d = 29)
  <2>1. IsDay(y, m, d) <=>
          /\ m \in 1..12 /\ d \in 1..31
          /\ ~(d = 31 /\ m \in {2, 4, 6, 9, 11})
          /\ ~(d = 30 /\ m = 2)
    BY <1>2 DEF IsDay
  <2>2. CASE m = 2
    BY <1>2, <2>1, <2>2 DEF CalendarDay, DaysOf
  <2>3. CASE m # 2
    BY <2>1, <2>3 DEF CalendarDay, DaysOf
  <2> QED
    BY <2>2, <2>3
<1> QED
  BY <1>1, <1>2

\* The ten digits, and what they are worth.
LEMMA TenDigits ==
  /\ Digits = {"0", "1", "2", "3", "4", "5", "6", "7", "8", "9"}
  /\ \A c \in Digits : ValueOf(c) \in 0..9
<1>1. \A c : c \in Digits <=> \E i \in 1..10 : c = Numerals[i]
  BY DEF Digits
<1>2. \A i \in 1..10 : \/ i = 1 \/ i = 2 \/ i = 3 \/ i = 4 \/ i = 5
                       \/ i = 6 \/ i = 7 \/ i = 8 \/ i = 9 \/ i = 10
  OBVIOUS
<1>3. /\ Numerals[1] = "0" /\ Numerals[2] = "1" /\ Numerals[3] = "2" /\ Numerals[4] = "3"
      /\ Numerals[5] = "4" /\ Numerals[6] = "5" /\ Numerals[7] = "6" /\ Numerals[8] = "7"
      /\ Numerals[9] = "8" /\ Numerals[10] = "9"
  BY DEF Numerals
<1>4. Digits = {"0", "1", "2", "3", "4", "5", "6", "7", "8", "9"}
  <2>1. ASSUME NEW c \in Digits
        PROVE  c \in {"0", "1", "2", "3", "4", "5", "6", "7", "8", "9"}
    <3>1. PICK i \in 1..10 : c = Numerals[i]
      BY <1>1
    <3>2. QED
      BY <1>2, <1>3, <3>1
  <2>2. ASSUME NEW c \in {"0", "1", "2", "3", "4", "5", "6", "7", "8", "9"}
        PROVE  c \in Digits
    <3>1. /\ 1 \in 1..10 /\ 2 \in 1..10 /\ 3 \in 1..10 /\ 4 \in 1..10 /\ 5 \in 1..10
          /\ 6 \in 1..10 /\ 7 \in 1..10 /\ 8 \in 1..10 /\ 9 \in 1..10 /\ 10 \in 1..10
      OBVIOUS
    <3>2. QED
      BY <1>1, <1>3, <3>1
  <2>3. QED
    BY <2>1, <2>2
<1>5. ASSUME NEW c \in Digits PROVE ValueOf(c) \in 0..9
  <2> DEFINE at == CHOOSE i \in 1..10 : Numerals[i] = c
  <2>1. \E i \in 1..10 : Numerals[i] = c
    BY <1>1
  <2>2. at \in 1..10
    BY <2>1
  <2> HIDE DEF at
  <2>3. at - 1 \in 0..9
    BY <2>2
  <2>4. QED
    BY <2>3 DEF ValueOf, at
<1>6. QED
  BY <1>4, <1>5

\* isDate() takes the texts that give a day, and no other: year, month and day
\* are digits at their places.  It does not ask for the dashes of the yyyy-mm-dd
\* in its comment: any character may stand in their place (mse.cpp:51-88).
THEOREM DatesGiveDays ==
  ASSUME NEW S, NEW text \in Seq(S)
  PROVE  IsDate(text) <=> GivesDay(text)
<1> DEFINE places == {text[i] : i \in {1, 2, 3, 4, 6, 7, 9, 10}}
<1>1. CASE Len(text) # 10
  BY <1>1 DEF IsDate, GivesDay
<1>2. CASE Len(text) = 10
  <2>1. ASSUME NEW a \in 1..10, NEW b \in a..10
        PROVE  IsInteger(SubSeq(text, a, b)) <=> \A i \in a..b : text[i] \in Digits
    <3> DEFINE part == SubSeq(text, a, b)
    <3>1. DOMAIN part = 1..b - a + 1 /\ \A i \in 1..b - a + 1 : part[i] = text[a + i - 1]
      BY <1>2, <2>1
    <3> HIDE DEF part
    <3>2. IsInteger(part) <=> \A i \in 1..b - a + 1 : text[a + i - 1] \in Digits
      BY <3>1 DEF IsInteger
    <3>3. ASSUME \A i \in 1..b - a + 1 : text[a + i - 1] \in Digits, NEW i \in a..b
          PROVE  text[i] \in Digits
      <4>1. i - a + 1 \in 1..b - a + 1 /\ a + (i - a + 1) - 1 = i
        OBVIOUS
      <4>2. QED
        BY <3>3, <4>1
    <3>4. ASSUME \A i \in a..b : text[i] \in Digits, NEW i \in 1..b - a + 1
          PROVE  text[a + i - 1] \in Digits
      <4>1. a + i - 1 \in a..b
        OBVIOUS
      <4>2. QED
        BY <3>4, <4>1
    <3>5. QED
      BY <3>2, <3>3, <3>4 DEF part
  <2>2. /\ IsInteger(SubSeq(text, 1, 4)) <=> \A i \in 1..4 : text[i] \in Digits
        /\ IsInteger(SubSeq(text, 6, 7)) <=> \A i \in 6..7 : text[i] \in Digits
        /\ IsInteger(SubSeq(text, 9, 10)) <=> \A i \in 9..10 : text[i] \in Digits
    BY <2>1
  <2>3. (/\ IsInteger(SubSeq(text, 9, 10)) /\ IsInteger(SubSeq(text, 6, 7))
         /\ IsInteger(SubSeq(text, 1, 4))) <=> places \subseteq Digits
    <3>1. 1..4 = {1, 2, 3, 4} /\ 6..7 = {6, 7} /\ 9..10 = {9, 10}
      OBVIOUS
    <3>2. QED
      BY <2>2, <3>1
  <2>4. ASSUME places \subseteq Digits
        PROVE  IsDay(100 * Two(text, 1) + Two(text, 3), Two(text, 6), Two(text, 9))
                 <=> CalendarDay(1000 * ValueOf(text[1]) + 100 * ValueOf(text[2])
                                   + 10 * ValueOf(text[3]) + ValueOf(text[4]),
                                 10 * ValueOf(text[6]) + ValueOf(text[7]),
                                 10 * ValueOf(text[9]) + ValueOf(text[10]))
    <3> DEFINE y1 == ValueOf(text[1])
               y2 == ValueOf(text[2])
               y3 == ValueOf(text[3])
               y4 == ValueOf(text[4])
               m1 == ValueOf(text[6])
               m2 == ValueOf(text[7])
               d1 == ValueOf(text[9])
               d2 == ValueOf(text[10])
    <3>1. /\ y1 \in 0..9 /\ y2 \in 0..9 /\ y3 \in 0..9 /\ y4 \in 0..9
          /\ m1 \in 0..9 /\ m2 \in 0..9 /\ d1 \in 0..9 /\ d2 \in 0..9
      BY <2>4, TenDigits
    <3>2. /\ Two(text, 1) = 10 * y1 + y2 /\ Two(text, 3) = 10 * y3 + y4
          /\ Two(text, 6) = 10 * m1 + m2 /\ Two(text, 9) = 10 * d1 + d2
      BY DEF Two
    <3> HIDE DEF y1, y2, y3, y4, m1, m2, d1, d2
    <3>3. /\ 100 * Two(text, 1) + Two(text, 3) = 1000 * y1 + 100 * y2 + 10 * y3 + y4
          /\ 1000 * y1 + 100 * y2 + 10 * y3 + y4 \in Nat
          /\ 10 * m1 + m2 \in Nat /\ 10 * d1 + d2 \in Nat
      BY <3>1, <3>2
    <3>4. IsDay(100 * Two(text, 1) + Two(text, 3), Two(text, 6), Two(text, 9))
            <=> CalendarDay(1000 * y1 + 100 * y2 + 10 * y3 + y4, 10 * m1 + m2, 10 * d1 + d2)
      BY <3>2, <3>3, DatesAreDays
    <3>5. QED
      BY <3>4 DEF y1, y2, y3, y4, m1, m2, d1, d2
  <2> HIDE DEF places
  <2>5. QED
    BY <1>2, <2>3, <2>4 DEF IsDate, GivesDay, places
<1>3. QED
  BY <1>1, <1>2

-----------------------------------------------------------------------------
(* Positions in a text. *)

LessThan == {pair \in Nat \X Nat : pair[1] < pair[2]}

LEMMA LessThanWellFounded == IsWellFoundedOn(LessThan, Nat)
BY NatLessThanWellFounded DEF OpToRel, LessThan

\* find() and find_first_not_of() find the first position there is.
LEMMA FirstPosition ==
  ASSUME NEW S \in SUBSET Nat, S # {}
  PROVE  LET first == CHOOSE i \in S : \A j \in S : i <= j
         IN  first \in S /\ \A j \in S : first <= j
<1>1. PICK x \in S : \A y \in S : ~(<<y, x>> \in LessThan)
  BY LessThanWellFounded, WFMin
<1>2. ASSUME NEW y \in S PROVE x <= y
  <2>1. ~(<<y, x>> \in LessThan)
    BY <1>1
  <2>2. QED
    BY <2>1 DEF LessThan
<1>3. QED
  BY <1>2

\* find_last_not_of() finds the last one.
LEMMA LastPosition ==
  ASSUME NEW n \in Nat, NEW S \in SUBSET (1..n), S # {}
  PROVE  LET last == CHOOSE i \in S : \A j \in S : i >= j
         IN  last \in S /\ \A j \in S : last >= j
<1> DEFINE T == {n - x : x \in S}
<1>1. PICK x0 \in S : TRUE
  OBVIOUS
<1>2. T \subseteq Nat /\ n - x0 \in T
  OBVIOUS
<1>3. PICK t \in T : \A y \in T : ~(<<y, t>> \in LessThan)
  BY <1>2, LessThanWellFounded, WFMin
<1>4. PICK x \in S : t = n - x
  BY <1>3
<1>5. ASSUME NEW y \in S PROVE x >= y
  <2>1. n - y \in T /\ ~(<<n - y, t>> \in LessThan)
    BY <1>3
  <2>2. n - y \in Nat /\ t \in Nat
    OBVIOUS
  <2>3. ~(n - y < t)
    BY <2>1, <2>2 DEF LessThan
  <2>4. QED
    BY <2>3, <1>4
<1>6. QED
  BY <1>5

-----------------------------------------------------------------------------
LEMMA LastIndex ==
  ASSUME NEW n \in Nat, NEW i \in 1..n, ~(i + 1 <= n)
  PROVE  i = n
OBVIOUS

LEMMA NotBeyond ==
  ASSUME NEW n \in Nat, NEW a \in 1..n, NEW b \in 1..n, NEW i \in 1..n,
         a <= i, b >= i
  PROVE  ~(i < a) /\ ~(b < i)
OBVIOUS

\* isDouble() cuts a text at its first point and asks for digits on both sides:
\* that accepts exactly the texts of digits with at most one point, which may be
\* anywhere (mse.cpp:38-49).
THEOREM DoublesHaveOnePoint ==
  ASSUME NEW S, NEW text \in Seq(S)
  PROVE  IsDouble(text) <=>
           /\ \A i \in DOMAIN text : text[i] \in Digits \cup {"."}
           /\ \A i, j \in DOMAIN text : text[i] = "." /\ text[j] = "." => i = j
<1> DEFINE n == Len(text)
           points == {i \in DOMAIN text : text[i] = "."}
           d == CHOOSE i \in points : \A j \in points : i <= j
<1>0. "." \notin Digits
  BY TenDigits
<1>1. n \in Nat /\ DOMAIN text = 1..n
  BY LenProperties
<1>2. CASE points = {}
  <2>1. IsDouble(text) <=> IsInteger(text)
    BY <1>2 DEF IsDouble
  <2>2. \A i \in DOMAIN text : text[i] # "."
    BY <1>2
  <2>3. QED
    BY <2>1, <2>2 DEF IsInteger
<1>3. CASE points # {}
  <2>1. d \in points /\ \A j \in points : d <= j
    <3>1. points \in SUBSET Nat
      BY <1>1
    <3>2. QED
      BY <1>3, <3>1, FirstPosition
  <2>2. IsDouble(text) <=>
          IsInteger(SubSeq(text, 1, d - 1)) /\ IsInteger(SubSeq(text, d + 1, Len(text)))
    BY <1>3 DEF IsDouble
  <2>3. d \in 1..n /\ text[d] = "."
    BY <1>1, <2>1
  <2>4. \A j \in 1..n : text[j] = "." => d <= j
    BY <1>1, <2>1
  <2> HIDE DEF d, points
  <2>5. IsInteger(SubSeq(text, 1, d - 1)) <=> \A i \in 1..d - 1 : text[i] \in Digits
    <3> DEFINE part == SubSeq(text, 1, d - 1)
    <3>1. part \in Seq(S) /\ Len(part) = d - 1 /\ \A i \in 1..d - 1 : part[i] = text[i]
      BY <1>1, <2>3
    <3>2. DOMAIN part = 1..d - 1
      BY <3>1, LenProperties
    <3> HIDE DEF part
    <3>3. IsInteger(part) <=> \A i \in 1..d - 1 : text[i] \in Digits
      BY <3>1, <3>2 DEF IsInteger
    <3>4. QED
      BY <3>3 DEF part
  <2>6. IsInteger(SubSeq(text, d + 1, n)) <=> \A i \in d + 1..n : text[i] \in Digits
    <3> DEFINE part == SubSeq(text, d + 1, n)
    <3>1. /\ part \in Seq(S)
          /\ Len(part) = IF d + 1 <= n THEN n - (d + 1) + 1 ELSE 0
          /\ \A i \in 1..n - (d + 1) + 1 : part[i] = text[d + 1 + i - 1]
      <4>1. d + 1 \in 1..n + 1 /\ n \in d + 1 - 1..n
        BY <1>1, <2>3
      <4>2. QED
        BY <1>1, <4>1, SubSeqProperties
    <3> HIDE DEF part
    <3>2. Len(part) = n - d /\ \A i \in 1..n - d : part[i] = text[i + d]
      <4>1. n - (d + 1) + 1 = n - d
        BY <1>1, <2>3
      <4>2. Len(part) = n - d
        <5>1. CASE d + 1 <= n
          BY <3>1, <4>1, <5>1
        <5>2. CASE ~(d + 1 <= n)
          <6>1. d = n
            BY <1>1, <2>3, <5>2, LastIndex
          <6>2. QED
            BY <1>1, <3>1, <5>2, <6>1
        <5>3. QED
          BY <5>1, <5>2
      <4>3. ASSUME NEW i \in 1..n - d PROVE part[i] = text[i + d]
        <5>1. d + 1 + i - 1 = i + d
          BY <1>1, <2>3
        <5>2. QED
          BY <3>1, <4>1, <5>1
      <4>4. QED
        BY <4>2, <4>3
    <3>6. DOMAIN part = 1..n - d
      BY <3>1, <3>2, LenProperties
    <3> HIDE DEF part
    <3>3. IsInteger(part) <=> \A i \in 1..n - d : text[i + d] \in Digits
      BY <3>2, <3>6 DEF IsInteger
    <3>4. (\A i \in 1..n - d : text[i + d] \in Digits)
            <=> \A i \in d + 1..n : text[i] \in Digits
      <4>1. ASSUME \A i \in 1..n - d : text[i + d] \in Digits, NEW i \in d + 1..n
            PROVE  text[i] \in Digits
        <5>1. i - d \in 1..n - d /\ (i - d) + d = i
          BY <1>1, <2>3
        <5>2. QED
          BY <4>1, <5>1
      <4>2. ASSUME \A i \in d + 1..n : text[i] \in Digits, NEW i \in 1..n - d
            PROVE  text[i + d] \in Digits
        <5>1. i + d \in d + 1..n
          BY <1>1, <2>3
        <5>2. QED
          BY <4>2, <5>1
      <4>3. QED
        BY <4>1, <4>2
    <3>5. QED
      BY <3>3, <3>4 DEF part
  <2>7. ASSUME \A i \in 1..d - 1 : text[i] \in Digits,
               \A i \in d + 1..n : text[i] \in Digits
        PROVE  /\ \A i \in 1..n : text[i] \in Digits \cup {"."}
               /\ \A i, j \in 1..n : text[i] = "." /\ text[j] = "." => i = j
    <3>1. ASSUME NEW i \in 1..n PROVE i = d \/ text[i] \in Digits
      BY <1>1, <2>3, <2>7
    <3>2. QED
      BY <1>0, <2>3, <3>1
  <2>8. ASSUME \A i \in 1..n : text[i] \in Digits \cup {"."},
               \A i, j \in 1..n : text[i] = "." /\ text[j] = "." => i = j,
               NEW i \in 1..n, i # d
        PROVE  text[i] \in Digits
    BY <2>3, <2>8
  <2>9. (d - 1) \in Nat /\ 1..d - 1 \subseteq 1..n /\ d + 1..n \subseteq 1..n
        /\ d \notin 1..d - 1 /\ d \notin d + 1..n
    BY <1>1, <2>3
  <2>10. QED
    BY <1>1, <2>2, <2>5, <2>6, <2>7, <2>8, <2>9
<1>4. QED
  BY <1>2, <1>3

\* trim() takes off the blanks in front of a text and behind it, and nothing
\* else: a text of blanks becomes empty (mse.cpp:25-31).
THEOREM TrimTakesOffBlanks ==
  ASSUME NEW S, NEW text \in Seq(S)
  PROVE  \/ Trim(text) = <<>> /\ \A i \in DOMAIN text : text[i] = " "
         \/ \E a, b \in DOMAIN text :
              /\ a <= b /\ Trim(text) = SubSeq(text, a, b)
              /\ text[a] # " " /\ text[b] # " "
              /\ \A i \in DOMAIN text : (i < a \/ b < i) => text[i] = " "
<1> DEFINE n == Len(text)
           filled == {i \in DOMAIN text : text[i] # " "}
           a == CHOOSE i \in filled : \A j \in filled : i <= j
           b == CHOOSE i \in filled : \A j \in filled : i >= j
<1>1. n \in Nat /\ DOMAIN text = 1..n
  BY LenProperties
<1>2. CASE filled = {}
  BY <1>2 DEF Trim
<1>3. CASE filled # {}
  <2>1. filled \subseteq 1..n
    BY <1>1
  <2>2. a \in filled /\ \A j \in filled : a <= j
    <3>1. 1..n \subseteq Nat
      BY <1>1
    <3>2. filled \in SUBSET Nat
      BY <2>1, <3>1
    <3> HIDE DEF filled
    <3>3. QED
      BY <1>3, <3>2, FirstPosition
  <2>3. b \in filled /\ \A j \in filled : b >= j
    <3>1. filled \in SUBSET (1..n)
      BY <2>1
    <3> HIDE DEF filled
    <3>2. QED
      BY <1>1, <1>3, <3>1, LastPosition
  <2>4. Trim(text) = SubSeq(text, a, b)
    BY <1>3 DEF Trim
  <2> HIDE DEF a, b
  <2>5. a \in 1..n /\ b \in 1..n /\ a <= b /\ text[a] # " " /\ text[b] # " "
    BY <1>1, <2>2, <2>3
  <2>6. ASSUME NEW i \in 1..n, i < a \/ b < i PROVE text[i] = " "
    <3>1. SUFFICES ASSUME text[i] # " " PROVE FALSE
      OBVIOUS
    <3>2. i \in filled
      BY <1>1, <3>1
    <3>3. a <= i /\ b >= i
      BY <2>2, <2>3, <3>2
    <3>4. ~(i < a) /\ ~(b < i)
      BY <1>1, <2>5, <3>3, NotBeyond
    <3>5. QED
      BY <2>6, <3>4
  <2>7. \A i \in DOMAIN text : (i < a \/ b < i) => text[i] = " "
    BY <1>1, <2>6
  <2>8. a \in DOMAIN text /\ b \in DOMAIN text
    BY <1>1, <2>5
  <2>9. QED
    BY <2>4, <2>5, <2>7, <2>8
<1>4. QED
  BY <1>2, <1>3

-----------------------------------------------------------------------------
(* Texts that are put together from parts.  Induction is over a set, and a  *)
(* recursive definition is one of the functions that satisfy its equation.  *)

\* Induction, over a set instead of a property.
LEMMA Induction ==
  ASSUME NEW T, 0 \in T, \A n \in Nat : n \in T => n + 1 \in T
  PROVE  Nat \subseteq T
<1> DEFINE Rest == Nat \ T
<1>1. SUFFICES ASSUME Rest # {} PROVE FALSE
  OBVIOUS
<1>2. PICK x \in Rest : \A y \in Rest : ~(<<y, x>> \in LessThan)
  <2>1. Rest \subseteq Nat
    OBVIOUS
  <2> QED
    BY <1>1, <2>1, LessThanWellFounded, WFMin
<1>3. x \in Nat /\ x # 0
  OBVIOUS
<1>4. x - 1 \in Nat /\ (x - 1) + 1 = x /\ x - 1 < x
  BY <1>3
<1>5. x - 1 \in T
  <2>1. SUFFICES ASSUME x - 1 \in Rest PROVE FALSE
    BY <1>4
  <2>2. ~(<<x - 1, x>> \in LessThan)
    BY <1>2, <2>1
  <2>3. QED
    BY <1>3, <1>4, <2>2 DEF LessThan
<1>6. QED
  BY <1>2, <1>4, <1>5

\* Functions defined by recursion exist.
Recurs(g, n, V, c, step) ==
  /\ g \in [0..n -> V] /\ g[0] = c
  /\ \A i \in 1..n : g[i] = step[<<i, g[i - 1]>>]

LEMMA Recursion ==
  ASSUME NEW n \in Nat, NEW V, NEW c \in V, NEW step \in [(1..n) \X V -> V]
  PROVE  \E g : Recurs(g, n, V, c, step)
<1> DEFINE Good(g, k) == /\ g \in [0..k -> V] /\ g[0] = c
                         /\ \A i \in 1..k : g[i] = step[<<i, g[i - 1]>>]
           T == {k \in Nat : k <= n => \E g : Good(g, k)}
<1>1. 0 \in T
  <2>1. Good([i \in 0..0 |-> c], 0)
    OBVIOUS
  <2> HIDE DEF Good
  <2>2. QED
    BY <2>1
<1>2. ASSUME NEW k \in Nat, k \in T PROVE k + 1 \in T
  <2>1. SUFFICES ASSUME k + 1 <= n PROVE \E g : Good(g, k + 1)
    <3> HIDE DEF Good
    <3> QED
      OBVIOUS
  <2>2. PICK g : Good(g, k)
    <3>1. k <= n
      BY <2>1
    <3> HIDE DEF Good
    <3>2. QED
      BY <1>2, <3>1
  <2> DEFINE new == step[<<k + 1, g[k]>>]
             h == [i \in 0..k + 1 |-> IF i = k + 1 THEN new ELSE g[i]]
  <2>3. new \in V
    BY <2>1, <2>2
  <2>4. /\ h \in [0..k + 1 -> V] /\ h[0] = c /\ h[k + 1] = new
        /\ \A i \in 0..k : h[i] = g[i]
    <3> HIDE DEF new
    <3>1. \A i \in 0..k : i # k + 1 /\ i \in 0..k + 1
      OBVIOUS
    <3>2. \A i \in 0..k + 1 : i = k + 1 \/ i \in 0..k
      OBVIOUS
    <3>3. QED
      BY <2>2, <2>3, <3>1, <3>2
  <2>5. ASSUME NEW i \in 1..k + 1 PROVE h[i] = step[<<i, h[i - 1]>>]
    <3> HIDE DEF h
    <3>1. CASE i = k + 1
      BY <2>4, <3>1
    <3>2. CASE i # k + 1
      <4>1. i \in 1..k /\ i \in 0..k /\ i - 1 \in 0..k
        BY <3>2
      <4>2. QED
        BY <2>2, <2>4, <4>1
    <3>3. QED
      BY <3>1, <3>2
  <2> HIDE DEF h
  <2>6. QED
    BY <2>4, <2>5
<1> HIDE DEF T
<1>3. n \in T
  BY <1>1, <1>2, Induction
<1>4. QED
  BY <1>3 DEF T, Recurs

\* FlattenSeq() puts its argument's elements one behind the other.
LEMMA FlattenFcn ==
  ASSUME NEW S, NEW s \in Seq(Seq(S))
  PROVE  \E f \in [0..Len(s) -> Seq(S)] :
           /\ f[0] = <<>> /\ \A i \in 1..Len(s) : f[i] = f[i - 1] \o s[i]
           /\ FlattenSeq(s) = f[Len(s)]
<1> DEFINE n == Len(s)
           V == Seq(S)
           step == [p \in (1..n) \X V |-> p[2] \o s[p[1]]]
           Made(e) == e = [i \in 1..n |-> IF i = 1 THEN s[i] ELSE e[i - 1] \o s[i]]
           flat == CHOOSE e : Made(e)
<1>1. n \in Nat /\ \A i \in 1..n : s[i] \in V
  BY LenProperties, ElementOfSeq
<1>2. /\ step \in [(1..n) \X V -> V]
      /\ \A i \in 1..n, v \in V : step[<<i, v>>] = v \o s[i]
  <2>1. \A p \in (1..n) \X V : p[2] \o s[p[1]] \in V
    BY <1>1, ConcatProperties
  <2> HIDE DEF V, n
  <2>2. QED
    BY <2>1
<1>3. <<>> \in V
  OBVIOUS
<1>4. PICK f \in [0..n -> V] : f[0] = <<>> /\ \A i \in 1..n : f[i] = step[<<i, f[i - 1]>>]
  <2> DEFINE none == <<>>
  <2>1. none \in V
    BY <1>3
  <2>2. n \in Nat
    BY <1>1
  <2>3. step \in [(1..n) \X V -> V]
    BY <1>2
  <2> HIDE DEF step, V, n, none
  <2>4. \E f : Recurs(f, n, V, none, step)
    BY <2>1, <2>2, <2>3, Recursion, Zenon
  <2>5. QED
    BY <2>4 DEF none, Recurs
<1>5. \A i \in 1..n : f[i] = f[i - 1] \o s[i]
  <2>1. \A i \in 1..n : i - 1 \in 0..n
    BY <1>1
  <2> HIDE DEF step, V, n
  <2>2. QED
    BY <1>2, <1>4, <2>1
<1>6. CASE n = 0
  <2>1. s = <<>>
    BY <1>6, EmptySeq
  <2>2. FlattenSeq(s) = <<>>
    BY <1>6, <2>1 DEF FlattenSeq
  <2>3. QED
    BY <1>4, <1>5, <1>6, <2>2
<1>7. CASE n # 0
  <2>1. FlattenSeq(s) = flat[n]
    BY <1>7 DEF FlattenSeq
  <2> DEFINE e == [i \in 1..n |-> f[i]]
  <2>2. Made(e)
    <3>1. ASSUME NEW i \in 1..n PROVE f[i] = IF i = 1 THEN s[i] ELSE e[i - 1] \o s[i]
      <4>1. CASE i = 1
        <5>1. 1 \in 1..n /\ 1 - 1 = 0
          BY <1>1, <1>7
        <5>2. <<>> \o s[1] = s[1]
          BY <1>1, <5>1, ConcatEmptySeq
        <5>3. f[1] = f[0] \o s[1]
          BY <1>5, <5>1
        <5>4. QED
          BY <1>4, <4>1, <5>2, <5>3
      <4>2. CASE i # 1
        <5>1. i - 1 \in 1..n
          BY <1>1, <4>2
        <5>2. QED
          BY <1>5, <4>2, <5>1
      <4>3. QED
        BY <4>1, <4>2
    <3>2. QED
      BY <3>1, Zenon
  <2>3. Made(flat)
    <3>1. \E x : Made(x)
      <4> HIDE DEF Made, e
      <4>1. QED
        BY <2>2
    <3>2. QED
      BY <3>1, Zenon
  <2>4. \A i \in 1..n : flat[i] = IF i = 1 THEN s[i] ELSE flat[i - 1] \o s[i]
    <3> HIDE DEF flat
    <3>1. QED
      BY <2>3, Zenon
  <2> HIDE DEF flat, Made, e
  <2> DEFINE T == {k \in Nat : k + 1 <= n => flat[k + 1] = f[k + 1]}
  <2>5. 0 \in T
    <3>1. 1 \in 1..n /\ 1 - 1 = 0 /\ 0 + 1 = 1
      BY <1>1, <1>7
    <3>2. <<>> \o s[1] = s[1]
      BY <1>1, <3>1, ConcatEmptySeq
    <3>3. f[1] = f[0] \o s[1] /\ flat[1] = s[1]
      BY <1>5, <2>4, <3>1
    <3>4. flat[0 + 1] = f[0 + 1]
      BY <1>4, <3>1, <3>2, <3>3
    <3>5. QED
      BY <3>4
  <2>6. ASSUME NEW k \in Nat, k \in T PROVE k + 1 \in T
    <3>1. SUFFICES ASSUME (k + 1) + 1 <= n PROVE flat[(k + 1) + 1] = f[(k + 1) + 1]
      OBVIOUS
    <3>2. (k + 1) + 1 \in 1..n /\ (k + 1) + 1 # 1 /\ ((k + 1) + 1) - 1 = k + 1 /\ k + 1 <= n
      BY <1>1, <3>1
    <3>3. flat[k + 1] = f[k + 1]
      BY <2>6, <3>2
    <3> DEFINE j == (k + 1) + 1
    <3>4. j \in 1..n /\ j # 1 /\ j - 1 = k + 1
      BY <3>2
    <3> HIDE DEF j
    <3>5. flat[j] = flat[j - 1] \o s[j] /\ f[j] = f[j - 1] \o s[j]
      BY <1>5, <2>4, <3>4
    <3>6. QED
      BY <3>3, <3>4, <3>5 DEF j
  <2>7. n - 1 \in Nat /\ (n - 1) + 1 = n
    BY <1>1, <1>7
  <2>8. n - 1 \in T
    <3> HIDE DEF T, n
    <3>1. QED
      BY <2>5, <2>6, <2>7, Induction
  <2>9. flat[n] = f[n]
    BY <2>7, <2>8
  <2>10. QED
    BY <1>4, <1>5, <2>1, <2>9
<1>8. QED
  BY <1>6, <1>7

\* Where the parts of a text that was put together begin.
Points(start, s) ==
  /\ start \in [1..Len(s) + 1 -> Nat] /\ start[1] = 0
  /\ \A i \in 1..Len(s) : start[i + 1] = start[i] + Len(s[i])

LEMMA NotShorter ==
  ASSUME NEW a \in Nat, NEW b \in Nat, NEW c \in Nat, a <= b
  PROVE  a <= b + c
OBVIOUS

LEMMA FlattenPoints ==
  ASSUME NEW S, NEW s \in Seq(Seq(S))
  PROVE  /\ FlattenSeq(s) \in Seq(S)
         /\ \E start :
              /\ Points(start, s)
              /\ Len(FlattenSeq(s)) = start[Len(s) + 1]
              /\ \A i \in 1..Len(s) : \A j \in 1..Len(s[i]) :
                   /\ start[i] + j \in 1..Len(FlattenSeq(s))
                   /\ FlattenSeq(s)[start[i] + j] = s[i][j]
<1> DEFINE n == Len(s)
<1>1. n \in Nat /\ \A i \in 1..n : s[i] \in Seq(S) /\ Len(s[i]) \in Nat
  <2>1. n \in Nat /\ \A i \in 1..n : s[i] \in Seq(S)
    BY LenProperties, ElementOfSeq
  <2>2. QED
    BY <2>1, LenProperties
<1>2. PICK f \in [0..n -> Seq(S)] :
        /\ f[0] = <<>> /\ \A i \in 1..n : f[i] = f[i - 1] \o s[i]
        /\ FlattenSeq(s) = f[n]
  BY FlattenFcn
<1> HIDE DEF n
<1>3. \A i \in 0..n : f[i] \in Seq(S) /\ Len(f[i]) \in Nat
  <2>1. \A i \in 0..n : f[i] \in Seq(S)
    OBVIOUS
  <2>2. QED
    BY <2>1, LenProperties
<1>4. ASSUME NEW i \in 1..n
      PROVE  /\ i - 1 \in 0..n /\ i \in 0..n
             /\ Len(f[i]) = Len(f[i - 1]) + Len(s[i])
             /\ \A p \in 1..Len(f[i - 1]) : f[i][p] = f[i - 1][p]
             /\ \A j \in 1..Len(s[i]) : f[i][Len(f[i - 1]) + j] = s[i][j]
  <2>1. i - 1 \in 0..n /\ i \in 0..n
    BY <1>1
  <2> DEFINE a == f[i - 1]
             b == s[i]
  <2>2. a \in Seq(S) /\ b \in Seq(S) /\ f[i] = a \o b
    BY <1>1, <1>2, <1>3, <2>1
  <2> HIDE DEF a, b
  <2>3. Len(a) \in Nat /\ Len(b) \in Nat
    BY <2>2, LenProperties
  <2>4. /\ Len(a \o b) = Len(a) + Len(b)
        /\ \A p \in 1..Len(a) + Len(b) : (a \o b)[p] = IF p <= Len(a) THEN a[p] ELSE b[p - Len(a)]
    BY <2>2, ConcatProperties
  <2>5. \A p \in 1..Len(a) : (a \o b)[p] = a[p]
    BY <2>3, <2>4
  <2>6. ASSUME NEW j \in 1..Len(b) PROVE (a \o b)[Len(a) + j] = b[j]
    <3>1. Len(a) + j \in 1..Len(a) + Len(b) /\ ~(Len(a) + j <= Len(a))
          /\ (Len(a) + j) - Len(a) = j
      BY <2>3
    <3>2. QED
      BY <2>4, <3>1
  <2>7. QED
    BY <2>1, <2>2, <2>4, <2>5, <2>6 DEF a, b
<1>5. ASSUME NEW i \in 1..n
      PROVE  \A k \in Nat : k <= n - i =>
               /\ Len(f[i]) <= Len(f[i + k])
               /\ \A p \in 1..Len(f[i]) : f[i + k][p] = f[i][p]
  <2> DEFINE T == {k \in Nat : k <= n - i =>
                     /\ Len(f[i]) <= Len(f[i + k])
                     /\ \A p \in 1..Len(f[i]) : f[i + k][p] = f[i][p]}
  <2>1. 0 \in T
    <3>1. i + 0 = i /\ i \in 0..n
      BY <1>1
    <3>2. QED
      BY <1>3, <3>1
  <2>2. ASSUME NEW k \in Nat, k \in T PROVE k + 1 \in T
    <3>1. SUFFICES ASSUME k + 1 <= n - i
          PROVE  /\ Len(f[i]) <= Len(f[i + (k + 1)])
                 /\ \A p \in 1..Len(f[i]) : f[i + (k + 1)][p] = f[i][p]
      OBVIOUS
    <3>2. k <= n - i
      BY <1>1, <3>1
    <3> DEFINE q == i + k
               r == i + (k + 1)
    <3>3. /\ Len(f[i]) <= Len(f[q])
          /\ \A p \in 1..Len(f[i]) : f[q][p] = f[i][p]
      BY <2>2, <3>2
    <3>4. r \in 1..n /\ r - 1 = q /\ q \in 0..n /\ i \in 0..n
      BY <1>1, <3>1
    <3> HIDE DEF q, r
    <3>5. Len(f[r]) = Len(f[q]) + Len(s[r]) /\ \A p \in 1..Len(f[q]) : f[r][p] = f[q][p]
      BY <1>4, <3>4
    <3>6. Len(f[q]) \in Nat /\ Len(f[i]) \in Nat /\ Len(s[r]) \in Nat
      BY <1>1, <1>3, <3>4
    <3>7. Len(f[i]) <= Len(f[r]) /\ \A p \in 1..Len(f[i]) : f[r][p] = f[i][p]
      <4>1. 1..Len(f[i]) \subseteq 1..Len(f[q])
        BY <3>3, <3>6
      <4>2. Len(f[i]) <= Len(f[r])
        BY <3>3, <3>5, <3>6, NotShorter
      <4>3. QED
        BY <3>3, <3>5, <4>1, <4>2
    <3>8. QED
      BY <3>7 DEF r
  <2> HIDE DEF T
  <2>3. Nat \subseteq T
    BY <2>1, <2>2, Induction
  <2>4. QED
    BY <2>3 DEF T
<1>6. ASSUME NEW i \in 1..n
      PROVE  Len(f[i]) <= Len(f[n]) /\ \A p \in 1..Len(f[i]) : f[n][p] = f[i][p]
  <2>1. n - i \in Nat /\ n - i <= n - i /\ i + (n - i) = n
    BY <1>1
  <2> DEFINE k == n - i
  <2>2. k \in Nat /\ k <= n - i /\ i + k = n
    BY <2>1
  <2> HIDE DEF k
  <2>3. QED
    BY <1>5, <2>2
<1> DEFINE start == [i \in 1..n + 1 |-> Len(f[i - 1])]
<1>7. Points(start, s)
  <2>1. \A i \in 1..n + 1 : Len(f[i - 1]) \in Nat
    <3>1. \A i \in 1..n + 1 : i - 1 \in 0..n
      BY <1>1
    <3>2. QED
      BY <1>3, <3>1
  <2>2. start \in [1..n + 1 -> Nat]
    BY <2>1
  <2>3. start[1] = 0
    <3>1. 1 \in 1..n + 1 /\ 1 - 1 = 0
      BY <1>1
    <3>2. QED
      BY <1>2, <3>1
  <2>4. ASSUME NEW i \in 1..n PROVE start[i + 1] = start[i] + Len(s[i])
    <3>1. i + 1 \in 1..n + 1 /\ i \in 1..n + 1 /\ (i + 1) - 1 = i
      BY <1>1
    <3>2. start[i + 1] = Len(f[i]) /\ start[i] = Len(f[i - 1])
      BY <3>1
    <3> HIDE DEF start
    <3>3. QED
      BY <1>4, <3>2
  <2>5. QED
    BY <2>2, <2>3, <2>4 DEF Points, n
<1>8. start[n + 1] = Len(f[n])
  <2>1. n + 1 \in 1..n + 1 /\ (n + 1) - 1 = n
    BY <1>1
  <2>2. QED
    BY <2>1
<1>9. ASSUME NEW i \in 1..n, NEW j \in 1..Len(s[i])
      PROVE  start[i] + j \in 1..Len(f[n]) /\ f[n][start[i] + j] = s[i][j]
  <2>1. start[i] = Len(f[i - 1])
    <3>1. i \in 1..n + 1
      BY <1>1
    <3>2. QED
      BY <3>1
  <2> HIDE DEF start
  <2> DEFINE a == Len(f[i - 1])
             p == a + j
  <2>2. /\ a \in Nat /\ Len(s[i]) \in Nat /\ Len(f[i]) = a + Len(s[i])
        /\ \A k \in 1..Len(s[i]) : f[i][a + k] = s[i][k]
    BY <1>1, <1>3, <1>4
  <2> HIDE DEF a
  <2>3. p \in 1..Len(f[i]) /\ f[i][p] = s[i][j]
    BY <2>2
  <2>4. n \in 0..n /\ Len(f[n]) \in Nat /\ Len(f[i]) \in Nat
    BY <1>1, <1>3, <2>2
  <2> HIDE DEF p
  <2>5. p \in 1..Len(f[n]) /\ f[n][p] = s[i][j]
    <3>1. f[n][p] = f[i][p]
      BY <1>6, <2>3
    <3>2. Len(f[i]) <= Len(f[n])
      BY <1>6
    <3>3. p \in 1..Len(f[n])
      BY <2>3, <2>4, <3>2
    <3>4. QED
      BY <2>3, <3>1, <3>3
  <2>6. p = start[i] + j
    BY <2>1 DEF a, p
  <2>7. QED
    BY <2>5, <2>6
<1>10. n \in 0..n
  BY <1>1
<1> HIDE DEF start
<1>11. QED
  BY <1>2, <1>3, <1>7, <1>8, <1>9, <1>10 DEF n

LEMMA Joined ==
  ASSUME NEW S, NEW s \in Seq(S), NEW t \in Seq(S)
  PROVE  /\ s \o t \in Seq(S) /\ Len(s) \in Nat /\ Len(t) \in Nat
         /\ Len(s \o t) = Len(s) + Len(t)
         /\ \A i \in 1..Len(s) : (s \o t)[i] = s[i]
         /\ \A j \in 1..Len(t) : (s \o t)[Len(s) + j] = t[j]
<1>1. Len(s) \in Nat /\ Len(t) \in Nat
  BY LenProperties
<1>2. /\ s \o t \in Seq(S) /\ Len(s \o t) = Len(s) + Len(t)
      /\ \A p \in 1..Len(s) + Len(t) : (s \o t)[p] = IF p <= Len(s) THEN s[p] ELSE t[p - Len(s)]
  BY ConcatProperties
<1>3. \A p \in 1..Len(s) : (s \o t)[p] = s[p]
  BY <1>1, <1>2
<1>4. ASSUME NEW j \in 1..Len(t) PROVE (s \o t)[Len(s) + j] = t[j]
  <2>1. Len(s) + j \in 1..Len(s) + Len(t) /\ ~(Len(s) + j <= Len(s))
        /\ (Len(s) + j) - Len(s) = j
    BY <1>1
  <2>2. QED
    BY <1>2, <2>1
<1>5. QED
  BY <1>1, <1>2, <1>3, <1>4

\* One step of each of the loops over a text.
StepOf(kind, s, x) ==
  CASE kind = "query" -> ReadChar(s, x)
    [] kind = "lines" -> ReadByte(s, x)
    [] kind = "parts" -> ReadLine(s, x)
    [] kind = "fields" -> TakeField(s, x)

\* The states of a loop that begins in s and reads q, and the last of them.
Loop(e, kind, s, q) ==
  e = [i \in 0..Len(q) |-> IF i = 0 THEN s ELSE StepOf(kind, e[i - 1], q[i])]
Runs(kind, s, q, t) == \E e : Loop(e, kind, s, q) /\ t = e[Len(q)]

LEMMA LoopSteps ==
  ASSUME NEW S, NEW kind, NEW s, NEW q \in Seq(S), NEW e, Loop(e, kind, s, q)
  PROVE  /\ Len(q) \in Nat /\ e[0] = s
         /\ \A i \in 1..Len(q) : e[i] = StepOf(kind, e[i - 1], q[i])
<1>1. Len(q) \in Nat
  BY LenProperties
<1> DEFINE n == Len(q)
<1>2. 0 \in 0..n /\ \A i \in 1..n : i \in 0..n /\ i # 0
  BY <1>1
<1> HIDE DEF n
<1>3. e = [i \in 0..n |-> IF i = 0 THEN s ELSE StepOf(kind, e[i - 1], q[i])]
  BY DEF Loop, n
<1>4. e[0] = s /\ \A i \in 1..n : e[i] = StepOf(kind, e[i - 1], q[i])
  BY <1>2, <1>3
<1>5. QED
  BY <1>1, <1>4 DEF n

LEMMA LoopExists ==
  ASSUME NEW S, NEW kind, NEW s, NEW q \in Seq(S)
  PROVE  \E e : Loop(e, kind, s, q)
<1> DEFINE n == Len(q)
           Good(e, k) == e = [i \in 0..k |-> IF i = 0 THEN s ELSE StepOf(kind, e[i - 1], q[i])]
           T == {k \in Nat : \E e : Good(e, k)}
<1>1. n \in Nat
  BY LenProperties
<1>2. 0 \in T
  <2> DEFINE e == [i \in 0..0 |-> s]
  <2>1. e = [i \in 0..0 |-> IF i = 0 THEN s ELSE StepOf(kind, e[i - 1], q[i])]
    <3>1. \A i \in 0..0 : i = 0
      OBVIOUS
    <3>2. \A i \in 0..0 : s = IF i = 0 THEN s ELSE StepOf(kind, e[i - 1], q[i])
      BY <3>1
    <3>3. QED
      BY <3>2, Zenon
  <2>2. Good(e, 0)
    BY <2>1
  <2> HIDE DEF e, Good
  <2>3. QED
    BY <2>2
<1>3. ASSUME NEW k \in Nat, k \in T PROVE k + 1 \in T
  <2>1. PICK g : Good(g, k)
    <3> HIDE DEF Good
    <3>1. QED
      BY <1>3
  <2> DEFINE h == [i \in 0..k + 1 |-> IF i = k + 1 THEN StepOf(kind, g[k], q[k + 1]) ELSE g[i]]
  <2>2. g[0] = s /\ \A i \in 1..k : g[i] = StepOf(kind, g[i - 1], q[i])
    <3>1. 0 \in 0..k /\ \A i \in 1..k : i \in 0..k /\ i # 0
      OBVIOUS
    <3>2. QED
      BY <2>1, <3>1
  <2>3. h[k + 1] = StepOf(kind, g[k], q[k + 1]) /\ \A i \in 0..k : h[i] = g[i]
    <3>1. \A i \in 0..k : i # k + 1 /\ i \in 0..k + 1
      OBVIOUS
    <3>2. k + 1 \in 0..k + 1
      OBVIOUS
    <3>3. QED
      BY <3>1, <3>2
  <2>4. ASSUME NEW i \in 0..k + 1
        PROVE  h[i] = IF i = 0 THEN s ELSE StepOf(kind, h[i - 1], q[i])
    <3> HIDE DEF h
    <3>1. CASE i = k + 1
      <4>1. i # 0 /\ i - 1 = k /\ k \in 0..k
        BY <3>1
      <4>2. h[i - 1] = g[k]
        BY <2>3, <4>1
      <4>3. QED
        BY <2>3, <3>1, <4>1, <4>2
    <3>2. CASE i = 0
      <4>1. 0 \in 0..k
        OBVIOUS
      <4>2. QED
        BY <2>2, <2>3, <3>2, <4>1
    <3>3. CASE i # 0 /\ i # k + 1
      <4>1. i \in 1..k /\ i \in 0..k /\ i - 1 \in 0..k
        BY <3>3
      <4>2. QED
        BY <2>2, <2>3, <3>3, <4>1
    <3>4. QED
      BY <3>1, <3>2, <3>3
  <2>5. Good(h, k + 1)
    <3>1. \A i \in 0..k + 1 : (IF i = k + 1 THEN StepOf(kind, g[k], q[k + 1]) ELSE g[i])
                               = IF i = 0 THEN s ELSE StepOf(kind, h[i - 1], q[i])
      BY <2>4
    <3>2. QED
      BY <3>1, Zenon
  <2> HIDE DEF h, Good
  <2>6. QED
    BY <2>5
<1>4. n \in T
  <2> HIDE DEF T, n
  <2>1. QED
    BY <1>1, <1>2, <1>3, Induction
<1>5. PICK e : Good(e, n)
  <2> HIDE DEF Good
  <2>1. QED
    BY <1>4
<1>6. QED
  BY <1>5 DEF Loop

LEMMA RunsUnique ==
  ASSUME NEW S, NEW kind, NEW s, NEW q \in Seq(S), NEW t, NEW u,
         Runs(kind, s, q, t), Runs(kind, s, q, u)
  PROVE  t = u
<1> DEFINE n == Len(q)
<1>1. PICK e : Loop(e, kind, s, q) /\ t = e[n]
  BY DEF Runs
<1>2. PICK f : Loop(f, kind, s, q) /\ u = f[n]
  BY DEF Runs
<1>3. n \in Nat /\ e[0] = s /\ \A i \in 1..n : e[i] = StepOf(kind, e[i - 1], q[i])
  BY <1>1, LoopSteps
<1>4. f[0] = s /\ \A i \in 1..n : f[i] = StepOf(kind, f[i - 1], q[i])
  BY <1>2, LoopSteps
<1> HIDE DEF n
<1> DEFINE T == {k \in Nat : k <= n => e[k] = f[k]}
<1>5. 0 \in T
  BY <1>3, <1>4
<1>6. ASSUME NEW k \in Nat, k \in T PROVE k + 1 \in T
  <2>1. SUFFICES ASSUME k + 1 <= n PROVE e[k + 1] = f[k + 1]
    OBVIOUS
  <2>2. k + 1 \in 1..n /\ (k + 1) - 1 = k /\ k <= n
    BY <1>3, <2>1
  <2>3. e[k] = f[k]
    BY <1>6, <2>2
  <2>4. e[k + 1] = StepOf(kind, e[k], q[k + 1]) /\ f[k + 1] = StepOf(kind, f[k], q[k + 1])
    BY <1>3, <1>4, <2>2
  <2>5. QED
    BY <2>3, <2>4
<1> HIDE DEF T
<1>7. n \in T
  BY <1>3, <1>5, <1>6, Induction
<1>8. QED
  BY <1>1, <1>2, <1>3, <1>7 DEF T

LEMMA RunsNothing ==
  ASSUME NEW kind, NEW s
  PROVE  Runs(kind, s, <<>>, s)
<1> DEFINE q == <<>>
<1>1. q \in Seq({}) /\ Len(q) = 0
  OBVIOUS
<1> HIDE DEF q
<1>2. q \in Seq({})
  BY <1>1
<1>3. PICK e : Loop(e, kind, s, q)
  BY <1>2, LoopExists
<1>4. e[0] = s
  BY <1>2, <1>3, LoopSteps
<1>5. Runs(kind, s, q, s)
  BY <1>1, <1>3, <1>4 DEF Runs
<1>6. QED
  BY <1>5 DEF q

LEMMA RunsOne ==
  ASSUME NEW kind, NEW s, NEW x
  PROVE  Runs(kind, s, <<x>>, StepOf(kind, s, x))
<1> DEFINE q == <<x>>
<1>1. q \in Seq({x}) /\ Len(q) = 1 /\ q[1] = x
  OBVIOUS
<1> HIDE DEF q
<1>2. PICK e : Loop(e, kind, s, q)
  BY <1>1, LoopExists
<1>3. e[0] = s /\ \A i \in 1..Len(q) : e[i] = StepOf(kind, e[i - 1], q[i])
  BY <1>1, <1>2, LoopSteps
<1>4. 1 \in 1..Len(q) /\ 1 - 1 = 0
  BY <1>1
<1>5. e[1] = StepOf(kind, s, x)
  BY <1>1, <1>3, <1>4
<1>6. Runs(kind, s, q, StepOf(kind, s, x))
  BY <1>1, <1>2, <1>5 DEF Runs
<1>7. QED
  BY <1>6 DEF q

LEMMA RunsThrough ==
  ASSUME NEW S, NEW kind, NEW s, NEW a \in Seq(S), NEW t, NEW b \in Seq(S), NEW u,
         Runs(kind, s, a, t), Runs(kind, t, b, u)
  PROVE  Runs(kind, s, a \o b, u)
<1> DEFINE m == Len(a)
           n == Len(b)
           q == a \o b
<1>1. PICK e : Loop(e, kind, s, a) /\ t = e[m]
  BY DEF Runs
<1>2. PICK f : Loop(f, kind, t, b) /\ u = f[n]
  BY DEF Runs
<1>3. m \in Nat /\ e[0] = s /\ \A i \in 1..m : e[i] = StepOf(kind, e[i - 1], a[i])
  BY <1>1, LoopSteps
<1>4. n \in Nat /\ f[0] = t /\ \A i \in 1..n : f[i] = StepOf(kind, f[i - 1], b[i])
  BY <1>2, LoopSteps
<1>5. /\ q \in Seq(S) /\ Len(q) = m + n
      /\ \A i \in 1..m : q[i] = a[i]
      /\ \A j \in 1..n : q[m + j] = b[j]
  BY Joined
<1> HIDE DEF m, n, q
<1>6. PICK g : Loop(g, kind, s, q)
  BY <1>5, LoopExists
<1>7. g[0] = s /\ \A i \in 1..Len(q) : g[i] = StepOf(kind, g[i - 1], q[i])
  BY <1>5, <1>6, LoopSteps
<1>8. \A i \in 1..m + n : g[i] = StepOf(kind, g[i - 1], q[i])
  BY <1>5, <1>7
<1>a. m \in Nat /\ n \in Nat
  BY <1>3, <1>4
<1> DEFINE T == {k \in Nat : k <= m => g[k] = e[k]}
           U == {k \in Nat : k <= n => g[m + k] = f[k]}
<1>9. 0 \in T
  BY <1>3, <1>7
<1>10. ASSUME NEW k \in Nat, k \in T PROVE k + 1 \in T
  <2>1. SUFFICES ASSUME k + 1 <= m PROVE g[k + 1] = e[k + 1]
    OBVIOUS
  <2>2. k + 1 \in 1..m /\ k + 1 \in 1..m + n /\ (k + 1) - 1 = k /\ k <= m
    BY <1>a, <2>1
  <2>3. g[k] = e[k]
    BY <1>10, <2>2
  <2>4. g[k + 1] = StepOf(kind, g[k], q[k + 1]) /\ e[k + 1] = StepOf(kind, e[k], a[k + 1])
    BY <1>3, <1>8, <2>2
  <2>5. QED
    BY <1>5, <2>2, <2>3, <2>4
<1>11. m \in T
  <2> HIDE DEF T
  <2>1. QED
    BY <1>3, <1>9, <1>10, Induction
<1>12. g[m] = t
  BY <1>1, <1>3, <1>11
<1>13. 0 \in U
  <2>1. m + 0 = m
    BY <1>3
  <2>2. QED
    BY <1>4, <1>12, <2>1
<1>14. ASSUME NEW k \in Nat, k \in U PROVE k + 1 \in U
  <2>1. SUFFICES ASSUME k + 1 <= n PROVE g[m + (k + 1)] = f[k + 1]
    OBVIOUS
  <2>2. /\ k + 1 \in 1..n /\ m + (k + 1) \in 1..m + n
        /\ (m + (k + 1)) - 1 = m + k /\ k <= n /\ (k + 1) - 1 = k
    BY <1>a, <2>1
  <2>3. g[m + k] = f[k]
    BY <1>14, <2>2
  <2>4. /\ g[m + (k + 1)] = StepOf(kind, g[m + k], q[m + (k + 1)])
        /\ f[k + 1] = StepOf(kind, f[k], b[k + 1])
    BY <1>4, <1>8, <2>2
  <2>5. q[m + (k + 1)] = b[k + 1]
    BY <1>5, <2>2
  <2>6. QED
    BY <2>3, <2>4, <2>5
<1>15. n \in U
  <2> HIDE DEF U
  <2>1. QED
    BY <1>4, <1>13, <1>14, Induction
<1>16. g[Len(q)] = u
  BY <1>2, <1>4, <1>5, <1>15
<1>17. Runs(kind, s, q, u)
  BY <1>6, <1>16 DEF Runs
<1>18. QED
  BY <1>17 DEF q

\* What each of the functions returns, by its loop.
LEMMA ParseQueryStringRuns ==
  ASSUME NEW S, NEW q \in Seq(S), NEW t, Runs("query", StartPair(NoParams), q, t)
  PROVE  ParseQueryString(q) = EndPair(t)
<1> DEFINE n == Len(q)
           s == StartPair(NoParams)
           Made(e) == e = [i \in 0..n |-> IF i = 0 THEN s ELSE ReadChar(e[i - 1], q[i])]
           read == CHOOSE e : Made(e)
<1>1. ParseQueryString(q) = EndPair(read[n])
  BY Zenon DEF ParseQueryString
<1>2. \A e : Made(e) <=> Loop(e, "query", s, q)
  BY DEF Loop, StepOf
<1>3. \E e : Loop(e, "query", s, q)
  <2> HIDE DEF s
  <2>1. QED
    BY LoopExists
<1> HIDE DEF Made, s
<1>4. Made(read)
  BY <1>2, <1>3
<1>5. Runs("query", s, q, read[n])
  BY <1>2, <1>4 DEF Runs
<1>6. read[n] = t
  <2> HIDE DEF read, n
  <2>1. QED
    BY <1>5, RunsUnique DEF s
<1>7. QED
  BY <1>1, <1>6

LEMMA PrefixGrows ==
  ASSUME NEW S, NEW w \in Seq(S)
  PROVE  /\ Len(w) \in Nat /\ SubSeq(w, 1, 0) = <<>> /\ SubSeq(w, 1, Len(w)) = w
         /\ \A i \in 0..Len(w) : SubSeq(w, 1, i) \in Seq(S)
         /\ \A i \in 1..Len(w) : SubSeq(w, 1, i) = Append(SubSeq(w, 1, i - 1), w[i])
<1>1. Len(w) \in Nat /\ SubSeq(w, 1, Len(w)) = w
  BY LenProperties, SubSeqFull
<1>2. SubSeq(w, 1, 0) = <<>>
  BY SubSeqEmpty
<1>3. ASSUME NEW i \in 0..Len(w) PROVE SubSeq(w, 1, i) \in Seq(S)
  <2>1. i \in Int /\ \A p \in 1..i : w[p] \in S
    <3>1. \A p \in 1..i : p \in 1..Len(w)
      BY <1>1
    <3>2. QED
      BY <3>1, ElementOfSeq
  <2>2. QED
    BY <2>1, SubSeqProperties
<1>4. ASSUME NEW i \in 1..Len(w)
      PROVE  SubSeq(w, 1, i) = Append(SubSeq(w, 1, i - 1), w[i])
  <2>1. 1 \in 1..Len(w) /\ i \in 1..Len(w) /\ i - 1 \in 0..Len(w) /\ w[i] \in S
    BY <1>1, ElementOfSeq
  <2>2. SubSeq(w, 1, i) = SubSeq(w, 1, i - 1) \o <<w[i]>>
    BY <2>1, SubSeqRecursiveSecond
  <2>3. SubSeq(w, 1, i - 1) \in Seq(S)
    BY <1>3, <2>1
  <2>4. Append(SubSeq(w, 1, i - 1), w[i]) = SubSeq(w, 1, i - 1) \o <<w[i]>>
    BY <2>1, <2>3, AppendIsConcat
  <2>5. QED
    BY <2>2, <2>4
<1>5. QED
  BY <1>1, <1>2, <1>3, <1>4

-----------------------------------------------------------------------------
(* What is decoded is what was encoded. *)

LEMMA CharOfCode == \A c \in Coded : Char(Tail(Code(c))) = c
<1>1. /\ Tail(Code("&")) = <<"2", "6">> /\ Tail(Code("%")) = <<"2", "5">>
      /\ Tail(Code("+")) = <<"2", "B">> /\ Tail(Code("=")) = <<"3", "D">>
  BY DEF Code
<1> DEFINE second(c) == Tail(Code(c))[2]
<1>2. second("&") = "6" /\ second("%") = "5" /\ second("+") = "B" /\ second("=") = "D"
  <2>1. \A a, b : <<a, b>>[2] = b
    OBVIOUS
  <2>2. QED
    BY <1>1, <2>1, Zenon
<1> HIDE DEF second
<1>3. \A c, d \in Coded : second(c) = second(d) => c = d
  BY <1>2 DEF Coded
<1>4. \A c, d \in Coded : Tail(Code(c)) = Tail(Code(d)) => c = d
  BY <1>3, Zenon DEF second
<1>5. QED
  BY <1>4, Zenon DEF Char

LEMMA ThreeTokens ==
  ASSUME NEW S, NEW a \in S, NEW b \in S, NEW c \in S
  PROVE  /\ <<a, b, c>> \in Seq(S) /\ Len(<<a, b, c>>) = 3
         /\ <<a, b, c>>[1] = a /\ <<a, b, c>>[2] = b /\ <<a, b, c>>[3] = c
         /\ Tail(<<a, b, c>>) = <<b, c>>
OBVIOUS

\* The codes of a value; they have none of the marks that end it.
LEMMA CodeIs ==
  ASSUME NEW A, NEW c \in A
  PROVE  /\ Code(c) \in Seq((A \cup {"%", "+", "2", "3", "5", "6", "B", "D"}) \ {"&", "="})
         /\ c \in Coded => Len(Code(c)) = 3 /\ Code(c)[1] = "%"
                           /\ <<Code(c)[2], Code(c)[3]>> = Tail(Code(c))
         /\ c = " " => Code(c) = <<"+">>
         /\ c \notin Coded /\ c # " " => Code(c) = <<c>>
<1> DEFINE B == (A \cup {"%", "+", "2", "3", "5", "6", "B", "D"}) \ {"&", "="}
<1>1. CASE c \in Coded
  <2>1. /\ Code("&") = <<"%", "2", "6">> /\ Code("%") = <<"%", "2", "5">>
        /\ Code("+") = <<"%", "2", "B">> /\ Code("=") = <<"%", "3", "D">>
    BY DEF Code
  <2>2. \E h, k \in B : Code(c) = <<"%", h, k>>
    BY <1>1, <2>1 DEF Coded
  <2>3. PICK h \in B, k \in B : Code(c) = <<"%", h, k>>
    BY <2>2
  <2>4. "%" \in B /\ c # " "
    BY <1>1 DEF Coded
  <2> HIDE DEF B
  <2>5. /\ Code(c) \in Seq(B) /\ Len(Code(c)) = 3
        /\ Code(c)[1] = "%" /\ Code(c)[2] = h /\ Code(c)[3] = k /\ Tail(Code(c)) = <<h, k>>
    <3> DEFINE x == <<"%", h, k>>
    <3>1. "%" \in B /\ h \in B /\ k \in B
      BY <2>4
    <3>2. x \in Seq(B) /\ Len(x) = 3 /\ x[1] = "%" /\ x[2] = h /\ x[3] = k /\ Tail(x) = <<h, k>>
      BY <3>1, ThreeTokens
    <3>3. QED
      BY <2>3, <3>2, Zenon
  <2>6. QED
    BY <1>1, <2>4, <2>5 DEF B
<1>2. CASE c = " "
  <2>1. Code(c) = <<"+">> /\ c \notin Coded /\ "+" \in B
    BY <1>2 DEF Code, Coded
  <2>2. <<"+">> \in Seq(B)
    BY <2>1
  <2>3. QED
    BY <1>2, <2>1, <2>2
<1>3. CASE c \notin Coded /\ c # " "
  <2>1. Code(c) = <<c>> /\ c \in B
    BY <1>3 DEF Code, Coded
  <2>2. <<c>> \in Seq(B)
    BY <2>1
  <2>3. QED
    BY <1>3, <2>1, <2>2
<1>4. QED
  BY <1>1, <1>2, <1>3

\* The function that decode_param() computes from the end of the value.
DecodeStep(x, d, i) ==
  IF i > Len(x) THEN <<>>
  ELSE IF x[i] = "%" /\ i + 2 <= Len(x)
         THEN <<Char(SubSeq(x, i + 1, i + 2))>> \o d[i + 3]
  ELSE <<IF x[i] = "+" THEN " " ELSE x[i]>> \o d[i + 1]
Decodes(d, x) == \A i \in 1..Len(x) + 1 : d[i] = DecodeStep(x, d, i)

LEMMA DecodeParamIs ==
  ASSUME NEW S, NEW x \in Seq(S)
  PROVE  \E d : Decodes(d, x) /\ DecodeParam(x) = d[1]
<1> DEFINE n == Len(x)
           Made(d) == d = [i \in 1..n + 1 |->
             IF i > n THEN <<>>
             ELSE IF x[i] = "%" /\ i + 2 <= n
                    THEN <<Char(SubSeq(x, i + 1, i + 2))>> \o d[i + 3]
             ELSE <<IF x[i] = "+" THEN " " ELSE x[i]>> \o d[i + 1]]
           decode == CHOOSE d : Made(d)
           Good(d, k) == \A i \in 1..n + 1 : i >= n + 1 - k => d[i] = DecodeStep(x, d, i)
           T == {k \in Nat : k <= n => \E d : Good(d, k)}
<1>1. n \in Nat
  BY LenProperties
<1>2. DecodeParam(x) = decode[1]
  BY Zenon DEF DecodeParam
<1>3. 0 \in T
  <2> DEFINE d == [i \in 1..n + 1 |-> <<>>]
  <2>1. \A i \in 1..n + 1 : i >= n + 1 - 0 => i > n
    BY <1>1
  <2>2. \A i \in 1..n + 1 : d[i] = <<>>
    OBVIOUS
  <2> HIDE DEF d
  <2>3. Good(d, 0)
    BY <2>1, <2>2 DEF DecodeStep
  <2> HIDE DEF Good
  <2>4. QED
    BY <2>3
<1>4. ASSUME NEW k \in Nat, k \in T PROVE k + 1 \in T
  <2>1. SUFFICES ASSUME k + 1 <= n PROVE \E d : Good(d, k + 1)
    <3> HIDE DEF Good
    <3>1. QED
      OBVIOUS
  <2>2. PICK g : Good(g, k)
    <3>1. k <= n
      BY <1>1, <2>1
    <3> HIDE DEF Good
    <3>2. QED
      BY <1>4, <3>1
  <2> DEFINE p == n - k
             d == [i \in 1..n + 1 |-> IF i = p THEN DecodeStep(x, g, p) ELSE g[i]]
  <2>3. p \in 1..n + 1 /\ ~(p > n)
        /\ \A i \in 1..n + 1 : i >= n + 1 - (k + 1) => i = p \/ (i # p /\ i >= n + 1 - k /\ i > p)
    BY <1>1, <2>1
  <2>4. d[p] = DecodeStep(x, g, p) /\ \A i \in 1..n + 1 : i # p => d[i] = g[i]
    BY <2>3
  <2> HIDE DEF d
  <2>5. ASSUME NEW i \in 1..n + 1, i >= p PROVE DecodeStep(x, d, i) = DecodeStep(x, g, i)
    <3>1. p \in Nat /\ i \in Nat
      BY <2>3
    <3>2. ~(i > n) => i + 1 \in 1..n + 1 /\ i + 1 # p
      BY <1>1, <2>5, <3>1
    <3>3. i + 2 <= n => i + 3 \in 1..n + 1 /\ i + 3 # p
      BY <1>1, <2>5, <3>1
    <3> HIDE DEF p
    <3>4. ~(i > n) => d[i + 1] = g[i + 1]
      BY <2>4, <3>2
    <3>5. i + 2 <= n => d[i + 3] = g[i + 3]
      BY <2>4, <3>3
    <3>6. QED
      BY <3>4, <3>5 DEF DecodeStep
  <2>6. ASSUME NEW i \in 1..n + 1, i >= n + 1 - (k + 1) PROVE d[i] = DecodeStep(x, d, i)
    <3>1. CASE i = p
      <4>1. p \in Nat /\ i >= p
        BY <2>3, <3>1
      <4>2. DecodeStep(x, d, i) = DecodeStep(x, g, i)
        BY <2>5, <4>1
      <4>3. QED
        BY <2>4, <3>1, <4>2
    <3>2. CASE i # p
      <4>1. i >= n + 1 - k /\ i > p
        BY <2>3, <2>6, <3>2
      <4>2. i >= p
        BY <2>3, <4>1
      <4>3. DecodeStep(x, d, i) = DecodeStep(x, g, i)
        BY <2>5, <4>2
      <4>4. g[i] = DecodeStep(x, g, i)
        BY <2>2, <4>1
      <4>5. QED
        BY <2>4, <3>2, <4>3, <4>4
    <3>3. QED
      BY <3>1, <3>2
  <2>7. Good(d, k + 1)
    BY <2>6
  <2> HIDE DEF Good
  <2>8. QED
    BY <2>7
<1>5. n \in T
  <2> HIDE DEF T, n
  <2>1. QED
    BY <1>1, <1>3, <1>4, Induction
<1>6. PICK g : Good(g, n)
  <2> HIDE DEF Good
  <2>1. n <= n
    BY <1>1
  <2>2. QED
    BY <1>5, <2>1
<1> DEFINE d == [i \in 1..n + 1 |-> g[i]]
<1>7. \A i \in 1..n + 1 : d[i] = DecodeStep(x, d, i)
  <2>1. ASSUME NEW i \in 1..n + 1 PROVE d[i] = DecodeStep(x, d, i)
    <3>1. /\ i >= n + 1 - n /\ (~(i > n) => i + 1 \in 1..n + 1)
          /\ (i + 2 <= n => i + 3 \in 1..n + 1)
      BY <1>1
    <3>2. g[i] = DecodeStep(x, g, i)
      BY <1>6, <3>1
    <3>3. d[i] = g[i] /\ (~(i > n) => d[i + 1] = g[i + 1]) /\ (i + 2 <= n => d[i + 3] = g[i + 3])
      BY <3>1
    <3> HIDE DEF d
    <3>4. QED
      BY <3>2, <3>3 DEF DecodeStep
  <2>2. QED
    BY <2>1
<1>8. Made(d)
  <2>1. \A i \in 1..n + 1 : g[i] = DecodeStep(x, d, i)
    BY <1>7
  <2>2. d = [i \in 1..n + 1 |-> DecodeStep(x, d, i)]
    BY <2>1, Zenon
  <2>3. QED
    BY <2>2, Zenon DEF DecodeStep
<1>9. Made(decode)
  <2>1. \E e : Made(e)
    <3> HIDE DEF Made, d
    <3>1. QED
      BY <1>8
  <2>2. QED
    BY <2>1, Zenon
<1>10. \A i \in 1..n + 1 : decode[i] = DecodeStep(x, decode, i)
  <2> HIDE DEF decode
  <2>1. QED
    BY <1>9, Zenon DEF DecodeStep
<1>11. QED
  <2> HIDE DEF decode
  <2>1. QED
    BY <1>2, <1>10 DEF Decodes

LEMMA TwoTokens ==
  ASSUME NEW a, NEW b
  PROVE  <<a>> \o <<b>> = <<a, b>>
<1> DEFINE S == {a, b}
           x == <<a>>
           y == <<b>>
           z == <<a, b>>
<1>1. /\ x \in Seq(S) /\ y \in Seq(S) /\ z \in Seq(S) /\ Len(x) = 1 /\ Len(y) = 1 /\ Len(z) = 2
      /\ x[1] = a /\ y[1] = b /\ z[1] = a /\ z[2] = b
  OBVIOUS
<1> HIDE DEF S, x, y, z
<1>2. /\ x \o y \in Seq(S) /\ Len(x \o y) = 1 + 1
      /\ \A i \in 1..1 : (x \o y)[i] = x[i]
      /\ \A j \in 1..1 : (x \o y)[1 + j] = y[j]
  BY <1>1, Joined
<1>3. 1 + 1 = 2 /\ 1 \in 1..1 /\ \A i \in 1..2 : i = 1 \/ i = 2
  OBVIOUS
<1>4. (x \o y)[1] = a /\ (x \o y)[2] = b
  BY <1>1, <1>2, <1>3
<1>5. \A i \in 1..2 : (x \o y)[i] = z[i]
  BY <1>1, <1>3, <1>4
<1>6. x \o y = z
  BY <1>1, <1>2, <1>3, <1>5, SeqEqual
<1>7. QED
  BY <1>6 DEF x, y, z

\* A value written in codes, and where those of each character are.
LEMMA EncodedPoints ==
  ASSUME NEW A, NEW v \in Seq(A)
  PROVE  /\ Encoded(v) \in Seq((A \cup {"%", "+", "2", "3", "5", "6", "B", "D"}) \ {"&", "="})
         /\ \E start \in [1..Len(v) + 1 -> Nat] :
              /\ start[1] = 0 /\ Len(Encoded(v)) = start[Len(v) + 1]
              /\ \A i \in 1..Len(v) :
                   /\ start[i + 1] = start[i] + Len(Code(v[i]))
                   /\ \A j \in 1..Len(Code(v[i])) : Encoded(v)[start[i] + j] = Code(v[i])[j]
<1> DEFINE B == (A \cup {"%", "+", "2", "3", "5", "6", "B", "D"}) \ {"&", "="}
           n == Len(v)
           s == [i \in DOMAIN v |-> Code(v[i])]
<1>1. n \in Nat /\ DOMAIN v = 1..n /\ \A i \in 1..n : v[i] \in A
  BY LenProperties, ElementOfSeq
<1>2. \A c \in A : Code(c) \in Seq(B)
  BY CodeIs
<1> HIDE DEF B
<1>3. s \in [1..n -> Seq(B)]
  <2> HIDE DEF n
  <2>1. QED
    BY <1>1, <1>2
<1>4. s \in Seq(Seq(B)) /\ Len(s) = n /\ \A i \in 1..n : s[i] = Code(v[i])
  <2>1. \A i \in 1..n : s[i] = Code(v[i])
    BY <1>1
  <2> HIDE DEF n, s
  <2>2. QED
    BY <1>1, <1>3, <2>1
<1>5. Encoded(v) = FlattenSeq(s)
  BY DEF Encoded
<1> HIDE DEF n, s
<1>6. FlattenSeq(s) \in Seq(B)
  BY <1>4, FlattenPoints
<1>7. PICK start :
        /\ Points(start, s)
        /\ Len(FlattenSeq(s)) = start[Len(s) + 1]
        /\ \A i \in 1..Len(s) : \A j \in 1..Len(s[i]) :
             /\ start[i] + j \in 1..Len(FlattenSeq(s))
             /\ FlattenSeq(s)[start[i] + j] = s[i][j]
  BY <1>4, FlattenPoints
<1>8. start \in [1..n + 1 -> Nat] /\ start[1] = 0 /\ \A i \in 1..n : start[i + 1] = start[i] + Len(s[i])
  BY <1>4, <1>7 DEF Points
<1>9. \A i \in 1..n : start[i + 1] = start[i] + Len(Code(v[i]))
  BY <1>4, <1>8
<1>10. \A i \in 1..n : \A j \in 1..Len(Code(v[i])) : FlattenSeq(s)[start[i] + j] = Code(v[i])[j]
  BY <1>4, <1>7
<1>11. Len(FlattenSeq(s)) = start[n + 1]
  BY <1>4, <1>7
<1>12. QED
  BY <1>5, <1>6, <1>8, <1>9, <1>10, <1>11 DEF B, n

LEMMA DecodeOfEncoded ==
  ASSUME NEW A, NEW v \in Seq(A)
  PROVE  DecodeParam(Encoded(v)) = v
<1> DEFINE B == (A \cup {"%", "+", "2", "3", "5", "6", "B", "D"}) \ {"&", "="}
           n == Len(v)
           x == Encoded(v)
<1>1. n \in Nat /\ \A i \in 1..n : v[i] \in A
  BY LenProperties, ElementOfSeq
<1>2. x \in Seq(B)
  BY EncodedPoints
<1>3. PICK start \in [1..n + 1 -> Nat] :
        /\ start[1] = 0 /\ Len(x) = start[n + 1]
        /\ \A i \in 1..n :
             /\ start[i + 1] = start[i] + Len(Code(v[i]))
             /\ \A j \in 1..Len(Code(v[i])) : x[start[i] + j] = Code(v[i])[j]
  BY EncodedPoints
<1> HIDE DEF x, B
<1>4. PICK d : Decodes(d, x) /\ DecodeParam(x) = d[1]
  BY <1>2, DecodeParamIs
<1>5. Len(x) \in Nat
  BY <1>2, LenProperties
<1> HIDE DEF n
<1>6. \A i \in 1..n + 1 : start[i] \in Nat /\ start[i] <= Len(x)
  <2> DEFINE T == {k \in Nat : k <= n => start[n + 1 - k] <= Len(x)}
  <2>1. 0 \in T
    <3>1. n + 1 - 0 = n + 1
      BY <1>1
    <3>2. QED
      BY <1>3, <1>5, <3>1
  <2>2. ASSUME NEW k \in Nat, k \in T PROVE k + 1 \in T
    <3>1. SUFFICES ASSUME k + 1 <= n PROVE start[n + 1 - (k + 1)] <= Len(x)
      OBVIOUS
    <3>2. PICK i \in 1..n : i = n - k
      BY <1>1, <3>1
    <3>3. n + 1 - (k + 1) = i /\ n + 1 - k = i + 1 /\ k <= n /\ i \in 1..n + 1 /\ i + 1 \in 1..n + 1
      BY <1>1, <3>1, <3>2
    <3>4. start[i + 1] <= Len(x)
      BY <2>2, <3>3
    <3>5. start[i + 1] = start[i] + Len(Code(v[i])) /\ v[i] \in A
      BY <1>1, <1>3
    <3>6. Len(Code(v[i])) \in Nat
      BY <3>5, CodeIs, LenProperties
    <3>7. start[i] \in Nat /\ start[i + 1] \in Nat
      BY <1>3, <3>3
    <3>8. start[i] <= start[i + 1]
      BY <3>5, <3>6, <3>7
    <3>9. start[i] <= Len(x)
      BY <1>5, <3>4, <3>7, <3>8
    <3>10. QED
      BY <3>3, <3>9
  <2> HIDE DEF T
  <2>3. Nat \subseteq T
    BY <2>1, <2>2, Induction
  <2>4. ASSUME NEW i \in 1..n + 1 PROVE start[i] <= Len(x)
    <3>1. n + 1 - i \in Nat /\ n + 1 - i <= n /\ n + 1 - (n + 1 - i) = i
      BY <1>1
    <3>2. n + 1 - i \in T
      BY <2>3, <3>1
    <3>3. QED
      BY <3>1, <3>2 DEF T
  <2>5. QED
    BY <1>3, <2>4
<1>7. ASSUME NEW i \in 1..n
      PROVE  d[start[i] + 1] = <<v[i]>> \o d[start[i + 1] + 1]
  <2> DEFINE p == start[i] + 1
             c == v[i]
             N == Len(x)
  <2>1. i + 1 \in 1..n + 1 /\ i \in 1..n + 1
    BY <1>1
  <2>2. /\ start[i] \in Nat /\ start[i + 1] \in Nat /\ start[i + 1] <= N
        /\ start[i + 1] = start[i] + Len(Code(c))
    BY <1>3, <1>6, <2>1
  <2>3. c \in A /\ \A j \in 1..Len(Code(c)) : x[start[i] + j] = Code(c)[j]
    BY <1>1, <1>3
  <2> HIDE DEF c
  <2>4. CASE c \in Coded
    <3>1. Len(Code(c)) = 3 /\ Code(c)[1] = "%" /\ <<Code(c)[2], Code(c)[3]>> = Tail(Code(c))
      BY <2>3, <2>4, CodeIs
    <3>2. /\ p \in 1..N + 1 /\ ~(p > N) /\ p + 2 <= N /\ p + 3 = start[i + 1] + 1
          /\ p = start[i] + 1 /\ p + 1 = start[i] + 2 /\ p + 2 = start[i] + 3 /\ p \in Nat
      BY <1>5, <2>2, <3>1
    <3> HIDE DEF p
    <3>3. x[p] = Code(c)[1] /\ x[p + 1] = Code(c)[2] /\ x[p + 2] = Code(c)[3]
      BY <2>3, <3>1, <3>2
    <3>4. SubSeq(x, p + 1, p + 2) = <<x[p + 1], x[p + 2]>>
      <4>1. p + 1 \in 1..N /\ p + 2 \in (p + 1)..N
        BY <1>5, <3>2
      <4>2. SubSeq(x, p + 1, p + 2) = <<x[p + 1]>> \o SubSeq(x, (p + 1) + 1, p + 2)
        BY <1>2, <4>1, SubSeqRecursiveFirst
      <4>3. (p + 1) + 1 = p + 2 /\ p + 2 \in 1..N /\ p + 2 \in (p + 2)..N
        BY <1>5, <3>2
      <4>4. SubSeq(x, p + 2, p + 2) = <<x[p + 2]>> \o SubSeq(x, (p + 2) + 1, p + 2)
        BY <1>2, <4>3, SubSeqRecursiveFirst
      <4>5. SubSeq(x, (p + 2) + 1, p + 2) = <<>>
        <5>1. (p + 2) + 1 \in Int /\ p + 2 \in Int /\ p + 2 < (p + 2) + 1
          BY <3>2
        <5>2. QED
          BY <5>1, SubSeqEmpty
      <4>6. \A a, b : <<a>> \o (<<b>> \o <<>>) = <<a, b>>
        <5>1. ASSUME NEW a, NEW b PROVE <<a>> \o (<<b>> \o <<>>) = <<a, b>>
          <6>1. <<b>> \in Seq({b})
            OBVIOUS
          <6>2. <<b>> \o <<>> = <<b>>
            BY <6>1, ConcatEmptySeq
          <6>3. <<a>> \o <<b>> = <<a, b>>
            BY TwoTokens
          <6>4. QED
            BY <6>2, <6>3
        <5>2. QED
          BY <5>1
      <4>7. QED
        BY <4>2, <4>3, <4>4, <4>5, <4>6
    <3>5. Char(SubSeq(x, p + 1, p + 2)) = c
      BY <2>4, <3>1, <3>3, <3>4, CharOfCode
    <3>6. d[p] = DecodeStep(x, d, p)
      BY <1>4, <3>2 DEF Decodes
    <3>7. d[p] = <<c>> \o d[p + 3]
      BY <3>1, <3>2, <3>3, <3>5, <3>6 DEF DecodeStep
    <3>8. QED
      BY <3>2, <3>7 DEF c
  <2>5. CASE c \notin Coded
    <3>1. PICK e : Code(c) = <<e>> /\ e # "%" /\ (IF e = "+" THEN " " ELSE e) = c
      <4>1. CASE c = " "
        <5>1. Code(c) = <<"+">>
          BY <2>3, <4>1, CodeIs
        <5>2. QED
          BY <4>1, <5>1
      <4>2. CASE c # " "
        <5>1. Code(c) = <<c>> /\ c # "%" /\ c # "+"
          BY <2>3, <2>5, <4>2, CodeIs DEF Coded
        <5>2. QED
          BY <5>1
      <4>3. QED
        BY <4>1, <4>2
    <3>2. Len(Code(c)) = 1 /\ Code(c)[1] = e
      <4>1. \A a : Len(<<a>>) = 1 /\ <<a>>[1] = a
        OBVIOUS
      <4>2. QED
        BY <3>1, <4>1, Zenon
    <3>3. p \in 1..N + 1 /\ ~(p > N) /\ p + 1 = start[i + 1] + 1 /\ p = start[i] + 1
      BY <1>5, <2>2, <3>2
    <3>4. x[p] = e
      BY <2>3, <3>2
    <3> HIDE DEF p
    <3>5. d[p] = DecodeStep(x, d, p)
      BY <1>4, <3>3 DEF Decodes
    <3>6. d[p] = <<c>> \o d[p + 1]
      BY <3>1, <3>3, <3>4, <3>5 DEF DecodeStep
    <3>7. QED
      BY <3>3, <3>6 DEF c
  <2>6. QED
    BY <2>4, <2>5
<1> DEFINE U == {k \in Nat : k <= n => d[start[n + 1 - k] + 1] = SubSeq(v, n + 1 - k, n)}
<1>8. 0 \in U
  <2>1. n + 1 - 0 = n + 1 /\ n < n + 1 /\ n + 1 \in Int /\ n \in Int
    BY <1>1
  <2>2. SubSeq(v, n + 1, n) = <<>>
    BY <2>1, SubSeqEmpty
  <2>3. Len(x) + 1 \in 1..Len(x) + 1 /\ Len(x) + 1 > Len(x)
    BY <1>5
  <2>4. d[Len(x) + 1] = <<>>
    BY <1>4, <2>3 DEF Decodes, DecodeStep
  <2>5. QED
    BY <1>3, <2>1, <2>2, <2>4
<1>9. ASSUME NEW k \in Nat, k \in U PROVE k + 1 \in U
  <2>1. SUFFICES ASSUME k + 1 <= n
        PROVE  d[start[n + 1 - (k + 1)] + 1] = SubSeq(v, n + 1 - (k + 1), n)
    OBVIOUS
  <2>2. PICK i \in 1..n : i = n - k
    BY <1>1, <2>1
  <2>3. n + 1 - (k + 1) = i /\ n + 1 - k = i + 1 /\ k <= n /\ n \in i..n
    BY <1>1, <2>1, <2>2
  <2>4. d[start[i + 1] + 1] = SubSeq(v, i + 1, n)
    BY <1>9, <2>3
  <2>5. SubSeq(v, i, n) = <<v[i]>> \o SubSeq(v, i + 1, n)
    BY <2>3, SubSeqRecursiveFirst DEF n
  <2>6. d[start[i] + 1] = SubSeq(v, i, n)
    BY <1>7, <2>4, <2>5
  <2>7. QED
    BY <2>3, <2>6
<1>10. d[start[1] + 1] = SubSeq(v, 1, n)
  <2> HIDE DEF U
  <2>1. n \in U
    BY <1>1, <1>8, <1>9, Induction
  <2>2. n + 1 - n = 1 /\ n <= n
    BY <1>1
  <2>3. QED
    BY <2>1, <2>2 DEF U
<1>11. start[1] + 1 = 1
  BY <1>3
<1>12. SubSeq(v, 1, n) = v
  BY SubSeqFull DEF n
<1>13. QED
  BY <1>4, <1>10, <1>11, <1>12 DEF x

LEMMA LoopMade ==
  ASSUME NEW S, NEW kind, NEW s, NEW q \in Seq(S), NEW e, NEW t,
         DOMAIN e = 0..Len(q), e = [i \in 0..Len(q) |-> e[i]], e[0] = s,
         \A i \in 1..Len(q) : e[i] = StepOf(kind, e[i - 1], q[i]),
         e[Len(q)] = t
  PROVE  Runs(kind, s, q, t)
<1> DEFINE n == Len(q)
<1>1. n \in Nat
  BY LenProperties
<1>2. \A i \in 0..n : e[i] = IF i = 0 THEN s ELSE StepOf(kind, e[i - 1], q[i])
  <2>1. \A i \in 0..n : i = 0 \/ i \in 1..n
    BY <1>1
  <2>2. QED
    BY <2>1
<1>3. e = [i \in 0..n |-> IF i = 0 THEN s ELSE StepOf(kind, e[i - 1], q[i])]
  BY <1>2, Zenon
<1>4. Loop(e, kind, s, q)
  BY <1>3, Zenon DEF Loop
<1>5. QED
  BY <1>4 DEF Runs

-----------------------------------------------------------------------------
(* What is read of a query string. *)

\* The parameters are those of the first k entries of a form.
Holds(taken, form, k) ==
  /\ DOMAIN taken = {form[j].name : j \in 1..k}
  /\ \A j \in 1..k : taken[form[j].name] = form[j].data

LEMMA EmplaceHolds ==
  ASSUME NEW k \in Nat, NEW taken, NEW form, Holds(taken, form, k),
         \A j \in 1..k : form[j].name = form[k + 1].name => form[j].data = form[k + 1].data
  PROVE  Holds(Emplace(taken, form[k + 1].name, form[k + 1].data), form, k + 1)
<1> DEFINE name == form[k + 1].name
           data == form[k + 1].data
           new == Emplace(taken, name, data)
<1>1. \A j \in 1..k + 1 : j \in 1..k \/ j = k + 1
  OBVIOUS
<1>2. \A j \in 1..k : j \in 1..k + 1
  OBVIOUS
<1>3. k + 1 \in 1..k + 1
  OBVIOUS
<1>4. /\ DOMAIN taken = {form[j].name : j \in 1..k}
      /\ \A j \in 1..k : taken[form[j].name] = form[j].data
  BY DEF Holds
<1>5. CASE name \in DOMAIN taken
  <2>1. new = taken
    BY <1>5 DEF Emplace
  <2>2. PICK p \in 1..k : form[p].name = name
    BY <1>4, <1>5
  <2>3. taken[name] = data
    BY <1>4, <2>2
  <2>4. {form[j].name : j \in 1..k + 1} = {form[j].name : j \in 1..k}
    BY <1>1, <1>2, <2>2
  <2>5. \A j \in 1..k + 1 : taken[form[j].name] = form[j].data
    BY <1>1, <1>4, <2>3
  <2> HIDE DEF new, name, data
  <2>6. Holds(new, form, k + 1)
    BY <1>4, <2>1, <2>4, <2>5 DEF Holds
  <2>7. QED
    BY <2>6 DEF new, name, data
<1>6. CASE name \notin DOMAIN taken
  <2>1. new = [x \in DOMAIN taken \cup {name} |-> IF x = name THEN data ELSE taken[x]]
    BY <1>6 DEF Emplace
  <2> HIDE DEF new
  <2>2. /\ DOMAIN new = DOMAIN taken \cup {name} /\ new[name] = data
        /\ \A x \in DOMAIN taken : new[x] = taken[x]
    BY <1>6, <2>1
  <2>3. \A j \in 1..k : form[j].name \in DOMAIN taken
    BY <1>4
  <2>4. {form[j].name : j \in 1..k + 1} = {form[j].name : j \in 1..k} \cup {name}
    BY <1>1, <1>2, <1>3
  <2>5. \A j \in 1..k + 1 : new[form[j].name] = form[j].data
    BY <1>1, <1>4, <2>2, <2>3
  <2> HIDE DEF name, data
  <2>6. Holds(new, form, k + 1)
    BY <1>4, <2>2, <2>4, <2>5 DEF Holds
  <2>7. QED
    BY <2>6 DEF new, name, data
<1>7. QED
  BY <1>5, <1>6

\* The states of parse_query_string().
InPair(name, value, inValue, taken) ==
  [name |-> name, value |-> value, inValue |-> inValue, params |-> taken]

LEMMA NameStep ==
  ASSUME NEW name, NEW taken, NEW x, x # "&", x # "="
  PROVE  StepOf("query", InPair(name, <<>>, FALSE, taken), x)
         = InPair(Append(name, x), <<>>, FALSE, taken)
BY DEF StepOf, ReadChar, InPair

LEMMA EqualsStep ==
  ASSUME NEW name, NEW taken
  PROVE  StepOf("query", InPair(name, <<>>, FALSE, taken), "=") = InPair(name, <<>>, TRUE, taken)
BY DEF StepOf, ReadChar, InPair

LEMMA AndStep ==
  ASSUME NEW name, NEW value, NEW taken
  PROVE  StepOf("query", InPair(name, value, TRUE, taken), "&")
         = StartPair(EndPair(InPair(name, value, TRUE, taken)))
BY DEF StepOf, ReadChar, InPair

LEMMA NameRead ==
  ASSUME NEW S, "&" \notin S, "=" \notin S, NEW w \in Seq(S), NEW taken
  PROVE  Runs("query", StartPair(taken), w, InPair(w, <<>>, FALSE, taken))
<1> DEFINE n == Len(w)
           e == [i \in 0..n |-> InPair(SubSeq(w, 1, i), <<>>, FALSE, taken)]
<1>1. /\ n \in Nat /\ SubSeq(w, 1, 0) = <<>> /\ SubSeq(w, 1, n) = w
      /\ \A i \in 1..n : SubSeq(w, 1, i) = Append(SubSeq(w, 1, i - 1), w[i])
  BY PrefixGrows
<1>2. 0 \in 0..n /\ n \in 0..n /\ \A i \in 1..n : i \in 0..n /\ i - 1 \in 0..n
  BY <1>1
<1>3. e[0] = StartPair(taken)
  BY <1>1, <1>2 DEF InPair, StartPair
<1>4. e[n] = InPair(w, <<>>, FALSE, taken)
  BY <1>1, <1>2
<1>5. ASSUME NEW i \in 1..n PROVE e[i] = StepOf("query", e[i - 1], w[i])
  <2>1. w[i] # "&" /\ w[i] # "="
    BY ElementOfSeq
  <2>2. /\ e[i] = InPair(SubSeq(w, 1, i), <<>>, FALSE, taken)
        /\ e[i - 1] = InPair(SubSeq(w, 1, i - 1), <<>>, FALSE, taken)
    BY <1>2
  <2> HIDE DEF e, n
  <2>3. StepOf("query", InPair(SubSeq(w, 1, i - 1), <<>>, FALSE, taken), w[i])
        = InPair(Append(SubSeq(w, 1, i - 1), w[i]), <<>>, FALSE, taken)
    BY <2>1, NameStep, Zenon
  <2>4. QED
    BY <1>1, <2>2, <2>3
<1>6. DOMAIN e = 0..n /\ e = [i \in 0..n |-> e[i]]
  OBVIOUS
<1> HIDE DEF e
<1>7. QED
  BY <1>3, <1>4, <1>5, <1>6, LoopMade

LEMMA ValueRead ==
  ASSUME NEW S, "&" \notin S, NEW v \in Seq(S), NEW name, NEW taken
  PROVE  Runs("query", InPair(name, <<>>, TRUE, taken), v, InPair(name, v, TRUE, taken))
<1> DEFINE n == Len(v)
           e == [i \in 0..n |-> InPair(name, SubSeq(v, 1, i), TRUE, taken)]
<1>1. /\ n \in Nat /\ SubSeq(v, 1, 0) = <<>> /\ SubSeq(v, 1, n) = v
      /\ \A i \in 1..n : SubSeq(v, 1, i) = Append(SubSeq(v, 1, i - 1), v[i])
  BY PrefixGrows
<1>2. 0 \in 0..n /\ n \in 0..n /\ \A i \in 1..n : i \in 0..n /\ i - 1 \in 0..n
  BY <1>1
<1>3. e[0] = InPair(name, <<>>, TRUE, taken)
  BY <1>1, <1>2
<1>4. e[n] = InPair(name, v, TRUE, taken)
  BY <1>1, <1>2
<1>5. ASSUME NEW i \in 1..n PROVE e[i] = StepOf("query", e[i - 1], v[i])
  <2>1. v[i] # "&"
    BY ElementOfSeq
  <2>2. /\ e[i] = InPair(name, SubSeq(v, 1, i), TRUE, taken)
        /\ e[i - 1] = InPair(name, SubSeq(v, 1, i - 1), TRUE, taken)
    BY <1>2
  <2> HIDE DEF e, n
  <2>3. StepOf("query", InPair(name, SubSeq(v, 1, i - 1), TRUE, taken), v[i])
        = InPair(name, Append(SubSeq(v, 1, i - 1), v[i]), TRUE, taken)
    BY <2>1 DEF StepOf, ReadChar, InPair
  <2>4. QED
    BY <1>1, <2>2, <2>3
<1>6. DOMAIN e = 0..n /\ e = [i \in 0..n |-> e[i]]
  OBVIOUS
<1> HIDE DEF e
<1>7. QED
  BY <1>3, <1>4, <1>5, <1>6, LoopMade

\* A name with its value.
LEMMA NameAndValueRead ==
  ASSUME NEW S, NEW w \in Seq(S \ {"&", "="}), NEW v \in Seq(S \ {"&"}), "=" \in S, NEW taken
  PROVE  Runs("query", StartPair(taken), w \o <<"=">> \o v, InPair(w, v, TRUE, taken))
<1>1. Runs("query", StartPair(taken), w, InPair(w, <<>>, FALSE, taken))
  <2> DEFINE N == S \ {"&", "="}
  <2>1. "&" \notin N /\ "=" \notin N /\ w \in Seq(N)
    OBVIOUS
  <2> HIDE DEF N
  <2>2. QED
    BY <2>1, NameRead
<1>2. Runs("query", InPair(w, <<>>, FALSE, taken), <<"=">>, InPair(w, <<>>, TRUE, taken))
  <2>1. StepOf("query", InPair(w, <<>>, FALSE, taken), "=") = InPair(w, <<>>, TRUE, taken)
    BY EqualsStep, Zenon
  <2>2. Runs("query", InPair(w, <<>>, FALSE, taken), <<"=">>,
             StepOf("query", InPair(w, <<>>, FALSE, taken), "="))
    BY RunsOne, Zenon
  <2>3. QED
    BY <2>1, <2>2
<1>3. Runs("query", InPair(w, <<>>, TRUE, taken), v, InPair(w, v, TRUE, taken))
  <2> DEFINE N == S \ {"&"}
  <2>1. "&" \notin N /\ v \in Seq(N)
    OBVIOUS
  <2> HIDE DEF N
  <2>2. QED
    BY <2>1, ValueRead
<1>4. w \in Seq(S) /\ v \in Seq(S) /\ <<"=">> \in Seq(S)
  <2>1. S \ {"&", "="} \subseteq S /\ S \ {"&"} \subseteq S
    OBVIOUS
  <2>2. w \in Seq(S)
    BY <2>1, SeqMonotonic
  <2>3. v \in Seq(S)
    BY <2>1, SeqMonotonic
  <2>4. QED
    BY <2>2, <2>3
<1>5. w \o <<"=">> \in Seq(S)
  BY <1>4, ConcatProperties
<1>6. Runs("query", StartPair(taken), w \o <<"=">>, InPair(w, <<>>, TRUE, taken))
  BY <1>1, <1>2, <1>4, RunsThrough
<1>7. QED
  BY <1>3, <1>4, <1>5, <1>6, RunsThrough

\* The state in front of the next pair, or of the end: the last pair is read and
\* the parameters are those of the pairs in front of it.
ReadPairs(t, form, k) ==
  \/ k = 0 /\ t = StartPair(NoParams)
  \/ k # 0 /\ \E taken : /\ Holds(taken, form, k - 1)
                         /\ t = InPair(form[k].name, Encoded(form[k].data), TRUE, taken)

LEMMA PairsEnd ==
  ASSUME NEW A, NEW F, NEW form \in Seq(F),
         \A f \in F : f.name # <<>> /\ f.data \in Seq(A),
         \A f, g \in F : f.name = g.name => f.data = g.data,
         NEW k \in 0..Len(form), NEW t, ReadPairs(t, form, k)
  PROVE  Holds(EndPair(t), form, k)
<1>1. Len(form) \in Nat /\ \A i \in 1..Len(form) : form[i] \in F
  BY LenProperties, ElementOfSeq
<1>2. CASE k = 0
  <2>1. t = StartPair(NoParams)
    BY <1>2 DEF ReadPairs
  <2>2. EndPair(t) = NoParams
    BY <2>1 DEF EndPair, StartPair
  <2>3. 1..0 = {} /\ DOMAIN NoParams = {}
    BY DEF NoParams
  <2>4. Holds(NoParams, form, 0)
    BY <2>3 DEF Holds
  <2>5. QED
    BY <1>2, <2>2, <2>4
<1>3. CASE k # 0
  <2>1. PICK taken : /\ Holds(taken, form, k - 1)
                     /\ t = InPair(form[k].name, Encoded(form[k].data), TRUE, taken)
    BY <1>3 DEF ReadPairs
  <2>2. PICK j \in Nat : j = k - 1 /\ k = j + 1 /\ j + 1 \in 1..Len(form) /\ 1..j \subseteq 1..Len(form)
    BY <1>1, <1>3
  <2>3. form[j + 1].name # <<>> /\ form[j + 1].data \in Seq(A)
    BY <1>1, <2>2
  <2>4. DecodeParam(Encoded(form[j + 1].data)) = form[j + 1].data
    BY <2>3, DecodeOfEncoded
  <2>5. EndPair(t) = Emplace(taken, form[j + 1].name, form[j + 1].data)
    BY <2>1, <2>2, <2>3, <2>4 DEF EndPair, InPair
  <2>6. \A i \in 1..j : form[i].name = form[j + 1].name => form[i].data = form[j + 1].data
    BY <1>1, <2>2
  <2>7. Holds(taken, form, j)
    BY <2>1, <2>2
  <2>8. Holds(Emplace(taken, form[j + 1].name, form[j + 1].data), form, j + 1)
    BY <2>6, <2>7, EmplaceHolds
  <2>9. QED
    BY <2>2, <2>5, <2>8
<1>4. QED
  BY <1>2, <1>3

Associated(a, b, c) == (a \o b) \o c = a \o (b \o c)
LEMMA Associativity ==
  ASSUME NEW S, NEW a \in Seq(S), NEW b \in Seq(S), NEW c \in Seq(S)
  PROVE  Associated(a, b, c)
BY ConcatAssociative DEF Associated

Regrouped(a, b, c, d) == a \o b \o c \o d = a \o (b \o c \o d)
LEMMA FourParts ==
  ASSUME NEW S, NEW c \in Seq(S), NEW a \in Seq(S), NEW d \in Seq(S), NEW b \in Seq(S)
  PROVE  Regrouped(c, a, d, b)
<1>0. (c \o a) \o d = c \o (a \o d)
  <2>1. Associated(c, a, d)
    BY Associativity, Zenon
  <2>2. QED
    BY <2>1 DEF Associated
<1>1. a \o d \in Seq(S)
  BY ConcatProperties
<1>2. PICK e \in Seq(S) : e = a \o d
  BY <1>1
<1>3. (c \o e) \o b = c \o (e \o b)
  <2>1. Associated(c, e, b)
    BY Associativity, Zenon
  <2>2. QED
    BY <2>1 DEF Associated
<1>4. QED
  BY <1>0, <1>2, <1>3 DEF Regrouped

\* A query string gives back the form it was written from: every value, whatever
\* is in it, decodes to what the client encoded, and the pairs are cut where it
\* put them (parse_query_string and decode_param, httputils.cpp:397-458).
THEOREM QueryRead ==
  ASSUME NEW A, NEW F, NEW form \in Seq(F),
         \A f \in F : /\ f.name \in Seq(A \ {"&", "="}) /\ f.name # <<>>
                      /\ f.data \in Seq(A),
         \A f, g \in F : f.name = g.name => f.data = g.data
  PROVE  Holds(ParseQueryString(QueryString(form)), form, Len(form))
<1> DEFINE n == Len(form)
           S == A \cup {"%", "+", "2", "3", "5", "6", "B", "D", "&", "="}
           s == [i \in DOMAIN form |-> Pair(form, i)]
           NV(i) == form[i].name \o <<"=">> \o Encoded(form[i].data)
<1>1. n \in Nat /\ DOMAIN form = 1..n /\ \A i \in 1..n : form[i] \in F
  BY LenProperties, ElementOfSeq
<1>2. ASSUME NEW f \in F
      PROVE  /\ f.name \in Seq(S \ {"&", "="}) /\ Encoded(f.data) \in Seq(S \ {"&"})
             /\ f.name \in Seq(S) /\ Encoded(f.data) \in Seq(S)
  <2>1. f.name \in Seq(A \ {"&", "="}) /\ f.data \in Seq(A)
    OBVIOUS
  <2>2. Encoded(f.data) \in Seq((A \cup {"%", "+", "2", "3", "5", "6", "B", "D"}) \ {"&", "="})
    BY <2>1, EncodedPoints
  <2>3. /\ A \ {"&", "="} \subseteq S \ {"&", "="} /\ A \ {"&", "="} \subseteq S
        /\ (A \cup {"%", "+", "2", "3", "5", "6", "B", "D"}) \ {"&", "="} \subseteq S \ {"&"}
        /\ (A \cup {"%", "+", "2", "3", "5", "6", "B", "D"}) \ {"&", "="} \subseteq S
    OBVIOUS
  <2> HIDE DEF S
  <2>4. f.name \in Seq(S \ {"&", "="}) /\ f.name \in Seq(S)
    BY <2>1, <2>3, SeqMonotonic
  <2>5. Encoded(f.data) \in Seq(S \ {"&"}) /\ Encoded(f.data) \in Seq(S)
    BY <2>2, <2>3, SeqMonotonic
  <2>6. QED
    BY <2>4, <2>5
<1>3. "=" \in S /\ "&" \in S
  OBVIOUS
<1> HIDE DEF S, n
<1>4. <<"=">> \in Seq(S) /\ <<"&">> \in Seq(S) /\ <<>> \in Seq(S)
  BY <1>3
<1>5. ASSUME NEW i \in 1..n
      PROVE  /\ NV(i) \in Seq(S) /\ Pair(form, i) \in Seq(S)
             /\ i = 1 => Pair(form, i) = NV(i)
             /\ i # 1 => Pair(form, i) = <<"&">> \o NV(i)
  <2> DEFINE a == form[i].name
             b == Encoded(form[i].data)
             c == <<"&">>
             d == <<"=">>
  <2>1. a \in Seq(S) /\ b \in Seq(S) /\ c \in Seq(S) /\ d \in Seq(S)
    BY <1>1, <1>2, <1>4
  <2>2. Pair(form, i) = (IF i = 1 THEN <<>> ELSE c) \o a \o d \o b
    BY DEF Pair
  <2>3. NV(i) = a \o d \o b
    OBVIOUS
  <2> HIDE DEF a, b, c, d, NV
  <2>4. a \o d \in Seq(S) /\ (a \o d) \o b \in Seq(S)
    BY <2>1, ConcatProperties
  <2>5. <<>> \o a = a
    BY <2>1, ConcatEmptySeq
  <2>6. c \o a \o d \o b = c \o (a \o d \o b)
    <3>1. Regrouped(c, a, d, b)
      BY <2>1, FourParts, Zenon
    <3>2. QED
      BY <3>1 DEF Regrouped
  <2>8. c \o ((a \o d) \o b) \in Seq(S)
    BY <2>1, <2>4, ConcatProperties
  <2>9. i = 1 => Pair(form, i) = NV(i)
    BY <2>2, <2>3, <2>5
  <2>10. i # 1 => Pair(form, i) = c \o NV(i)
    BY <2>2, <2>3, <2>6
  <2>11. Pair(form, i) \in Seq(S)
    BY <2>3, <2>4, <2>8, <2>9, <2>10
  <2>12. QED
    BY <2>3, <2>4, <2>9, <2>10, <2>11 DEF c
<1> HIDE DEF NV
<1>6. s \in Seq(Seq(S)) /\ Len(s) = n /\ \A i \in 1..n : s[i] = Pair(form, i)
  <2>1. s \in [1..n -> Seq(S)]
    BY <1>1, <1>5
  <2>2. \A i \in 1..n : s[i] = Pair(form, i)
    BY <1>1
  <2> HIDE DEF s
  <2>3. QED
    BY <1>1, <2>1, <2>2
<1>7. QueryString(form) = FlattenSeq(s)
  BY DEF QueryString
<1> HIDE DEF s
<1>8. PICK f \in [0..n -> Seq(S)] :
        /\ f[0] = <<>> /\ \A i \in 1..n : f[i] = f[i - 1] \o s[i]
        /\ FlattenSeq(s) = f[n]
  BY <1>6, FlattenFcn
<1> DEFINE q == StartPair(NoParams)
           T == {k \in Nat : k <= n => \E t : Runs("query", q, f[k], t) /\ ReadPairs(t, form, k)}
<1>9. 0 \in T
  <2>1. Runs("query", q, <<>>, q)
    BY RunsNothing, Zenon
  <2>2. ReadPairs(q, form, 0)
    BY DEF ReadPairs
  <2> HIDE DEF q
  <2>3. QED
    BY <1>8, <2>1, <2>2
<1>10. ASSUME NEW k \in Nat, k \in T PROVE k + 1 \in T
  <2>1. SUFFICES ASSUME k + 1 <= n
        PROVE  \E t : Runs("query", q, f[k + 1], t) /\ ReadPairs(t, form, k + 1)
    OBVIOUS
  <2>2. k <= n /\ k + 1 \in 1..n /\ (k + 1) - 1 = k /\ k \in 0..n /\ k + 1 # 0
    BY <1>1, <2>1
  <2>3. PICK t : Runs("query", q, f[k], t) /\ ReadPairs(t, form, k)
    BY <1>10, <2>2
  <2> HIDE DEF q
  <2> DEFINE i == k + 1
             name == form[i].name
             value == Encoded(form[i].data)
             taken == EndPair(t)
  <2>4. Holds(taken, form, k)
    <3>1. k \in 0..Len(form)
      BY <2>2 DEF n
    <3> HIDE DEF taken
    <3>2. Holds(EndPair(t), form, k)
      BY <2>3, <3>1, PairsEnd
    <3>3. QED
      BY <3>2 DEF taken
  <2>5. Runs("query", StartPair(taken), NV(i), InPair(name, value, TRUE, taken))
    <3>1. name \in Seq(S \ {"&", "="}) /\ value \in Seq(S \ {"&"})
      BY <1>1, <1>2, <2>2
    <3> HIDE DEF name, value, taken
    <3>2. Runs("query", StartPair(taken), name \o <<"=">> \o value, InPair(name, value, TRUE, taken))
      BY <1>3, <3>1, NameAndValueRead
    <3>3. NV(i) = name \o <<"=">> \o value
      BY DEF NV, name, value
    <3>4. QED
      BY <3>2, <3>3
  <2>6. Runs("query", t, s[i], InPair(name, value, TRUE, taken))
    <3>1. CASE k = 0
      <4>1. t = StartPair(NoParams)
        BY <2>3, <3>1 DEF ReadPairs
      <4>2. taken = NoParams
        BY <4>1 DEF EndPair, StartPair
      <4>3. i = 1 /\ s[i] = NV(i)
        BY <1>5, <1>6, <2>2, <3>1
      <4> HIDE DEF i, name, value, taken
      <4>4. QED
        BY <2>5, <4>1, <4>2, <4>3
    <3>2. CASE k # 0
      <4>1. PICK nm, va, ta : t = InPair(nm, va, TRUE, ta)
        BY <2>3, <3>2 DEF ReadPairs
      <4>2. StepOf("query", t, "&") = StartPair(taken)
        BY <4>1, AndStep, Zenon
      <4>3. Runs("query", t, <<"&">>, StartPair(taken))
        <5>1. Runs("query", t, <<"&">>, StepOf("query", t, "&"))
          BY RunsOne, Zenon
        <5>2. QED
          BY <4>2, <5>1
      <4>4. i # 1 /\ s[i] = <<"&">> \o NV(i) /\ NV(i) \in Seq(S)
        BY <1>5, <1>6, <2>2, <3>2
      <4> HIDE DEF i, name, value, taken
      <4>5. Runs("query", t, <<"&">> \o NV(i), InPair(name, value, TRUE, taken))
        BY <1>4, <2>5, <4>3, <4>4, RunsThrough
      <4>6. QED
        BY <4>4, <4>5
    <3>3. QED
      BY <3>1, <3>2
  <2>7. f[k] \in Seq(S) /\ s[i] \in Seq(S) /\ f[i] = f[k] \o s[i]
    BY <1>5, <1>6, <1>8, <2>2
  <2>8. ReadPairs(InPair(name, value, TRUE, taken), form, i)
    <3> HIDE DEF taken
    <3>1. QED
      BY <2>2, <2>4 DEF ReadPairs
  <2> HIDE DEF i, name, value, taken
  <2>9. Runs("query", q, f[k] \o s[i], InPair(name, value, TRUE, taken))
    BY <2>3, <2>6, <2>7, RunsThrough
  <2>10. QED
    BY <2>7, <2>8, <2>9 DEF i
<1>11. PICK t : Runs("query", q, f[n], t) /\ ReadPairs(t, form, n)
  <2> HIDE DEF T
  <2>1. n \in T
    BY <1>1, <1>9, <1>10, Induction
  <2>2. n <= n
    BY <1>1
  <2>3. QED
    BY <2>1, <2>2 DEF T
<1>12. f[n] \in Seq(S)
  BY <1>1, <1>8
<1>13. ParseQueryString(f[n]) = EndPair(t)
  BY <1>11, <1>12, ParseQueryStringRuns
<1>14. Holds(EndPair(t), form, n)
  <2>1. n \in 0..Len(form)
    BY <1>1 DEF n
  <2>2. QED
    BY <1>11, <2>1, PairsEnd
<1>15. QED
  BY <1>7, <1>8, <1>13, <1>14 DEF n

LEMMA LinesRuns ==
  ASSUME NEW S, NEW q \in Seq(S), NEW t, Runs("lines", NoLines, q, t), t.line = <<>>
  PROVE  Lines(q) = t.done
<1> DEFINE n == Len(q)
           s == NoLines
           Made(e) == e = [i \in 0..n |-> IF i = 0 THEN s ELSE ReadByte(e[i - 1], q[i])]
           read == CHOOSE e : Made(e)
<1>1. Lines(q) = IF read[n].line = <<>> THEN read[n].done ELSE Append(read[n].done, read[n].line)
  BY Zenon DEF Lines
<1>2. \A e : Made(e) <=> Loop(e, "lines", s, q)
  BY DEF Loop, StepOf
<1>3. \E e : Loop(e, "lines", s, q)
  <2> HIDE DEF s
  <2>1. QED
    BY LoopExists
<1> HIDE DEF Made, s
<1>4. Made(read)
  BY <1>2, <1>3
<1>5. Runs("lines", s, q, read[n])
  BY <1>2, <1>4 DEF Runs
<1>6. read[n] = t
  <2> HIDE DEF read, n
  <2>1. QED
    BY <1>5, RunsUnique DEF s
<1> HIDE DEF read, n
<1>7. QED
  BY <1>1, <1>6

LEMMA ParseMultipartRuns ==
  ASSUME NEW S, NEW body, Lines(body) \in Seq(S), NEW t, Runs("parts", NoParts, Lines(body), t)
  PROVE  ParseMultipart(body) = t.fields
<1> DEFINE q == Lines(body)
           n == Len(q)
           s == NoParts
           Made(e) == e = [i \in 0..n |-> IF i = 0 THEN s ELSE ReadLine(e[i - 1], q[i])]
           read == CHOOSE e : Made(e)
<1>1. ParseMultipart(body) = read[n].fields
  BY Zenon DEF ParseMultipart
<1> HIDE DEF q
<1>2. \A e : Made(e) <=> Loop(e, "parts", s, q)
  BY DEF Loop, StepOf
<1>3. q \in Seq(S) /\ Runs("parts", s, q, t)
  BY DEF q
<1>4. \E e : Loop(e, "parts", s, q)
  <2> HIDE DEF s
  <2>1. QED
    BY <1>3, LoopExists
<1> HIDE DEF Made, s
<1>5. Made(read)
  BY <1>2, <1>4
<1>6. Runs("parts", s, q, read[n])
  BY <1>2, <1>5 DEF Runs
<1>7. read[n] = t
  <2> HIDE DEF read, n
  <2>1. QED
    BY <1>3, <1>6, RunsUnique
<1> HIDE DEF read, n
<1>8. QED
  BY <1>1, <1>7

LEMMA EofParamsRuns ==
  ASSUME NEW S, NEW q \in Seq(S), NEW t, Runs("fields", NoneTaken, q, t)
  PROVE  EofParams(q) = [params |-> t.params, files |-> t.files]
<1> DEFINE n == Len(q)
           s == NoneTaken
           Made(e) == e = [i \in 0..n |-> IF i = 0 THEN s ELSE TakeField(e[i - 1], q[i])]
           taken == CHOOSE e : Made(e)
<1>1. EofParams(q) = [params |-> taken[n].params, files |-> taken[n].files]
  BY Zenon DEF EofParams
<1>2. \A e : Made(e) <=> Loop(e, "fields", s, q)
  BY DEF Loop, StepOf
<1>3. \E e : Loop(e, "fields", s, q)
  <2> HIDE DEF s
  <2>1. QED
    BY LoopExists
<1> HIDE DEF Made, s
<1>4. Made(taken)
  BY <1>2, <1>3
<1>5. Runs("fields", s, q, taken[n])
  BY <1>2, <1>4 DEF Runs
<1>6. taken[n] = t
  <2> HIDE DEF taken, n
  <2>1. QED
    BY <1>5, RunsUnique DEF s
<1> HIDE DEF taken, n
<1>7. QED
  BY <1>1, <1>6

-----------------------------------------------------------------------------
(* What is read of a multipart body, line by line. *)

InLine(done, line) == [done |-> done, line |-> line]

\* A text takes the parser of the parts from s to u, and l is left of its last
\* line.
Open(S, text, s, u, l) ==
  /\ text \in Seq(S) /\ l \in Seq(S)
  /\ \E ls \in Seq(Seq(S)) :
       /\ \A done \in Seq(Seq(S)) : Runs("lines", InLine(done, <<>>), text, InLine(done \o ls, l))
       /\ Runs("parts", s, ls, u)

LEMMA OpenNothing ==
  ASSUME NEW S, NEW s
  PROVE  Open(S, <<>>, s, s, <<>>)
<1> DEFINE ls == <<>>
<1>1. ls \in Seq(Seq(S)) /\ <<>> \in Seq(S)
  OBVIOUS
<1>2. Runs("parts", s, ls, s)
  BY RunsNothing, Zenon
<1>3. ASSUME NEW done \in Seq(Seq(S))
      PROVE  Runs("lines", InLine(done, <<>>), <<>>, InLine(done \o ls, <<>>))
  <2>1. Runs("lines", InLine(done, <<>>), <<>>, InLine(done, <<>>))
    BY RunsNothing, Zenon
  <2>2. done \o ls = done
    BY ConcatEmptySeq
  <2>3. QED
    BY <2>1, <2>2
<1> HIDE DEF ls
<1>4. QED
  BY <1>1, <1>2, <1>3 DEF Open

LEMMA OpenThrough ==
  ASSUME NEW S, NEW a, NEW b, NEW s, NEW t, NEW u, NEW l,
         Open(S, a, s, t, <<>>), Open(S, b, t, u, l)
  PROVE  Open(S, a \o b, s, u, l)
<1>1. PICK ls \in Seq(Seq(S)) :
        /\ \A done \in Seq(Seq(S)) :
             Runs("lines", InLine(done, <<>>), a, InLine(done \o ls, <<>>))
        /\ Runs("parts", s, ls, t)
  BY DEF Open
<1>2. PICK ms \in Seq(Seq(S)) :
        /\ \A done \in Seq(Seq(S)) :
             Runs("lines", InLine(done, <<>>), b, InLine(done \o ms, l))
        /\ Runs("parts", t, ms, u)
  BY DEF Open
<1>3. a \in Seq(S) /\ b \in Seq(S) /\ l \in Seq(S)
  BY DEF Open
<1>4. ls \o ms \in Seq(Seq(S)) /\ a \o b \in Seq(S)
  BY <1>3, ConcatProperties
<1>5. Runs("parts", s, ls \o ms, u)
  BY <1>1, <1>2, RunsThrough
<1>6. ASSUME NEW done \in Seq(Seq(S))
      PROVE  Runs("lines", InLine(done, <<>>), a \o b, InLine(done \o (ls \o ms), l))
  <2>1. PICK d \in Seq(Seq(S)) : d = done \o ls
    BY ConcatProperties
  <2>2. Runs("lines", InLine(done, <<>>), a, InLine(d, <<>>))
    BY <1>1, <2>1
  <2>3. Runs("lines", InLine(d, <<>>), b, InLine(d \o ms, l))
    BY <1>2
  <2>4. Runs("lines", InLine(done, <<>>), a \o b, InLine(d \o ms, l))
    BY <1>3, <2>2, <2>3, RunsThrough
  <2>5. (done \o ls) \o ms = done \o (ls \o ms)
    <3>1. Associated(done, ls, ms)
      BY Associativity, Zenon
    <3>2. QED
      BY <3>1 DEF Associated
  <2>6. QED
    BY <2>1, <2>4, <2>5
<1>7. QED
  BY <1>3, <1>4, <1>5, <1>6 DEF Open

LEMMA OpenChar ==
  ASSUME NEW S, NEW a, NEW s, NEW u, NEW l, NEW c \in S, c # "\n", Open(S, a, s, u, l)
  PROVE  Open(S, Append(a, c), s, u, Append(l, c))
<1>1. PICK ls \in Seq(Seq(S)) :
        /\ \A done \in Seq(Seq(S)) :
             Runs("lines", InLine(done, <<>>), a, InLine(done \o ls, l))
        /\ Runs("parts", s, ls, u)
  BY DEF Open
<1>2. a \in Seq(S) /\ l \in Seq(S) /\ <<c>> \in Seq(S)
  BY DEF Open
<1>3. Append(a, c) \in Seq(S) /\ Append(l, c) \in Seq(S) /\ Append(a, c) = a \o <<c>>
  BY <1>2, AppendProperties, AppendIsConcat
<1>4. ASSUME NEW done \in Seq(Seq(S))
      PROVE  Runs("lines", InLine(done, <<>>), Append(a, c), InLine(done \o ls, Append(l, c)))
  <2>1. Runs("lines", InLine(done, <<>>), a, InLine(done \o ls, l))
    BY <1>1
  <2>2. StepOf("lines", InLine(done \o ls, l), c) = InLine(done \o ls, Append(l, c))
    BY DEF StepOf, ReadByte, InLine
  <2>3. Runs("lines", InLine(done \o ls, l), <<c>>, StepOf("lines", InLine(done \o ls, l), c))
    BY RunsOne, Zenon
  <2>4. Runs("lines", InLine(done \o ls, l), <<c>>, InLine(done \o ls, Append(l, c)))
    BY <2>2, <2>3
  <2>5. QED
    BY <1>2, <1>3, <2>1, <2>4, RunsThrough
<1>5. QED
  BY <1>1, <1>3, <1>4 DEF Open

LEMMA OpenEol ==
  ASSUME NEW S, NEW a, NEW s, NEW u, NEW l, "\n" \in S, Open(S, a, s, u, l)
  PROVE  Open(S, Append(a, "\n"), s, ReadLine(u, l), <<>>)
<1>1. PICK ls \in Seq(Seq(S)) :
        /\ \A done \in Seq(Seq(S)) :
             Runs("lines", InLine(done, <<>>), a, InLine(done \o ls, l))
        /\ Runs("parts", s, ls, u)
  BY DEF Open
<1>2. a \in Seq(S) /\ l \in Seq(S) /\ <<"\n">> \in Seq(S) /\ <<l>> \in Seq(Seq(S)) /\ <<>> \in Seq(S)
  BY DEF Open
<1>3. Append(a, "\n") \in Seq(S) /\ Append(a, "\n") = a \o <<"\n">>
  BY <1>2, AppendProperties, AppendIsConcat
<1> DEFINE ms == ls \o <<l>>
<1>4. ms \in Seq(Seq(S))
  BY <1>2, ConcatProperties
<1>5. Runs("parts", s, ms, ReadLine(u, l))
  <2>1. Runs("parts", u, <<l>>, StepOf("parts", u, l))
    BY RunsOne, Zenon
  <2>2. StepOf("parts", u, l) = ReadLine(u, l)
    BY DEF StepOf
  <2>3. Runs("parts", u, <<l>>, ReadLine(u, l))
    BY <2>1, <2>2
  <2>4. QED
    BY <1>1, <1>2, <2>3, RunsThrough
<1>6. ASSUME NEW done \in Seq(Seq(S))
      PROVE  Runs("lines", InLine(done, <<>>), Append(a, "\n"), InLine(done \o ms, <<>>))
  <2>1. Runs("lines", InLine(done, <<>>), a, InLine(done \o ls, l))
    BY <1>1
  <2>2. StepOf("lines", InLine(done \o ls, l), "\n") = InLine(Append(done \o ls, l), <<>>)
    BY DEF StepOf, ReadByte, InLine
  <2>3. Append(done \o ls, l) = done \o ms
    <3>1. PICK d \in Seq(Seq(S)) : d = done \o ls
      BY ConcatProperties
    <3>2. Append(d, l) = d \o <<l>>
      BY <1>2, AppendIsConcat
    <3>3. (done \o ls) \o <<l>> = done \o (ls \o <<l>>)
      <4>1. Associated(done, ls, <<l>>)
        BY <1>2, Associativity, Zenon
      <4>2. QED
        BY <4>1 DEF Associated
    <3>4. QED
      BY <3>1, <3>2, <3>3
  <2>4. Runs("lines", InLine(done \o ls, l), <<"\n">>, StepOf("lines", InLine(done \o ls, l), "\n"))
    BY RunsOne, Zenon
  <2>5. Runs("lines", InLine(done \o ls, l), <<"\n">>, InLine(done \o ms, <<>>))
    BY <2>2, <2>3, <2>4
  <2> HIDE DEF ms
  <2>6. QED
    BY <1>2, <1>3, <2>1, <2>5, RunsThrough
<1> HIDE DEF ms
<1>7. QED
  BY <1>2, <1>3, <1>4, <1>5, <1>6 DEF Open

\* A body that is read to the end of its last line.
LEMMA OpenBody ==
  ASSUME NEW S, NEW body, NEW u, Open(S, body, NoParts, u, <<>>)
  PROVE  ParseMultipart(body) = u.fields
<1>1. PICK ls \in Seq(Seq(S)) :
        /\ \A done \in Seq(Seq(S)) :
             Runs("lines", InLine(done, <<>>), body, InLine(done \o ls, <<>>))
        /\ Runs("parts", NoParts, ls, u)
  BY DEF Open
<1> DEFINE none == <<>>
<1>2. none \in Seq(Seq(S)) /\ body \in Seq(S)
  BY DEF Open
<1>3. none \o ls = ls
  BY ConcatEmptySeq
<1>4. InLine(none, <<>>) = NoLines
  BY DEF InLine, NoLines
<1> HIDE DEF none
<1>5. Runs("lines", NoLines, body, InLine(ls, <<>>))
  BY <1>1, <1>2, <1>3, <1>4
<1>6. InLine(ls, <<>>).line = <<>> /\ InLine(ls, <<>>).done = ls
  BY DEF InLine
<1>7. Lines(body) = ls
  BY <1>2, <1>5, <1>6, LinesRuns
<1>8. QED
  BY <1>1, <1>7, ParseMultipartRuns

\* A line: its characters, then its end.
LEMMA OpenText ==
  ASSUME NEW S, NEW w \in Seq(S \ {"\n"}), NEW s
  PROVE  Open(S, w, s, s, w)
<1> DEFINE n == Len(w)
           P(k) == SubSeq(w, 1, k)
           T == {k \in Nat : k <= n => Open(S, P(k), s, s, P(k))}
<1>1. /\ n \in Nat /\ P(0) = <<>> /\ P(n) = w
      /\ \A i \in 1..n : P(i) = Append(P(i - 1), w[i])
  BY PrefixGrows
<1>2. \A i \in 1..n : w[i] \in S /\ w[i] # "\n"
  BY ElementOfSeq
<1> HIDE DEF n, P
<1>3. 0 \in T
  <2>1. Open(S, <<>>, s, s, <<>>)
    BY OpenNothing, Zenon
  <2>2. QED
    BY <1>1, <2>1
<1>4. ASSUME NEW k \in Nat, k \in T PROVE k + 1 \in T
  <2>1. SUFFICES ASSUME k + 1 <= n PROVE Open(S, P(k + 1), s, s, P(k + 1))
    OBVIOUS
  <2>2. k <= n /\ k + 1 \in 1..n /\ (k + 1) - 1 = k
    BY <1>1, <2>1
  <2>3. Open(S, P(k), s, s, P(k))
    BY <1>4, <2>2
  <2>4. P(k + 1) = Append(P(k), w[k + 1]) /\ w[k + 1] \in S /\ w[k + 1] # "\n"
    BY <1>1, <1>2, <2>2
  <2>5. Open(S, Append(P(k), w[k + 1]), s, s, Append(P(k), w[k + 1]))
    BY <2>3, <2>4, OpenChar
  <2>6. QED
    BY <2>4, <2>5
<1> HIDE DEF T
<1>5. n \in T
  BY <1>1, <1>3, <1>4, Induction
<1>6. n <= n
  BY <1>1
<1>7. QED
  BY <1>1, <1>5, <1>6 DEF T

LEMMA EndedIs ==
  ASSUME NEW S, NEW w \in Seq(S)
  PROVE  Ended(w) = Append(Append(w, "\r"), "\n")
<1> DEFINE A == S \cup {"\r", "\n"}
<1>1. w \in Seq(A)
  <2>1. S \subseteq A
    OBVIOUS
  <2> HIDE DEF A
  <2>2. QED
    BY <2>1, SeqMonotonic
<1>2. "\r" \in A /\ "\n" \in A /\ <<"\r">> \in Seq(A) /\ <<"\n">> \in Seq(A)
  OBVIOUS
<1> HIDE DEF A
<1>3. Append(w, "\r") = w \o <<"\r">> /\ Append(w, "\r") \in Seq(A)
  BY <1>1, <1>2, AppendProperties, AppendIsConcat
<1>4. Append(Append(w, "\r"), "\n") = Append(w, "\r") \o <<"\n">>
  BY <1>2, <1>3, AppendIsConcat
<1>5. (w \o <<"\r">>) \o <<"\n">> = w \o (<<"\r">> \o <<"\n">>)
  <2>1. Associated(w, <<"\r">>, <<"\n">>)
    BY <1>1, <1>2, Associativity, Zenon
  <2>2. QED
    BY <2>1 DEF Associated
<1>6. <<"\r">> \o <<"\n">> = Eol
  BY TwoTokens DEF Eol
<1>7. QED
  BY <1>3, <1>4, <1>5, <1>6 DEF Ended

LEMMA OpenEnded ==
  ASSUME NEW S, "\r" \in S, "\n" \in S, NEW w \in Seq(S \ {"\n"}), NEW s
  PROVE  Open(S, Ended(w), s, ReadLine(s, Append(w, "\r")), <<>>)
<1>1. Append(w, "\r") \in Seq(S \ {"\n"})
  <2> DEFINE N == S \ {"\n"}
  <2>1. "\r" \in N
    OBVIOUS
  <2> HIDE DEF N
  <2>2. w \in Seq(N)
    BY DEF N
  <2>3. Append(w, "\r") \in Seq(N)
    BY <2>1, <2>2, AppendProperties
  <2>4. QED
    BY <2>3 DEF N
<1>2. Open(S, Append(w, "\r"), s, s, Append(w, "\r"))
  BY <1>1, OpenText
<1>3. Open(S, Append(Append(w, "\r"), "\n"), s, ReadLine(s, Append(w, "\r")), <<>>)
  BY <1>2, OpenEol
<1>4. Ended(w) = Append(Append(w, "\r"), "\n")
  BY EndedIs
<1>5. QED
  BY <1>3, <1>4

-----------------------------------------------------------------------------
(* The lines of a file. *)

\* The states of parse_multipart().
InPart(fields, name, filename, data, next) ==
  [fields |-> fields, part |-> [name |-> name, filename |-> filename, data |-> data],
   next |-> next]

\* A line without the boundary is none, whatever it has.
LEMMA NoBoundary ==
  ASSUME NEW S, Boundary \notin S, NEW l \in Seq(S)
  PROVE  Stripped(l) = l /\ l # <<Boundary>> /\ l # <<Boundary, "-", "-">>
<1>1. \A i \in 1..Len(l) : l[i] # Boundary
  BY ElementOfSeq
<1>2. l # <<>> => 1 \in 1..Len(l)
  <2>1. Len(l) \in Nat /\ (Len(l) = 0 => l = <<>>)
    BY LenProperties, EmptySeq
  <2>2. QED
    BY <2>1
<1>3. ~(l # <<>> /\ l[1] = Boundary)
  BY <1>1, <1>2
<1>4. \A x, y : <<Boundary>>[1] = Boundary /\ <<Boundary>> # <<>>
             /\ <<Boundary, x, y>>[1] = Boundary /\ <<Boundary, x, y>> # <<>>
  OBVIOUS
<1>5. l # <<Boundary>> /\ l # <<Boundary, "-", "-">>
  BY <1>3, <1>4
<1>6. QED
  BY <1>3, <1>5 DEF Stripped

LEMMA FileLine ==
  ASSUME NEW S, Boundary \notin S, NEW l \in Seq(S),
         NEW fields, NEW name, NEW filename, filename # <<>>, NEW data
  PROVE  ReadLine(InPart(fields, name, filename, data, "data"), l)
         = InPart(fields, name, filename, data \o (l \o <<"\n">>), "data")
<1>1. Stripped(l) = l /\ l # <<Boundary>> /\ l # <<Boundary, "-", "-">>
  BY NoBoundary
<1> DEFINE s == InPart(fields, name, filename, data, "data")
<1>2. s.next = "data" /\ s.part.filename = filename /\ s.part.data = data
  BY DEF InPart
<1>3. Data(s, l) = l \o <<"\n">>
  BY <1>2 DEF Data
<1>4. ReadLine(s, l) = [s EXCEPT !.part.data = @ \o Data(s, l)]
  <2> HIDE DEF s
  <2>1. QED
    BY <1>1, <1>2 DEF ReadLine
<1>5. [s EXCEPT !.part.data = @ \o Data(s, l)]
      = InPart(fields, name, filename, data \o Data(s, l), "data")
  <2>1. \A d : [s EXCEPT !.part.data = d] = InPart(fields, name, filename, d, "data")
    BY DEF InPart
  <2> HIDE DEF s
  <2>2. [s EXCEPT !.part.data = @ \o Data(s, l)] = [s EXCEPT !.part.data = s.part.data \o Data(s, l)]
    OBVIOUS
  <2>3. QED
    BY <1>2, <2>1, <2>2
<1>6. QED
  BY <1>3, <1>4, <1>5

LEMMA OpenFile ==
  ASSUME NEW S, "\r" \in S, "\n" \in S, NEW contents \in Seq(S \ {Boundary}),
         NEW fields, NEW name, NEW filename, filename # <<>>
  PROVE  Open(S, Ended(contents), InPart(fields, name, filename, <<>>, "data"),
              InPart(fields, name, filename, Ended(contents), "data"), <<>>)
<1> DEFINE N == S \ {Boundary}
           y == Append(contents, "\r")
           n == Len(y)
           P(k) == SubSeq(y, 1, k)
           s(x) == InPart(fields, name, filename, x, "data")
           Read(k, l, x) == Open(S, P(k), s(<<>>), s(x), l) /\ x \o l = P(k)
           T == {k \in Nat : k <= n => \E l \in Seq(N), x \in Seq(S) : Read(k, l, x)}
<1>1. "\r" \in N /\ "\n" \in N /\ Boundary \notin N /\ N \subseteq S /\ contents \in Seq(N)
  BY DEF Boundary
<1> HIDE DEF N
<1>2. y \in Seq(N)
  BY <1>1, AppendProperties
<1> HIDE DEF y
<1>3. /\ n \in Nat /\ P(0) = <<>> /\ P(n) = y
      /\ \A i \in 0..n : P(i) \in Seq(N)
      /\ \A i \in 1..n : P(i) = Append(P(i - 1), y[i])
  BY <1>2, PrefixGrows
<1>4. \A i \in 1..n : y[i] \in N
  BY <1>2, ElementOfSeq
<1>5. \A l \in Seq(N) : l \in Seq(S)
  BY <1>1, SeqMonotonic
<1> HIDE DEF P, n
<1>6. ASSUME NEW l \in Seq(N), NEW x
      PROVE  ReadLine(s(x), l) = s(x \o (l \o <<"\n">>))
  BY <1>1, FileLine
<1> HIDE DEF s
<1>7. 0 \in T
  <2>1. Open(S, P(0), s(<<>>), s(<<>>), <<>>)
    <3>1. Open(S, <<>>, s(<<>>), s(<<>>), <<>>)
      BY OpenNothing, Zenon
    <3>2. QED
      BY <1>3, <3>1
  <2> DEFINE none == <<>>
  <2>2. none \in Seq(N) /\ none \in Seq(S)
    OBVIOUS
  <2>3. none \o none = none
    BY <2>2, ConcatEmptySeq
  <2>4. Read(0, none, none)
    BY <1>3, <2>1, <2>3
  <2> HIDE DEF none, Read
  <2>5. QED
    BY <2>2, <2>4
\* What follows a line that is complete.
<1>8. ASSUME NEW k \in 0..n, NEW l \in Seq(N), NEW x \in Seq(S), Read(k, l, x)
      PROVE  /\ Open(S, Append(P(k), "\n"), s(<<>>), s(x \o (l \o <<"\n">>)), <<>>)
             /\ x \o (l \o <<"\n">>) = Append(P(k), "\n") /\ x \o (l \o <<"\n">>) \in Seq(S)
  <2>1. Open(S, P(k), s(<<>>), s(x), l) /\ x \o l = P(k)
    BY <1>8
  <2>2. Open(S, Append(P(k), "\n"), s(<<>>), ReadLine(s(x), l), <<>>)
    BY <2>1, OpenEol
  <2>3. l \in Seq(S) /\ <<"\n">> \in Seq(S)
    BY <1>5
  <2>4. l \o <<"\n">> \in Seq(S)
    BY <2>3, ConcatProperties
  <2>5. x \o (l \o <<"\n">>) \in Seq(S)
    BY <2>4, ConcatProperties
  <2>6. Associated(x, l, <<"\n">>)
    BY <2>3, Associativity, Zenon
  <2>7. P(k) \in Seq(S)
    BY <1>3, <1>5
  <2>8. Append(P(k), "\n") = P(k) \o <<"\n">>
    BY <2>7, AppendIsConcat
  <2>9. QED
    BY <1>6, <2>1, <2>2, <2>5, <2>6, <2>8 DEF Associated
<1>9. ASSUME NEW k \in Nat, k \in T PROVE k + 1 \in T
  <2>1. SUFFICES ASSUME k + 1 <= n PROVE \E l \in Seq(N), x \in Seq(S) : Read(k + 1, l, x)
    <3> HIDE DEF Read
    <3>1. QED
      OBVIOUS
  <2>2. k <= n /\ k + 1 \in 1..n /\ (k + 1) - 1 = k /\ k \in 0..n
    BY <1>3, <2>1
  <2>3. PICK l \in Seq(N), x \in Seq(S) : Read(k, l, x)
    <3> HIDE DEF Read
    <3>1. QED
      BY <1>9, <2>2
  <2> DEFINE c == y[k + 1]
  <2>4. c \in N /\ P(k + 1) = Append(P(k), c)
    BY <1>3, <1>4, <2>2
  <2> HIDE DEF c
  <2>5. CASE c = "\n"
    <3> DEFINE z == x \o (l \o <<"\n">>)
               none == <<>>
    <3>1. Open(S, Append(P(k), "\n"), s(<<>>), s(z), <<>>) /\ z = Append(P(k), "\n") /\ z \in Seq(S)
      <4> HIDE DEF Read
      <4>1. QED
        BY <1>8, <2>2, <2>3
    <3>2. none \in Seq(N)
      OBVIOUS
    <3> HIDE DEF z
    <3>3. z \o none = z
      BY <3>1, ConcatEmptySeq
    <3>4. Read(k + 1, none, z)
      BY <2>4, <2>5, <3>1, <3>3
    <3> HIDE DEF Read, none
    <3>5. QED
      BY <3>1, <3>2, <3>4
  <2>6. CASE c # "\n"
    <3> DEFINE m == Append(l, c)
    <3>1. Open(S, P(k), s(<<>>), s(x), l) /\ x \o l = P(k) /\ c \in S
      BY <1>1, <2>3, <2>4
    <3>2. Open(S, Append(P(k), c), s(<<>>), s(x), m)
      BY <2>6, <3>1, OpenChar
    <3>3. m \in Seq(N) /\ l \in Seq(S) /\ P(k) \in Seq(S)
      BY <1>3, <1>5, <2>2, <2>4, AppendProperties
    <3>4. m = l \o <<c>> /\ Append(P(k), c) = P(k) \o <<c>> /\ <<c>> \in Seq(S)
      BY <3>1, <3>3, AppendIsConcat
    <3>5. Associated(x, l, <<c>>)
      BY <3>3, <3>4, Associativity, Zenon
    <3> HIDE DEF m
    <3>6. x \o m = Append(P(k), c)
      BY <3>1, <3>4, <3>5 DEF Associated
    <3>7. Read(k + 1, m, x)
      BY <2>4, <3>2, <3>6
    <3> HIDE DEF Read
    <3>8. QED
      BY <3>3, <3>7
  <2>7. QED
    BY <2>5, <2>6
<1>10. PICK l \in Seq(N), x \in Seq(S) : Read(n, l, x)
  <2> HIDE DEF Read
  <2>1. n \in T
    <3> HIDE DEF T
    <3>1. QED
      BY <1>3, <1>7, <1>9, Induction
  <2>2. n <= n
    BY <1>3
  <2>3. QED
    BY <2>1, <2>2
<1>11. Open(S, Append(y, "\n"), s(<<>>), s(Append(y, "\n")), <<>>)
  <2> HIDE DEF Read
  <2>1. n \in 0..n
    BY <1>3
  <2>2. Open(S, Append(P(n), "\n"), s(<<>>), s(Append(P(n), "\n")), <<>>)
    BY <1>8, <1>10, <2>1
  <2>3. QED
    BY <1>3, <2>2
<1>12. Ended(contents) = Append(y, "\n")
  BY <1>1, EndedIs DEF y
<1>13. QED
  BY <1>11, <1>12 DEF s

\* Where six parts of a text are in it.
SixParts(L, p1, p2, p3, p4, p5, p6, a, b, c, d) ==
  /\ a = Len(p1) + Len(p2) /\ b = a + Len(p3) /\ c = b + Len(p4) /\ d = c + Len(p5)
  /\ Len(L) = d + Len(p6)
  /\ \A i \in 1..Len(p1) : L[i] = p1[i]
  /\ \A i \in 1..Len(p2) : L[Len(p1) + i] = p2[i]
  /\ \A i \in 1..Len(p3) : L[a + i] = p3[i]
  /\ \A i \in 1..Len(p4) : L[b + i] = p4[i]
  /\ \A i \in 1..Len(p5) : L[c + i] = p5[i]
  /\ \A i \in 1..Len(p6) : L[d + i] = p6[i]

LEMMA SixPartsJoined ==
  ASSUME NEW S, NEW p1 \in Seq(S), NEW p2 \in Seq(S), NEW p3 \in Seq(S),
         NEW p4 \in Seq(S), NEW p5 \in Seq(S), NEW p6 \in Seq(S)
  PROVE  /\ p1 \o p2 \o p3 \o p4 \o p5 \o p6 \in Seq(S)
         /\ \E a, b, c, d \in Nat :
              SixParts(p1 \o p2 \o p3 \o p4 \o p5 \o p6, p1, p2, p3, p4, p5, p6, a, b, c, d)
<1> DEFINE n1 == Len(p1)
           n2 == Len(p2)
           n3 == Len(p3)
           n4 == Len(p4)
           n5 == Len(p5)
           n6 == Len(p6)
           q2 == p1 \o p2
           q3 == q2 \o p3
           q4 == q3 \o p4
           q5 == q4 \o p5
           q6 == q5 \o p6
           a == n1 + n2
           b == a + n3
           c == b + n4
           d == c + n5
<1>1. n1 \in Nat /\ n2 \in Nat /\ n3 \in Nat /\ n4 \in Nat /\ n5 \in Nat /\ n6 \in Nat
  BY LenProperties
<1>2. /\ q2 \in Seq(S) /\ Len(q2) = a
      /\ \A i \in 1..n1 : q2[i] = p1[i]
      /\ \A i \in 1..n2 : q2[n1 + i] = p2[i]
  BY Joined
<1>a. q2 \in Seq(S)
  BY <1>2
<1> HIDE DEF q2
<1>3. /\ q3 \in Seq(S) /\ Len(q3) = Len(q2) + n3
      /\ \A i \in 1..Len(q2) : q3[i] = q2[i]
      /\ \A i \in 1..n3 : q3[Len(q2) + i] = p3[i]
  BY <1>a, Joined
<1>b. q3 \in Seq(S)
  BY <1>3
<1> HIDE DEF q3
<1>4. /\ q4 \in Seq(S) /\ Len(q4) = Len(q3) + n4
      /\ \A i \in 1..Len(q3) : q4[i] = q3[i]
      /\ \A i \in 1..n4 : q4[Len(q3) + i] = p4[i]
  BY <1>b, Joined
<1>c. q4 \in Seq(S)
  BY <1>4
<1> HIDE DEF q4
<1>5. /\ q5 \in Seq(S) /\ Len(q5) = Len(q4) + n5
      /\ \A i \in 1..Len(q4) : q5[i] = q4[i]
      /\ \A i \in 1..n5 : q5[Len(q4) + i] = p5[i]
  BY <1>c, Joined
<1>d. q5 \in Seq(S)
  BY <1>5
<1> HIDE DEF q5
<1>6. /\ q6 \in Seq(S) /\ Len(q6) = Len(q5) + n6
      /\ \A i \in 1..Len(q5) : q6[i] = q5[i]
      /\ \A i \in 1..n6 : q6[Len(q5) + i] = p6[i]
  BY <1>d, Joined
<1> HIDE DEF q6, n1, n2, n3, n4, n5, n6
<1>7. PICK ka \in Nat, kb \in Nat, kc \in Nat, kd \in Nat :
        ka = a /\ kb = b /\ kc = c /\ kd = d
  BY <1>1
<1>8. ka = n1 + n2 /\ kb = ka + n3 /\ kc = kb + n4 /\ kd = kc + n5
  BY <1>7
<1>9. Len(q2) = ka /\ Len(q3) = kb /\ Len(q4) = kc /\ Len(q5) = kd /\ Len(q6) = kd + n6
  BY <1>2, <1>3, <1>4, <1>5, <1>6, <1>7
<1> HIDE DEF a, b, c, d
<1>10. n1 <= ka /\ ka <= kb /\ kb <= kc /\ kc <= kd
  BY <1>1, <1>8
<1>11. \A i \in 1..n6 : q6[kd + i] = p6[i]
  BY <1>6, <1>9
<1>12. \A i \in 1..kd : q6[i] = q5[i]
  BY <1>6, <1>9
<1>13. \A i \in 1..kc : q6[i] = q4[i]
  <2>1. \A i \in 1..kc : i \in 1..kd
    BY <1>10
  <2>2. QED
    BY <1>5, <1>9, <1>12, <2>1
<1>14. \A i \in 1..kb : q6[i] = q3[i]
  <2>1. \A i \in 1..kb : i \in 1..kc
    BY <1>10
  <2>2. QED
    BY <1>4, <1>9, <1>13, <2>1
<1>15. \A i \in 1..ka : q6[i] = q2[i]
  <2>1. \A i \in 1..ka : i \in 1..kb
    BY <1>10
  <2>2. QED
    BY <1>3, <1>9, <1>14, <2>1
<1>16. \A i \in 1..n5 : q6[kc + i] = p5[i]
  <2>1. \A i \in 1..n5 : kc + i \in 1..kd
    BY <1>1, <1>8
  <2>2. QED
    BY <1>5, <1>9, <1>12, <2>1
<1>17. \A i \in 1..n4 : q6[kb + i] = p4[i]
  <2>1. \A i \in 1..n4 : kb + i \in 1..kc
    BY <1>1, <1>8
  <2>2. QED
    BY <1>4, <1>9, <1>13, <2>1
<1>18. \A i \in 1..n3 : q6[ka + i] = p3[i]
  <2>1. \A i \in 1..n3 : ka + i \in 1..kb
    BY <1>1, <1>8
  <2>2. QED
    BY <1>3, <1>9, <1>14, <2>1
<1>19. \A i \in 1..n2 : q6[n1 + i] = p2[i]
  <2>1. \A i \in 1..n2 : n1 + i \in 1..ka
    BY <1>1, <1>8
  <2>2. QED
    BY <1>2, <1>9, <1>15, <2>1
<1>20. \A i \in 1..n1 : q6[i] = p1[i]
  <2>1. \A i \in 1..n1 : i \in 1..ka
    BY <1>1, <1>8
  <2>2. QED
    BY <1>2, <1>9, <1>15, <2>1
<1>21. SixParts(q6, p1, p2, p3, p4, p5, p6, ka, kb, kc, kd)
  BY <1>8, <1>9, <1>11, <1>16, <1>17, <1>18, <1>19, <1>20
     DEF SixParts, n1, n2, n3, n4, n5, n6
<1>22. q6 = p1 \o p2 \o p3 \o p4 \o p5 \o p6
  BY DEF q6, q5, q4, q3, q2
<1>23. QED
  BY <1>6, <1>21, <1>22

IsAt(text, part, i) ==
  /\ i \in 1..Len(text) - Len(part) + 1
  /\ \A j \in 1..Len(part) : text[i + j - 1] = part[j]
Occurs(text, part, i) == i \in Occurrences(text, part) <=> IsAt(text, part, i)

LEMMA OccurrenceIs ==
  ASSUME NEW S, NEW text \in Seq(S), NEW part \in Seq(S), part # <<>>, NEW i
  PROVE  Occurs(text, part, i)
<1> DEFINE n == Len(text)
           m == Len(part)
           sub == SubSeq(text, i, i + m - 1)
<1>1. n \in Nat /\ m \in Nat /\ m # 0
  BY LenProperties, EmptySeq
<1>2. i \in Occurrences(text, part) <=> i \in 1..n - m + 1 /\ sub = part
  BY DEF Occurrences
<1> HIDE DEF n, m
<1>3. ASSUME i \in 1..n - m + 1
      PROVE  sub \in Seq(S) /\ Len(sub) = m /\ \A j \in 1..m : sub[j] = text[i + j - 1]
  <2> DEFINE k == i + m - 1
  <2>1. i \in Int /\ k \in Int /\ i <= k /\ k - i + 1 = m
    BY <1>1, <1>3
  <2>2. \A p \in i..k : p \in 1..n
    BY <1>1, <1>3
  <2>3. \A p \in 1..n : text[p] \in S
    BY ElementOfSeq DEF n
  <2>4. \A p \in i..k : text[p] \in S
    BY <2>2, <2>3
  <2> HIDE DEF k
  <2>5. SubSeq(text, i, k) \in Seq(S) /\ Len(SubSeq(text, i, k)) = k - i + 1
        /\ \A j \in 1..k - i + 1 : SubSeq(text, i, k)[j] = text[i + j - 1]
    BY <2>1, <2>4, SubSeqProperties
  <2>6. QED
    BY <2>1, <2>5 DEF k
<1> HIDE DEF sub
<1>4. ASSUME i \in 1..n - m + 1
      PROVE  sub = part <=> \A j \in 1..m : text[i + j - 1] = part[j]
  <2>1. sub \in Seq(S) /\ Len(sub) = m /\ \A j \in 1..m : sub[j] = text[i + j - 1]
    BY <1>3, <1>4
  <2>2. ASSUME \A j \in 1..m : text[i + j - 1] = part[j] PROVE sub = part
    <3>1. \A j \in 1..Len(sub) : sub[j] = part[j]
      BY <2>1, <2>2
    <3>2. Len(sub) = Len(part)
      BY <2>1 DEF m
    <3>3. QED
      BY <2>1, <3>1, <3>2, SeqEqual
  <2>3. QED
    BY <2>1, <2>2
<1>5. QED
  BY <1>2, <1>4 DEF n, m, Occurs, IsAt

LEMMA FirstIs ==
  ASSUME NEW P, \A i \in P : i \in Nat, NEW p \in P, \A i \in P : p <= i
  PROVE  FirstOf(P) = p
<1> DEFINE Least(i) == i \in P /\ \A j \in P : i <= j
           c == CHOOSE i : Least(i)
<1>1. Least(p)
  OBVIOUS
<1>2. FirstOf(P) = c
  BY DEF FirstOf
<1>3. Least(c)
  BY <1>1, Zenon
<1>4. c <= p /\ p <= c /\ c \in Nat /\ p \in Nat
  BY <1>3
<1> HIDE DEF c
<1>5. c = p
  BY <1>4
<1>6. QED
  BY <1>2, <1>5

\* A word is found in a line first at p; behind it, from k on, v and a quote.
Quoted(line, word, p, k, v) ==
  /\ p \in Occurrences(line, word) /\ \A q \in Occurrences(line, word) : p <= q
  /\ k = p + Len(word) - 1 /\ k + Len(v) + 1 <= Len(line)
  /\ \A j \in 1..Len(v) : line[k + j] = v[j]
  /\ line[k + Len(v) + 1] = Quote

LEMMA AttributeIs ==
  ASSUME NEW S, Quote \in S, NEW line \in Seq(S), NEW word \in Seq(S), word # <<>>,
         NEW v \in Seq(S \ {Quote}), NEW p \in Nat, NEW k \in Nat, Quoted(line, word, p, k, v)
  PROVE  Attribute(line, word) = v
<1>0. /\ p \in Occurrences(line, word) /\ \A q \in Occurrences(line, word) : p <= q
      /\ k = p + Len(word) - 1 /\ k + Len(v) + 1 <= Len(line)
      /\ \A j \in 1..Len(v) : line[k + j] = v[j]
      /\ line[k + Len(v) + 1] = Quote
  BY DEF Quoted
<1> DEFINE n == Len(line)
           l == Len(v)
           rest == SubSeq(line, k + 1, n)
           quotes == Occurrences(rest, <<Quote>>)
<1>1. n \in Nat /\ l \in Nat /\ k + l + 1 <= n
  BY <1>0, LenProperties
<1>2. FirstOf(Occurrences(line, word)) = p
  <2>1. \A q \in Occurrences(line, word) : q \in Nat
    <3>1. ASSUME NEW q PROVE Occurs(line, word, q)
      BY OccurrenceIs, Zenon
    <3>2. QED
      BY <3>1 DEF Occurs, IsAt
  <2>2. QED
    BY <1>0, <2>1, FirstIs
<1>3. SubSeq(line, FirstOf(Occurrences(line, word)) + Len(word), n) = rest
  <2>1. p + Len(word) = k + 1
    BY <1>0, LenProperties
  <2>2. QED
    BY <1>2, <2>1
<1>4. /\ rest \in Seq(S) /\ Len(rest) = n - k
      /\ \A j \in 1..n - k : rest[j] = line[k + j]
  <2>1. k + 1 \in Int /\ n \in Int /\ k + 1 <= n /\ n - (k + 1) + 1 = n - k
    BY <1>1
  <2>2. \A q \in k + 1..n : q \in 1..n
    BY <1>1
  <2>3. \A q \in k + 1..n : line[q] \in S
    BY <2>2, ElementOfSeq
  <2> DEFINE b == k + 1
  <2>4. b \in Int /\ b <= n /\ n - b + 1 = n - k /\ \A q \in b..n : line[q] \in S
    BY <2>1, <2>3
  <2> HIDE DEF b, n
  <2>5. /\ SubSeq(line, b, n) \in Seq(S) /\ Len(SubSeq(line, b, n)) = n - b + 1
        /\ \A j \in 1..n - b + 1 : SubSeq(line, b, n)[j] = line[b + j - 1]
    BY <2>1, <2>4, SubSeqProperties
  <2>6. \A j \in 1..n - k : b + j - 1 = k + j
    BY <2>1 DEF b
  <2>7. QED
    BY <2>4, <2>5, <2>6 DEF b
<1> HIDE DEF rest, n, l
<1>5. l + 1 \in 1..n - k /\ \A j \in 1..l : j \in 1..n - k
  BY <1>1 DEF n, l
<1>6. rest[l + 1] = Quote /\ \A j \in 1..l : rest[j] = v[j] /\ v[j] # Quote
  <2>1. \A j \in 1..l : v[j] # Quote
    BY ElementOfSeq DEF l
  <2>2. k + (l + 1) = k + Len(v) + 1
    BY <1>1 DEF l
  <2>3. QED
    BY <1>0, <1>4, <1>5, <2>1, <2>2 DEF l
<1>7. \A q : q \in quotes <=> q \in 1..n - k /\ rest[q] = Quote
  <2> DEFINE part == <<Quote>>
  <2>1. part \in Seq(S) /\ Len(part) = 1 /\ part[1] = Quote /\ part # <<>>
    OBVIOUS
  <2> HIDE DEF part
  <2>2. ASSUME NEW q
        PROVE  q \in Occurrences(rest, part) <=> q \in 1..n - k /\ rest[q] = Quote
    <3>1. q \in Occurrences(rest, part) <=>
            /\ q \in 1..Len(rest) - Len(part) + 1
            /\ \A j \in 1..Len(part) : rest[q + j - 1] = part[j]
      <4>1. Occurs(rest, part, q)
        BY <1>4, <2>1, OccurrenceIs, Zenon
      <4>2. QED
        BY <4>1 DEF Occurs, IsAt
    <3>2. Len(rest) - Len(part) + 1 = n - k /\ 1..Len(part) = {1}
      BY <1>1, <1>4, <2>1
    <3>3. q \in 1..n - k => q + 1 - 1 = q
      OBVIOUS
    <3>4. QED
      BY <2>1, <3>1, <3>2, <3>3
  <2>3. QED
    BY <2>2 DEF part
<1>8. FirstOf(quotes) = l + 1
  <2>1. l + 1 \in quotes
    BY <1>5, <1>6, <1>7
  <2>2. ASSUME NEW q \in quotes PROVE q \in Nat /\ l + 1 <= q
    <3>1. q \in 1..n - k /\ rest[q] = Quote
      BY <1>7
    <3>2. ~(q \in 1..l)
      BY <1>6, <3>1
    <3>3. QED
      BY <1>1, <3>1, <3>2
  <2> HIDE DEF quotes
  <2>3. QED
    BY <2>1, <2>2, FirstIs
<1>9. SubSeq(rest, 1, (l + 1) - 1) = v
  <2>1. (l + 1) - 1 = l
    BY <1>1
  <2>2. \A q \in 1..l : rest[q] \in S
    BY <1>4, <1>5, ElementOfSeq
  <2>3. SubSeq(rest, 1, l) \in Seq(S) /\ Len(SubSeq(rest, 1, l)) = l
        /\ \A j \in 1..l : SubSeq(rest, 1, l)[j] = rest[j]
    <3>1. 1 \in Int /\ l \in Int /\ (1 <= l => l - 1 + 1 = l) /\ (~(1 <= l) => l = 0)
          /\ \A j \in 1..l : j \in 1..l - 1 + 1 /\ 1 + j - 1 = j
      BY <1>1
    <3>2. /\ SubSeq(rest, 1, l) \in Seq(S)
          /\ Len(SubSeq(rest, 1, l)) = IF 1 <= l THEN l - 1 + 1 ELSE 0
          /\ \A j \in 1..l - 1 + 1 : SubSeq(rest, 1, l)[j] = rest[1 + j - 1]
      BY <2>2, <3>1, SubSeqProperties
    <3>3. QED
      BY <3>1, <3>2
  <2>4. v \in Seq(S)
    <3>1. S \ {Quote} \subseteq S
      OBVIOUS
    <3>2. QED
      BY <3>1, SeqMonotonic
  <2>5. SubSeq(rest, 1, l) = v
    <3>1. Len(SubSeq(rest, 1, l)) = Len(v)
      BY <2>3 DEF l
    <3>2. \A j \in 1..Len(SubSeq(rest, 1, l)) : SubSeq(rest, 1, l)[j] = v[j]
      BY <1>6, <2>3
    <3>3. QED
      BY <2>3, <2>4, <3>1, <3>2, SeqEqual
  <2>6. QED
    BY <2>1, <2>5
<1>10. Occurrences(line, word) # {} /\ quotes # {}
  BY <1>0, <1>5, <1>6, <1>7
<1> HIDE DEF quotes
<1>11. Attribute(line, word) = SubSeq(rest, 1, FirstOf(quotes) - 1)
  BY <1>3, <1>10 DEF Attribute, n, quotes
<1>12. QED
  BY <1>8, <1>9, <1>11

-----------------------------------------------------------------------------
(* The line that names a part. *)

FileTail(filename) == IF filename = <<>> THEN <<>> ELSE FileWord \o filename \o <<Quote>>
Names(L, name, tail) ==
  /\ Len(L) = 5 + Len(name) + Len(tail)
  /\ L[1] = "form-data" /\ L[2] = "name=" /\ L[3] = Quote
  /\ \A j \in 1..Len(name) : L[3 + j] = name[j]
  /\ L[4 + Len(name)] = Quote
  /\ \A j \in 1..Len(tail) : L[4 + Len(name) + j] = tail[j]

LEMMA DispositionNames ==
  ASSUME NEW S, {"form-data", "name=", "file", Quote, "\r"} \subseteq S, NEW f,
         f.name \in Seq(S), f.filename \in Seq(S)
  PROVE  /\ Append(Disposition(f), "\r") \in Seq(S) /\ Disposition(f) \in Seq(S)
         /\ FileTail(f.filename) \in Seq(S)
         /\ Names(Append(Disposition(f), "\r"), f.name, FileTail(f.filename))
<1> DEFINE name == f.name
           tail == FileTail(f.filename)
           D == Disposition(f)
           p1 == <<"form-data">>
           p4 == <<Quote>>
           p6 == <<"\r">>
<1>1. /\ p1 \in Seq(S) /\ p4 \in Seq(S) /\ p6 \in Seq(S)
      /\ Len(p1) = 1 /\ p1[1] = "form-data" /\ Len(p4) = 1 /\ p4[1] = Quote /\ Len(p6) = 1
  OBVIOUS
<1>2. NameWord \in Seq(S) /\ Len(NameWord) = 2 /\ NameWord[1] = "name=" /\ NameWord[2] = Quote
  BY DEF NameWord
<1>3. FileWord \in Seq(S)
  BY DEF FileWord
<1>4. name \in Seq(S)
  OBVIOUS
<1>5. tail \in Seq(S)
  <2>1. <<>> \in Seq(S)
    OBVIOUS
  <2>2. FileWord \o f.filename \in Seq(S)
    BY <1>3, ConcatProperties
  <2>3. FileWord \o f.filename \o <<Quote>> \in Seq(S)
    BY <1>1, <2>2, ConcatProperties
  <2>4. QED
    BY <2>1, <2>3 DEF FileTail
<1>6. D = p1 \o NameWord \o name \o p4 \o tail
  BY DEF Disposition, FileTail
<1> HIDE DEF name, tail, p1, p4, p6
<1>7. p1 \o NameWord \in Seq(S)
  BY <1>1, <1>2, ConcatProperties
<1>8. p1 \o NameWord \o name \in Seq(S)
  BY <1>4, <1>7, ConcatProperties
<1>9. p1 \o NameWord \o name \o p4 \in Seq(S)
  BY <1>1, <1>8, ConcatProperties
<1>10. D \in Seq(S)
  <2>1. p1 \o NameWord \o name \o p4 \o tail \in Seq(S)
    BY <1>5, <1>9, ConcatProperties
  <2> HIDE DEF D
  <2>2. QED
    BY <1>6, <2>1
<1> DEFINE L == Append(D, "\r")
<1>11. L \in Seq(S) /\ L = D \o p6
  <2> HIDE DEF D
  <2>1. L = D \o <<"\r">> /\ L \in Seq(S)
    BY <1>10, AppendProperties, AppendIsConcat
  <2>2. QED
    BY <2>1 DEF p6
<1>12. L = p1 \o NameWord \o name \o p4 \o tail \o p6
  <2> HIDE DEF D, L
  <2>1. QED
    BY <1>6, <1>11
<1> HIDE DEF D, L
<1>13. \E a, b, c, d \in Nat :
         SixParts(p1 \o NameWord \o name \o p4 \o tail \o p6,
                  p1, NameWord, name, p4, tail, p6, a, b, c, d)
  BY <1>1, <1>2, <1>4, <1>5, SixPartsJoined
<1>14. PICK a \in Nat, b \in Nat, c \in Nat, d \in Nat :
         SixParts(L, p1, NameWord, name, p4, tail, p6, a, b, c, d)
  BY <1>12, <1>13
<1>15. /\ a = Len(p1) + Len(NameWord) /\ b = a + Len(name) /\ c = b + Len(p4) /\ d = c + Len(tail)
       /\ Len(L) = d + Len(p6)
       /\ \A i \in 1..Len(p1) : L[i] = p1[i]
       /\ \A i \in 1..Len(NameWord) : L[Len(p1) + i] = NameWord[i]
       /\ \A i \in 1..Len(name) : L[a + i] = name[i]
       /\ \A i \in 1..Len(p4) : L[b + i] = p4[i]
       /\ \A i \in 1..Len(tail) : L[c + i] = tail[i]
  BY <1>14 DEF SixParts
<1>16. Len(name) \in Nat /\ Len(tail) \in Nat
  BY <1>4, <1>5, LenProperties
<1>17. a = 3 /\ b = 3 + Len(name) /\ c = 4 + Len(name)
       /\ d = 4 + Len(name) + Len(tail) /\ Len(L) = 5 + Len(name) + Len(tail)
  BY <1>1, <1>2, <1>15, <1>16
<1>18. L[1] = "form-data"
  BY <1>1, <1>15
<1>19. L[2] = "name=" /\ L[3] = Quote
  <2>1. 1 \in 1..Len(NameWord) /\ 2 \in 1..Len(NameWord) /\ Len(p1) + 1 = 2 /\ Len(p1) + 2 = 3
    BY <1>1, <1>2
  <2>2. QED
    BY <1>2, <1>15, <2>1
<1>20. L[4 + Len(name)] = Quote
  <2>1. 1 \in 1..Len(p4) /\ b + 1 = 4 + Len(name)
    BY <1>1, <1>16, <1>17
  <2>2. QED
    BY <1>1, <1>15, <2>1
<1>21. Names(L, name, tail)
  BY <1>15, <1>17, <1>18, <1>19, <1>20 DEF Names
<1>22. QED
  BY <1>5, <1>10, <1>11, <1>21 DEF L, D, name, tail

IsJoined(x, a, b, S) ==
  /\ x \in Seq(S) /\ Len(x) = Len(a) + Len(b)
  /\ \A i \in 1..Len(a) : x[i] = a[i]
  /\ \A i \in 1..Len(b) : x[Len(a) + i] = b[i]
LEMMA JoinedIs ==
  ASSUME NEW S, NEW a \in Seq(S), NEW b \in Seq(S)
  PROVE  IsJoined(a \o b, a, b, S)
BY Joined DEF IsJoined

LEMMA FileTailIs ==
  ASSUME NEW S, {"name=", "file", Quote} \subseteq S, NEW v \in Seq(S), v # <<>>
  PROVE  /\ Len(FileTail(v)) = 4 + Len(v)
         /\ FileTail(v)[1] = "file" /\ FileTail(v)[2] = "name=" /\ FileTail(v)[3] = Quote
         /\ \A j \in 1..Len(v) : FileTail(v)[3 + j] = v[j]
         /\ FileTail(v)[4 + Len(v)] = Quote
<1> DEFINE q == FileWord \o v
           p == <<Quote>>
           r == q \o p
<1>1. FileWord \in Seq(S) /\ Len(FileWord) = 3
      /\ FileWord[1] = "file" /\ FileWord[2] = "name=" /\ FileWord[3] = Quote
  BY DEF FileWord
<1>2. p \in Seq(S) /\ Len(p) = 1 /\ p[1] = Quote
  OBVIOUS
<1>3. FileTail(v) = r
  BY DEF FileTail
<1> HIDE DEF p
<1>4. /\ q \in Seq(S) /\ Len(q) = 3 + Len(v)
      /\ \A i \in 1..3 : q[i] = FileWord[i]
      /\ \A i \in 1..Len(v) : q[3 + i] = v[i]
  <2>1. /\ q \in Seq(S) /\ Len(q) = Len(FileWord) + Len(v)
        /\ \A i \in 1..Len(FileWord) : q[i] = FileWord[i]
        /\ \A i \in 1..Len(v) : q[Len(FileWord) + i] = v[i]
    <3>1. IsJoined(q, FileWord, v, S)
      BY <1>1, JoinedIs, Zenon
    <3>2. QED
      BY <3>1 DEF IsJoined
  <2>2. QED
    BY <1>1, <2>1
<1> HIDE DEF q
<1>5. /\ r \in Seq(S) /\ Len(r) = Len(q) + 1
      /\ \A i \in 1..Len(q) : r[i] = q[i]
      /\ \A i \in 1..1 : r[Len(q) + i] = p[i]
  <2>1. q \in Seq(S)
    BY <1>4
  <2>2. /\ r \in Seq(S) /\ Len(r) = Len(q) + Len(p)
        /\ \A i \in 1..Len(q) : r[i] = q[i]
        /\ \A i \in 1..Len(p) : r[Len(q) + i] = p[i]
    <3>1. IsJoined(r, q, p, S)
      BY <1>2, <2>1, JoinedIs, Zenon
    <3>2. QED
      BY <3>1 DEF IsJoined
  <2>3. QED
    BY <1>2, <2>2
<1> HIDE DEF r
<1>6. Len(v) \in Nat
  BY LenProperties
<1>7. Len(r) = 4 + Len(v) /\ \A i \in 1..3 + Len(v) : r[i] = q[i]
  BY <1>4, <1>5, <1>6
<1>8. r[1] = "file" /\ r[2] = "name=" /\ r[3] = Quote
  BY <1>1, <1>4, <1>6, <1>7
<1>9. \A j \in 1..Len(v) : r[3 + j] = v[j]
  <2>1. \A j \in 1..Len(v) : 3 + j \in 1..3 + Len(v)
    BY <1>6
  <2>2. QED
    BY <1>4, <1>7, <2>1
<1>10. r[4 + Len(v)] = Quote
  <2>1. 1 \in 1..1 /\ Len(q) + 1 = 4 + Len(v)
    BY <1>4, <1>6
  <2>2. QED
    BY <1>2, <1>5, <2>1
<1>11. QED
  BY <1>3, <1>7, <1>8, <1>9, <1>10

LEMMA NameFound ==
  ASSUME NEW S, {"form-data", "name=", "file", Quote, "\r"} \subseteq S,
         NEW L \in Seq(S), NEW name \in Seq(S \ {Quote}), NEW tail \in Seq(S),
         Names(L, name, tail)
  PROVE  Attribute(L, NameWord) = name
<1>1. NameWord \in Seq(S) /\ Len(NameWord) = 2 /\ NameWord[1] = "name=" /\ NameWord[2] = Quote
      /\ NameWord # <<>>
  BY DEF NameWord
<1>2. Len(name) \in Nat /\ Len(tail) \in Nat
  BY LenProperties
<1>3. ASSUME NEW q
      PROVE  q \in Occurrences(L, NameWord) <=> IsAt(L, NameWord, q)
  <2>1. Occurs(L, NameWord, q)
    BY <1>1, OccurrenceIs, Zenon
  <2>2. QED
    BY <2>1 DEF Occurs
<1>4. 2 \in Occurrences(L, NameWord)
  <2>1. 2 \in 1..Len(L) - Len(NameWord) + 1
    BY <1>1, <1>2 DEF Names
  <2>2. \A j \in 1..Len(NameWord) : j = 1 \/ j = 2
    BY <1>1
  <2>3. 2 + 1 - 1 = 2 /\ 2 + 2 - 1 = 3
    OBVIOUS
  <2>4. \A j \in 1..Len(NameWord) : L[2 + j - 1] = NameWord[j]
    BY <1>1, <2>2, <2>3 DEF Names
  <2>5. QED
    BY <1>3, <2>1, <2>4 DEF IsAt
<1>5. ASSUME NEW q \in Occurrences(L, NameWord) PROVE 2 <= q
  <2>1. q \in Int /\ 1 <= q /\ \A j \in 1..2 : L[q + j - 1] = NameWord[j]
    BY <1>1, <1>2, <1>3 DEF IsAt, Names
  <2>2. L[q] = "name="
    <3>1. q + 1 - 1 = q /\ 1 \in 1..2
      BY <2>1
    <3>2. QED
      BY <1>1, <2>1, <3>1
  <2>3. q # 1
    BY <2>2 DEF Names
  <2>4. QED
    BY <2>1, <2>3
<1>6. /\ 3 = 2 + Len(NameWord) - 1 /\ 3 + Len(name) + 1 <= Len(L)
      /\ \A j \in 1..Len(name) : L[3 + j] = name[j]
      /\ L[3 + Len(name) + 1] = Quote
  <2>1. 3 + Len(name) + 1 = 4 + Len(name)
    BY <1>2
  <2>2. QED
    BY <1>1, <1>2, <2>1 DEF Names
<1> DEFINE p == 2
           k == 3
<1>7. Quoted(L, NameWord, p, k, name)
  BY <1>4, <1>5, <1>6 DEF Quoted
<1>8. Quote \in S /\ p \in Nat /\ k \in Nat
  OBVIOUS
<1> HIDE DEF p, k
<1>9. QED
  BY <1>1, <1>7, <1>8, AttributeIs

LEMMA FileWordIs ==
  ASSUME NEW S, {"form-data", "name=", "file", Quote, "\r"} \subseteq S, NEW L \in Seq(S)
  PROVE  /\ FileWord \in Seq(S) /\ Len(FileWord) = 3 /\ FileWord # <<>>
         /\ \A q : q \in Occurrences(L, FileWord) <=>
                     /\ q \in 1..Len(L) - 2
                     /\ L[q] = "file" /\ L[q + 1] = "name=" /\ L[q + 2] = Quote
<1>1. FileWord \in Seq(S) /\ Len(FileWord) = 3
      /\ FileWord[1] = "file" /\ FileWord[2] = "name=" /\ FileWord[3] = Quote
      /\ FileWord # <<>>
  BY DEF FileWord
<1>2. Len(L) \in Nat
  BY LenProperties
<1>3. ASSUME NEW q
      PROVE  q \in Occurrences(L, FileWord) <=>
               /\ q \in 1..Len(L) - 2
               /\ L[q] = "file" /\ L[q + 1] = "name=" /\ L[q + 2] = Quote
  <2>1. Occurs(L, FileWord, q)
    BY <1>1, OccurrenceIs, Zenon
  <2>2. Len(L) - Len(FileWord) + 1 = Len(L) - 2 /\ 1..Len(FileWord) = {1, 2, 3}
    BY <1>1, <1>2
  <2>3. q \in 1..Len(L) - 2 => q + 1 - 1 = q /\ q + 2 - 1 = q + 1 /\ q + 3 - 1 = q + 2
    OBVIOUS
  <2>4. q \in 1..Len(L) - 2 =>
          ((\A j \in {1, 2, 3} : L[q + j - 1] = FileWord[j])
           <=> L[q] = "file" /\ L[q + 1] = "name=" /\ L[q + 2] = Quote)
    BY <1>1, <2>3
  <2>5. QED
    BY <2>1, <2>2, <2>4 DEF Occurs, IsAt
<1>4. QED
  BY <1>1, <1>3

\* In front of the tail of the line there is no file word.
LEMMA NoFileWord ==
  ASSUME NEW S, {"form-data", "name=", "file", Quote, "\r"} \subseteq S,
         NEW L \in Seq(S), NEW name \in Seq(S \ {"name="}), NEW tail \in Seq(S),
         Names(L, name, tail), NEW q \in Occurrences(L, FileWord)
  PROVE  4 + Len(name) < q
<1>1. Len(name) \in Nat /\ Len(tail) \in Nat
  BY LenProperties
<1>2. q \in Int /\ 1 <= q /\ L[q] = "file" /\ L[q + 1] = "name="
  BY FileWordIs
<1>3. q # 1
  BY <1>2 DEF Names
<1>4. q # 2
  BY <1>2 DEF Names
<1>5. \A j \in 1..Len(name) : L[3 + j] # "name="
  <2>1. \A j \in 1..Len(name) : name[j] # "name="
    BY ElementOfSeq
  <2>2. QED
    BY <2>1 DEF Names
<1>6. q + 1 # 4 + Len(name)
  BY <1>2 DEF Names, Quote
<1>7. q # 4 + Len(name)
  BY <1>2 DEF Names, Quote
<1>8. ~(3 <= q /\ q <= 2 + Len(name))
  <2>1. SUFFICES ASSUME 3 <= q, q <= 2 + Len(name) PROVE FALSE
    OBVIOUS
  <2>2. q - 2 \in 1..Len(name) /\ 3 + (q - 2) = q + 1
    BY <1>1, <1>2, <2>1
  <2>3. QED
    BY <1>2, <1>5, <2>2
<1>9. QED
  BY <1>1, <1>2, <1>3, <1>4, <1>6, <1>7, <1>8

LEMMA NoFileFound ==
  ASSUME NEW S, {"form-data", "name=", "file", Quote, "\r"} \subseteq S,
         NEW L \in Seq(S), NEW name \in Seq(S \ {"name="}), Names(L, name, <<>>)
  PROVE  Attribute(L, FileWord) = <<>>
<1>1. Len(name) \in Nat /\ Len(L) = 5 + Len(name)
  BY LenProperties DEF Names
<1>2. ASSUME NEW q \in Occurrences(L, FileWord) PROVE FALSE
  <2> DEFINE tail == <<>>
  <2>1. tail \in Seq(S) /\ Names(L, name, tail)
    OBVIOUS
  <2> HIDE DEF tail
  <2>2. 4 + Len(name) < q
    BY <2>1, NoFileWord
  <2>3. q \in 1..Len(L) - 2
    BY FileWordIs
  <2>4. QED
    BY <1>1, <2>2, <2>3
<1>3. Occurrences(L, FileWord) = {}
  BY <1>2
<1>4. QED
  BY <1>3 DEF Attribute

LEMMA FileFound ==
  ASSUME NEW S, {"form-data", "name=", "file", Quote, "\r"} \subseteq S,
         NEW L \in Seq(S), NEW name \in Seq(S \ {"name="}), NEW v \in Seq(S \ {Quote}),
         v # <<>>, Names(L, name, FileTail(v))
  PROVE  Attribute(L, FileWord) = v
<1> DEFINE m == Len(name)
           n == Len(v)
           tail == FileTail(v)
           p == m + 5
           k == m + 7
<1>1. m \in Nat /\ n \in Nat
  BY LenProperties
<1>2. v \in Seq(S)
  <2>1. S \ {Quote} \subseteq S
    OBVIOUS
  <2>2. QED
    BY <2>1, SeqMonotonic
<1>3. /\ Len(tail) = 4 + n
      /\ tail[1] = "file" /\ tail[2] = "name=" /\ tail[3] = Quote
      /\ \A j \in 1..n : tail[3 + j] = v[j]
      /\ tail[4 + n] = Quote
  BY <1>2, FileTailIs
<1>4. tail \in Seq(S)
  <2>1. FileWord \in Seq(S) /\ <<Quote>> \in Seq(S)
    BY FileWordIs
  <2>2. FileWord \o v \in Seq(S)
    BY <1>2, <2>1, ConcatProperties
  <2>3. FileWord \o v \o <<Quote>> \in Seq(S)
    BY <2>1, <2>2, ConcatProperties
  <2>4. QED
    BY <2>3 DEF FileTail
<1>5. /\ Len(L) = 5 + m + Len(tail)
      /\ \A j \in 1..Len(tail) : L[4 + m + j] = tail[j]
  BY DEF Names
<1> HIDE DEF tail
<1>6. Len(L) = 9 + m + n /\ \A j \in 1..4 + n : L[4 + m + j] = tail[j]
  BY <1>1, <1>3, <1>5
<1>7. L[p] = "file" /\ L[p + 1] = "name=" /\ L[p + 2] = Quote
  <2>1. 4 + m + 1 = p /\ 4 + m + 2 = p + 1 /\ 4 + m + 3 = p + 2
        /\ 1 \in 1..4 + n /\ 2 \in 1..4 + n /\ 3 \in 1..4 + n
    BY <1>1
  <2>2. QED
    BY <1>3, <1>6, <2>1
<1>8. p \in Occurrences(L, FileWord)
  <2>1. p \in 1..Len(L) - 2
    BY <1>1, <1>6
  <2> HIDE DEF p
  <2>2. QED
    BY <1>7, <2>1, FileWordIs
<1>9. ASSUME NEW q \in Occurrences(L, FileWord) PROVE p <= q
  <2>1. Names(L, name, tail)
    BY DEF tail
  <2>2. 4 + m < q
    BY <1>4, <2>1, NoFileWord
  <2>3. q \in Int
    BY FileWordIs
  <2>4. QED
    BY <1>1, <2>2, <2>3
<1>10. \A j \in 1..n : L[k + j] = v[j]
  <2>1. \A j \in 1..n : 3 + j \in 1..4 + n /\ 4 + m + (3 + j) = k + j
    BY <1>1
  <2>2. QED
    BY <1>3, <1>6, <2>1
<1>11. L[k + n + 1] = Quote
  <2>1. 4 + n \in 1..4 + n /\ 4 + m + (4 + n) = k + n + 1
    BY <1>1
  <2>2. QED
    BY <1>3, <1>6, <2>1
<1>12. /\ FileWord \in Seq(S) /\ Len(FileWord) = 3 /\ FileWord # <<>>
  BY FileWordIs
<1>13. k = p + Len(FileWord) - 1 /\ k + n + 1 <= Len(L) /\ p \in Nat /\ k \in Nat
  BY <1>1, <1>6, <1>12
<1>14. Quoted(L, FileWord, p, k, v)
  BY <1>8, <1>9, <1>10, <1>11, <1>13 DEF Quoted
<1>15. Quote \in S
  OBVIOUS
<1> HIDE DEF p, k
<1>16. QED
  BY <1>12, <1>13, <1>14, <1>15, AttributeIs

LEMMA WithoutLast ==
  ASSUME NEW S, NEW w \in Seq(S), NEW c \in S
  PROVE  Front(Append(w, c)) = w /\ Last(Append(w, c)) = c /\ Append(w, c) # <<>>
<1> DEFINE y == Append(w, c)
           n == Len(w)
<1>1. y \in Seq(S) /\ Len(y) = n + 1 /\ y[n + 1] = c /\ \A i \in 1..n : y[i] = w[i]
  BY AppendProperties
<1>2. n \in Nat /\ w \in Seq(S)
  BY LenProperties
<1> HIDE DEF y
<1>3. y # <<>> /\ (n + 1) - 1 = n
  BY <1>1, <1>2
<1>4. Last(y) = c
  BY <1>1 DEF Last
<1>5. Front(y) = SubSeq(y, 1, n)
  BY <1>1, <1>3 DEF Front
<1>6. SubSeq(y, 1, n) = w
  <2>1. \A q \in 1..n : y[q] \in S
    BY <1>1, <1>2, ElementOfSeq
  <2> HIDE DEF n
  <2>2. 1 \in Int /\ n \in Int /\ (1 <= n => n - 1 + 1 = n) /\ (~(1 <= n) => n = 0)
        /\ \A j \in 1..n : j \in 1..n - 1 + 1 /\ 1 + j - 1 = j
    BY <1>2
  <2>3. /\ SubSeq(y, 1, n) \in Seq(S)
        /\ Len(SubSeq(y, 1, n)) = IF 1 <= n THEN n - 1 + 1 ELSE 0
        /\ \A j \in 1..n - 1 + 1 : SubSeq(y, 1, n)[j] = y[1 + j - 1]
    BY <2>1, <2>2, SubSeqProperties
  <2>4. Len(SubSeq(y, 1, n)) = Len(w)
    BY <2>2, <2>3 DEF n
  <2>5. \A j \in 1..Len(SubSeq(y, 1, n)) : SubSeq(y, 1, n)[j] = w[j]
    BY <1>1, <2>2, <2>3, <2>4 DEF n
  <2>6. QED
    BY <1>2, <2>3, <2>4, <2>5, SeqEqual
<1>7. QED
  BY <1>3, <1>4, <1>5, <1>6 DEF y

\* A part that is read, in front of the boundary that ends it.
Emits(u, fields) == u.next = "data" /\ Emit(u) = InPart(fields, <<>>, <<>>, <<>>, "data")

LEMMA BoundaryLine ==
  ASSUME NEW u, NEW fields, Emits(u, fields)
  PROVE  ReadLine(u, Append(<<Boundary>>, "\r")) = InPart(fields, <<>>, <<>>, <<>>, "disposition")
<1> DEFINE w == <<Boundary>>
           l == Append(w, "\r")
           S == {Boundary, "\r"}
<1>1. l # <<>> /\ l[1] = Boundary
  OBVIOUS
<1>2. Front(l) = w
  <2>1. w \in Seq(S) /\ "\r" \in S
    OBVIOUS
  <2> HIDE DEF w, S
  <2>2. QED
    BY <2>1, WithoutLast
<1>3. Stripped(l) = w
  <2> HIDE DEF l, w
  <2>1. QED
    BY <1>1, <1>2 DEF Stripped
<1>4. ReadLine(u, l) = [Emit(u) EXCEPT !.next = "disposition"]
  <2> HIDE DEF l
  <2>1. u.next = "data"
    BY DEF Emits
  <2>2. QED
    BY <1>3, <2>1 DEF ReadLine
<1>5. [InPart(fields, <<>>, <<>>, <<>>, "data") EXCEPT !.next = "disposition"]
      = InPart(fields, <<>>, <<>>, <<>>, "disposition")
  BY DEF InPart
<1> HIDE DEF l
<1>6. ReadLine(u, l) = InPart(fields, <<>>, <<>>, <<>>, "disposition")
  BY <1>4, <1>5 DEF Emits
<1>7. QED
  BY <1>6 DEF l

LEMMA LastBoundary ==
  ASSUME NEW u, NEW fields, Emits(u, fields)
  PROVE  ReadLine(u, Append(<<Boundary, "-", "-">>, "\r")) = InPart(fields, <<>>, <<>>, <<>>, "data")
<1> DEFINE w == <<Boundary, "-", "-">>
           l == Append(w, "\r")
           S == {Boundary, "-", "\r"}
<1>1. l # <<>> /\ l[1] = Boundary
  OBVIOUS
<1>2. Front(l) = w
  <2>1. w \in Seq(S) /\ "\r" \in S
    OBVIOUS
  <2> HIDE DEF w, S
  <2>2. QED
    BY <2>1, WithoutLast
<1>3. Stripped(l) = w
  <2> HIDE DEF l, w
  <2>1. QED
    BY <1>1, <1>2 DEF Stripped
<1>4. w # <<Boundary>>
  <2>1. Len(w) = 3 /\ Len(<<Boundary>>) = 1
    OBVIOUS
  <2> HIDE DEF w
  <2>2. QED
    BY <2>1
<1>5. ReadLine(u, l) = Emit(u)
  <2> HIDE DEF l
  <2>1. u.next = "data"
    BY DEF Emits
  <2>2. QED
    BY <1>3, <1>4, <2>1 DEF ReadLine
<1> HIDE DEF l
<1>6. ReadLine(u, l) = InPart(fields, <<>>, <<>>, <<>>, "data")
  BY <1>5 DEF Emits
<1>7. QED
  BY <1>6 DEF l

NamesPart(f) == IF f.filename = <<>> THEN "blank" ELSE "type"

LEMMA DispositionLine ==
  ASSUME NEW S, {"form-data", "name=", "file", Quote, "\r"} \subseteq S, NEW f,
         f.name \in Seq(S \ {Quote, "name="}), f.filename \in Seq(S \ {Quote}), NEW fields
  PROVE  ReadLine(InPart(fields, <<>>, <<>>, <<>>, "disposition"), Append(Disposition(f), "\r"))
         = InPart(fields, f.name, f.filename, <<>>, NamesPart(f))
<1> DEFINE L == Append(Disposition(f), "\r")
           name == f.name
           v == f.filename
<1>1. name \in Seq(S) /\ v \in Seq(S) /\ name \in Seq(S \ {Quote}) /\ name \in Seq(S \ {"name="})
  <2>1. S \ {Quote} \subseteq S /\ S \ {Quote, "name="} \subseteq S
        /\ S \ {Quote, "name="} \subseteq S \ {Quote} /\ S \ {Quote, "name="} \subseteq S \ {"name="}
    OBVIOUS
  <2>2. f.name \in Seq(S \ {Quote, "name="})
    OBVIOUS
  <2>3. f.filename \in Seq(S \ {Quote})
    OBVIOUS
  <2> DEFINE N == S \ {Quote, "name="}
             Q == S \ {Quote}
             R == S \ {"name="}
  <2>4. N \subseteq S /\ Q \subseteq S /\ N \subseteq Q /\ N \subseteq R /\ name \in Seq(N) /\ v \in Seq(Q)
    BY <2>1, <2>2, <2>3
  <2> HIDE DEF N, Q, R, name, v
  <2>5. name \in Seq(S) /\ v \in Seq(S)
    BY <2>4, SeqMonotonic
  <2>6. name \in Seq(Q) /\ name \in Seq(R)
    BY <2>4, SeqMonotonic
  <2>7. QED
    BY <2>5, <2>6 DEF Q, R
<1>2. L \in Seq(S) /\ FileTail(v) \in Seq(S) /\ Names(L, name, FileTail(v))
  BY <1>1, DispositionNames
<1>3. v \in Seq(S \ {Quote})
  OBVIOUS
<1> HIDE DEF L, name, v
<1>4. Attribute(L, NameWord) = name
  BY <1>1, <1>2, NameFound
<1>5. Attribute(L, FileWord) = v
  <2>1. CASE v = <<>>
    <3>1. Names(L, name, <<>>)
      BY <1>2, <2>1 DEF FileTail
    <3>2. QED
      BY <1>1, <1>2, <2>1, <3>1, NoFileFound
  <2>2. CASE v # <<>>
    BY <1>1, <1>2, <1>3, <2>2, FileFound
  <2>3. QED
    BY <2>1, <2>2
<1> DEFINE s == InPart(fields, <<>>, <<>>, <<>>, "disposition")
<1>6. s.next = "disposition"
  BY DEF InPart
<1> DEFINE t == IF v = <<>> THEN "blank" ELSE "type"
<1>7. ReadLine(s, L) = [s EXCEPT !.part.name = name, !.part.filename = v, !.next = t]
  <2> HIDE DEF s
  <2>1. QED
    BY <1>4, <1>5, <1>6 DEF ReadLine
<1>8. \A x : [s EXCEPT !.part.name = name, !.part.filename = v, !.next = x]
            = InPart(fields, name, v, <<>>, x)
  <2>1. [s EXCEPT !.part.name = name] = InPart(fields, name, <<>>, <<>>, "disposition")
    BY DEF InPart
  <2>2. [InPart(fields, name, <<>>, <<>>, "disposition") EXCEPT !.part.filename = v]
        = InPart(fields, name, v, <<>>, "disposition")
    BY DEF InPart
  <2>3. \A x : [InPart(fields, name, v, <<>>, "disposition") EXCEPT !.next = x]
              = InPart(fields, name, v, <<>>, x)
    BY DEF InPart
  <2> HIDE DEF s
  <2>4. \A x : [s EXCEPT !.part.name = name, !.part.filename = v, !.next = x]
              = [[[s EXCEPT !.part.name = name] EXCEPT !.part.filename = v] EXCEPT !.next = x]
    OBVIOUS
  <2>5. QED
    BY <2>1, <2>2, <2>3, <2>4
<1> HIDE DEF t, s
<1>9. ReadLine(s, L) = InPart(fields, name, v, <<>>, t)
  BY <1>7, <1>8
<1>10. QED
  BY <1>9 DEF NamesPart, L, name, v, t, s

LEMMA OtherLines ==
  ASSUME NEW fields, NEW name, NEW filename, NEW data, NEW l
  PROVE  /\ ReadLine(InPart(fields, name, filename, data, "type"), l)
            = InPart(fields, name, filename, data, "blank")
         /\ ReadLine(InPart(fields, name, filename, data, "blank"), l)
            = InPart(fields, name, filename, data, "data")
BY DEF ReadLine, InPart

LEMMA TextLine ==
  ASSUME NEW S, "\r" \in S, Boundary \notin S, NEW w \in Seq(S), NEW fields, NEW name
  PROVE  ReadLine(InPart(fields, name, <<>>, <<>>, "data"), Append(w, "\r"))
         = InPart(fields, name, <<>>, w, "data")
<1> DEFINE l == Append(w, "\r")
           s == InPart(fields, name, <<>>, <<>>, "data")
<1>1. l \in Seq(S) /\ Front(l) = w /\ Last(l) = "\r" /\ l # <<>>
  BY WithoutLast, AppendProperties
<1> HIDE DEF l
<1>2. Stripped(l) = l /\ l # <<Boundary>> /\ l # <<Boundary, "-", "-">>
  BY <1>1, NoBoundary
<1>3. s.next = "data" /\ s.part.filename = <<>> /\ s.part.data = <<>>
  BY DEF InPart
<1>4. \A d : [s EXCEPT !.part.data = d] = InPart(fields, name, <<>>, d, "data")
  BY DEF InPart
<1> HIDE DEF s
<1>5. Data(s, l) = w
  BY <1>1, <1>3 DEF Data
<1>6. ReadLine(s, l) = [s EXCEPT !.part.data = @ \o Data(s, l)]
  BY <1>2, <1>3 DEF ReadLine
<1>7. [s EXCEPT !.part.data = @ \o Data(s, l)] = [s EXCEPT !.part.data = s.part.data \o Data(s, l)]
  OBVIOUS
<1>8. <<>> \o w = w
  BY ConcatEmptySeq
<1>9. ReadLine(s, l) = InPart(fields, name, <<>>, w, "data")
  BY <1>3, <1>4, <1>5, <1>6, <1>7, <1>8
<1>10. QED
  BY <1>9 DEF s, l

\* What can be sent as a part: a name that is none of the marks around it, and
\* data in which the boundary is not; that of a text is one line.
CanBeSent(S, f) ==
  /\ f = [name |-> f.name, filename |-> f.filename, data |-> f.data]
  /\ f.name # <<>> /\ f.name \in Seq(S \ {Quote, "name=", "\n"})
  /\ f.filename \in Seq(S \ {Quote, "\n"})
  /\ f.data \in Seq(S \ {Boundary})
  /\ f.filename = <<>> => f.data \in Seq(S \ {Boundary, "\n"})
Tokens(S) ==
  {"form-data", "name=", "file", Quote, "\r", "\n", Boundary, "-", "Content-Type: "} \subseteq S

LEMMA PartEmitted ==
  ASSUME NEW S, {"\r", "\n"} \subseteq S, NEW fields, NEW f, CanBeSent(S, f)
  PROVE  Emits(InPart(fields, f.name, f.filename,
                      IF f.filename = <<>> THEN f.data ELSE Ended(f.data), "data"),
               Append(fields, f))
<1> DEFINE data == IF f.filename = <<>> THEN f.data ELSE Ended(f.data)
           u == InPart(fields, f.name, f.filename, data, "data")
           part == [name |-> f.name, filename |-> f.filename, data |-> data]
<1>1. u.next = "data" /\ u.part = part /\ u.fields = fields /\ u.part.name # <<>>
  BY DEF InPart, CanBeSent
<1>2. Trimmed(part) = f
  <2>0. f = [name |-> f.name, filename |-> f.filename, data |-> f.data]
    BY DEF CanBeSent
  <2>1. CASE f.filename = <<>>
    <3>1. data = f.data /\ part.filename = <<>>
      BY <2>1
    <3>2. Trimmed(part) = part
      BY <3>1 DEF Trimmed
    <3>3. QED
      BY <2>0, <3>1, <3>2
  <2>2. CASE f.filename # <<>>
    <3> DEFINE y == Append(f.data, "\r")
               z == Append(y, "\n")
               N == S \ {Boundary}
    <3>1. f.data \in Seq(N) /\ "\r" \in N /\ "\n" \in N
      BY DEF CanBeSent, Boundary
    <3> HIDE DEF N
    <3>2. y \in Seq(N) /\ Front(y) = f.data
      BY <3>1, WithoutLast, AppendProperties
    <3> HIDE DEF y
    <3>3. Front(z) = y /\ z # <<>>
      BY <3>1, <3>2, WithoutLast
    <3>4. data = z
      BY <2>2, <3>1, EndedIs DEF y
    <3> HIDE DEF z, data
    <3>5. part.filename # <<>> /\ part.data # <<>> /\ part.data = data
      BY <2>2, <3>3, <3>4
    <3>6. Trimmed(part) = [part EXCEPT !.data = Front(Front(@))]
      BY <3>5 DEF Trimmed
    <3>7. \A d : [part EXCEPT !.data = d] = [name |-> f.name, filename |-> f.filename, data |-> d]
      OBVIOUS
    <3> HIDE DEF part
    <3>8. [part EXCEPT !.data = Front(Front(@))] = [part EXCEPT !.data = Front(Front(part.data))]
      OBVIOUS
    <3>9. Front(Front(part.data)) = f.data
      BY <3>2, <3>3, <3>4, <3>5
    <3>10. QED
      BY <2>0, <3>6, <3>7, <3>8, <3>9
  <2>3. QED
    BY <2>1, <2>2
<1>3. \A x, y : [u EXCEPT !.fields = x, !.part = y] = [fields |-> x, part |-> y, next |-> "data"]
  <2>1. \A x : [u EXCEPT !.fields = x] = [fields |-> x, part |-> part, next |-> "data"]
    BY DEF InPart
  <2> HIDE DEF part
  <2>2. \A x, y : [[fields |-> x, part |-> part, next |-> "data"] EXCEPT !.part = y]
                 = [fields |-> x, part |-> y, next |-> "data"]
    OBVIOUS
  <2> HIDE DEF u
  <2>3. \A x, y : [u EXCEPT !.fields = x, !.part = y] = [[u EXCEPT !.fields = x] EXCEPT !.part = y]
    OBVIOUS
  <2>4. QED
    BY <2>1, <2>2, <2>3
<1> HIDE DEF part, u
<1>4. Emit(u) = [u EXCEPT !.fields = Append(u.fields, f), !.part = NoPart]
  <2>1. Emit(u) = [u EXCEPT !.fields = Append(@, Trimmed(u.part)), !.part = NoPart]
    BY <1>1 DEF Emit
  <2>2. [u EXCEPT !.fields = Append(@, Trimmed(u.part)), !.part = NoPart]
        = [u EXCEPT !.fields = Append(u.fields, Trimmed(u.part)), !.part = NoPart]
    OBVIOUS
  <2>3. QED
    BY <1>1, <1>2, <2>1, <2>2
<1>5. Emit(u) = InPart(Append(fields, f), <<>>, <<>>, <<>>, "data")
  BY <1>1, <1>3, <1>4 DEF InPart, NoPart
<1>6. Emits(u, Append(fields, f))
  BY <1>1, <1>5 DEF Emits
<1>7. QED
  BY <1>6 DEF u

LEMMA PartRead ==
  ASSUME NEW S, Tokens(S), NEW f, CanBeSent(S, f), NEW u, NEW fields, Emits(u, fields)
  PROVE  \E w : Open(S, Part(f), u, w, <<>>) /\ Emits(w, Append(fields, f))
<1> DEFINE N == S \ {"\n"}
           name == f.name
           filename == f.filename
           In(data, next) == InPart(fields, name, filename, data, next)
<1>1. "\r" \in S /\ "\n" \in S /\ Boundary \in N /\ Quote \in N
      /\ {"form-data", "name=", "file", Quote, "\r"} \subseteq N /\ "Content-Type: " \in N
  BY DEF Tokens, Boundary, Quote
<1>a. ASSUME NEW x \in N PROVE <<x>> \in Seq(N)
  <2> HIDE DEF N
  <2>1. QED
    OBVIOUS
<1> DEFINE a == Ended(<<Boundary>>)
           b == Ended(Disposition(f))
           c == ContentType(f)
           d == Ended(<<>>)
           e == Ended(f.data)
<1>2. Open(S, a, u, InPart(fields, <<>>, <<>>, <<>>, "disposition"), <<>>)
  <2> DEFINE w == <<Boundary>>
  <2>1. w \in Seq(N)
    BY <1>1, <1>a
  <2>2. ReadLine(u, Append(w, "\r")) = InPart(fields, <<>>, <<>>, <<>>, "disposition")
    BY BoundaryLine
  <2> HIDE DEF w
  <2>3. Open(S, Ended(w), u, ReadLine(u, Append(w, "\r")), <<>>)
    BY <1>1, <2>1, OpenEnded
  <2>4. QED
    BY <2>2, <2>3 DEF w
<1>3. name \in Seq(N \ {Quote, "name="}) /\ filename \in Seq(N \ {Quote})
  <2>1. S \ {Quote, "name=", "\n"} = N \ {Quote, "name="} /\ S \ {Quote, "\n"} = N \ {Quote}
    OBVIOUS
  <2>2. QED
    BY <2>1 DEF CanBeSent
<1>4. Open(S, b, InPart(fields, <<>>, <<>>, <<>>, "disposition"), In(<<>>, NamesPart(f)), <<>>)
  <2> DEFINE w == Disposition(f)
             s == InPart(fields, <<>>, <<>>, <<>>, "disposition")
  <2>1. w \in Seq(N)
    <3>1. N \ {Quote, "name="} \subseteq N /\ N \ {Quote} \subseteq N
      OBVIOUS
    <3> DEFINE Q == N \ {Quote, "name="}
               R == N \ {Quote}
    <3>2. name \in Seq(Q) /\ filename \in Seq(R) /\ Q \subseteq N /\ R \subseteq N
      BY <1>3, <3>1
    <3> HIDE DEF N, Q, R, name, filename
    <3>3. name \in Seq(N) /\ filename \in Seq(N)
      BY <3>2, SeqMonotonic
    <3>4. f.name \in Seq(N) /\ f.filename \in Seq(N)
      BY <3>3 DEF name, filename
    <3>5. QED
      BY <1>1, <3>4, DispositionNames
  <2>2. ReadLine(s, Append(w, "\r")) = In(<<>>, NamesPart(f))
    <3> HIDE DEF N
    <3>1. f.name \in Seq(N \ {Quote, "name="}) /\ f.filename \in Seq(N \ {Quote})
      BY <1>3
    <3>2. QED
      BY <1>1, <3>1, DispositionLine
  <2> HIDE DEF w, s
  <2>3. Open(S, Ended(w), s, ReadLine(s, Append(w, "\r")), <<>>)
    BY <1>1, <2>1, OpenEnded
  <2>4. QED
    BY <2>2, <2>3 DEF w, s
<1>5. Open(S, c, In(<<>>, NamesPart(f)), In(<<>>, "blank"), <<>>)
  <2>1. CASE filename = <<>>
    <3>1. c = <<>> /\ NamesPart(f) = "blank"
      BY <2>1 DEF ContentType, NamesPart
    <3>2. Open(S, <<>>, In(<<>>, "blank"), In(<<>>, "blank"), <<>>)
      BY OpenNothing, Zenon
    <3>3. QED
      BY <3>1, <3>2
  <2>2. CASE filename # <<>>
    <3> DEFINE w == <<"Content-Type: ">>
               s == In(<<>>, "type")
    <3>1. c = Ended(w) /\ NamesPart(f) = "type"
      BY <2>2 DEF ContentType, NamesPart
    <3>2. w \in Seq(N)
      BY <1>1, <1>a
    <3>3. ReadLine(s, Append(w, "\r")) = In(<<>>, "blank")
      BY OtherLines
    <3> HIDE DEF w, s
    <3>4. Open(S, Ended(w), s, ReadLine(s, Append(w, "\r")), <<>>)
      BY <1>1, <3>2, OpenEnded
    <3>5. QED
      BY <3>1, <3>3, <3>4 DEF s
  <2>3. QED
    BY <2>1, <2>2
<1>6. Open(S, d, In(<<>>, "blank"), In(<<>>, "data"), <<>>)
  <2> DEFINE w == <<>>
             s == In(<<>>, "blank")
  <2>1. w \in Seq(N)
    OBVIOUS
  <2>2. ReadLine(s, Append(w, "\r")) = In(<<>>, "data")
    BY OtherLines
  <2> HIDE DEF w, s
  <2>3. Open(S, Ended(w), s, ReadLine(s, Append(w, "\r")), <<>>)
    BY <1>1, <2>1, OpenEnded
  <2>4. QED
    BY <2>2, <2>3 DEF w, s
<1> DEFINE data == IF filename = <<>> THEN f.data ELSE Ended(f.data)
<1>7. Open(S, e, In(<<>>, "data"), In(data, "data"), <<>>)
  <2>1. CASE filename = <<>>
    <3> DEFINE w == f.data
               s == In(<<>>, "data")
               M == S \ {Boundary, "\n"}
               O == S \ {Boundary}
    <3>1. w \in Seq(M) /\ M \subseteq N /\ M \subseteq O /\ Boundary \notin O /\ "\r" \in O
      BY <1>1, <2>1 DEF CanBeSent, Boundary
    <3> HIDE DEF w, M, N
    <3>2. w \in Seq(N)
      BY <3>1, SeqMonotonic
    <3>3. w \in Seq(O)
      <4> HIDE DEF O
      <4>1. QED
        BY <3>1, SeqMonotonic
    <3>4. ReadLine(InPart(fields, name, <<>>, <<>>, "data"), Append(w, "\r"))
          = InPart(fields, name, <<>>, w, "data")
      <4> HIDE DEF O
      <4>1. QED
        BY <3>1, <3>3, TextLine
    <3>5. ReadLine(s, Append(w, "\r")) = In(data, "data")
      BY <2>1, <3>4 DEF w
    <3> HIDE DEF s
    <3>6. w \in Seq(S \ {"\n"})
      BY <3>2 DEF N
    <3>7. Open(S, Ended(w), s, ReadLine(s, Append(w, "\r")), <<>>)
      BY <1>1, <3>6, OpenEnded
    <3>8. QED
      BY <3>5, <3>7 DEF w, s
  <2>2. CASE filename # <<>>
    <3>1. f.data \in Seq(S \ {Boundary})
      BY DEF CanBeSent
    <3>2. data = Ended(f.data)
      BY <2>2
    <3> HIDE DEF data, name, filename
    <3>3. Open(S, Ended(f.data), InPart(fields, name, filename, <<>>, "data"),
               InPart(fields, name, filename, Ended(f.data), "data"), <<>>)
      BY <1>1, <2>2, <3>1, OpenFile
    <3>4. QED
      BY <3>2, <3>3
  <2>3. QED
    BY <2>1, <2>2
<1>8. Emits(In(data, "data"), Append(fields, f))
  BY <1>1, PartEmitted
<1> HIDE DEF a, b, c, d, e, In
<1>9. Open(S, a \o b, u, In(<<>>, NamesPart(f)), <<>>)
  BY <1>2, <1>4, OpenThrough
<1>10. Open(S, a \o b \o c, u, In(<<>>, "blank"), <<>>)
  BY <1>5, <1>9, OpenThrough
<1>11. Open(S, a \o b \o c \o d, u, In(<<>>, "data"), <<>>)
  BY <1>6, <1>10, OpenThrough
<1>12. Open(S, a \o b \o c \o d \o e, u, In(data, "data"), <<>>)
  BY <1>7, <1>11, OpenThrough
<1>13. Part(f) = a \o b \o c \o d \o e
  BY DEF Part, a, b, c, d, e
<1>14. QED
  BY <1>8, <1>12, <1>13

\* A multipart body gives back the form it was written from: the parts in their
\* order, names and values, and the bytes of every file, whatever line ends and
\* dashes are in them, as long as the boundary is not (parse_multipart and
\* get_part_field, httputils.cpp:469-554).
THEOREM MultipartRead ==
  ASSUME NEW S, Tokens(S), NEW F, \A f \in F : CanBeSent(S, f), NEW form \in Seq(F)
  PROVE  ParseMultipart(MultipartBody(form)) = form
<1> DEFINE n == Len(form)
           P(k) == SubSeq(form, 1, k)
           s == [i \in DOMAIN form |-> Part(form[i])]
<1>1. /\ n \in Nat /\ P(0) = <<>> /\ P(n) = form
      /\ \A i \in 1..n : P(i) = Append(P(i - 1), form[i])
  BY PrefixGrows
<1>2. \A i \in 1..n : form[i] \in F
  BY ElementOfSeq
<1>3. Emits(NoParts, <<>>)
  <2>1. NoParts = InPart(<<>>, <<>>, <<>>, <<>>, "data") /\ NoParts.part.name = <<>>
        /\ NoParts.next = "data"
    BY DEF NoParts, NoPart, InPart
  <2>2. QED
    BY <2>1 DEF Emits, Emit
<1>4. ASSUME NEW f \in F PROVE Part(f) \in Seq(S)
  <2>1. \E w : Open(S, Part(f), NoParts, w, <<>>) /\ Emits(w, Append(<<>>, f))
    BY <1>3, PartRead
  <2>2. QED
    BY <2>1 DEF Open
<1>5. s \in Seq(Seq(S)) /\ Len(s) = n /\ \A i \in 1..n : s[i] = Part(form[i])
  <2>1. DOMAIN form = 1..n
    OBVIOUS
  <2>2. s \in [1..n -> Seq(S)]
    BY <1>2, <1>4, <2>1
  <2>3. \A i \in 1..n : s[i] = Part(form[i])
    BY <2>1
  <2> HIDE DEF s, n
  <2>4. s \in Seq(Seq(S)) /\ Len(s) = n
    BY <1>1, <2>2
  <2>5. QED
    BY <2>3, <2>4
<1> HIDE DEF s, n, P
<1>6. PICK g \in [0..n -> Seq(S)] :
        /\ g[0] = <<>> /\ \A i \in 1..n : g[i] = g[i - 1] \o s[i]
        /\ FlattenSeq(s) = g[n]
  BY <1>5, FlattenFcn
<1> DEFINE Read(k) == \E w : Open(S, g[k], NoParts, w, <<>>) /\ Emits(w, P(k))
           T == {k \in Nat : k <= n => Read(k)}
<1>7. 0 \in T
  <2>1. Open(S, <<>>, NoParts, NoParts, <<>>)
    BY OpenNothing, Zenon
  <2>2. QED
    BY <1>1, <1>3, <1>6, <2>1
<1>8. ASSUME NEW k \in Nat, k \in T PROVE k + 1 \in T
  <2>1. SUFFICES ASSUME k + 1 <= n PROVE Read(k + 1)
    <3> HIDE DEF Read
    <3>1. QED
      OBVIOUS
  <2>2. k <= n /\ k + 1 \in 1..n /\ (k + 1) - 1 = k
    BY <1>1, <2>1
  <2>3. PICK w : Open(S, g[k], NoParts, w, <<>>) /\ Emits(w, P(k))
    BY <1>8, <2>2
  <2>4. PICK f \in F : f = form[k + 1]
    BY <1>2, <2>2
  <2>5. PICK z : Open(S, Part(f), w, z, <<>>) /\ Emits(z, Append(P(k), f))
    BY <2>3, PartRead
  <2>6. Open(S, g[k] \o Part(f), NoParts, z, <<>>)
    BY <2>3, <2>5, OpenThrough
  <2>7. g[k + 1] = g[k] \o Part(f) /\ P(k + 1) = Append(P(k), f)
    BY <1>1, <1>5, <1>6, <2>2, <2>4
  <2>8. QED
    BY <2>5, <2>6, <2>7
<1>9. Read(n)
  <2> HIDE DEF Read
  <2>1. n \in T
    <3> HIDE DEF T
    <3>1. QED
      BY <1>1, <1>7, <1>8, Induction
  <2>2. n <= n
    BY <1>1
  <2>3. QED
    BY <2>1, <2>2
<1>10. PICK w : Open(S, g[n], NoParts, w, <<>>) /\ Emits(w, form)
  BY <1>1, <1>9
<1> DEFINE v == <<Boundary, "-", "-">>
           u == InPart(form, <<>>, <<>>, <<>>, "data")
<1>11. Open(S, Ended(v), w, u, <<>>)
  <2> DEFINE N == S \ {"\n"}
  <2>1. v \in Seq(N)
    <3>1. Boundary \in N /\ "-" \in N
      BY DEF Tokens, Boundary
    <3> HIDE DEF N
    <3>2. QED
      BY <3>1
  <2>2. ReadLine(w, Append(v, "\r")) = u
    BY <1>10, LastBoundary
  <2>3. "\r" \in S /\ "\n" \in S
    BY DEF Tokens
  <2> HIDE DEF v, u
  <2>4. Open(S, Ended(v), w, ReadLine(w, Append(v, "\r")), <<>>)
    BY <2>1, <2>3, OpenEnded
  <2>5. QED
    BY <2>2, <2>4
<1>12. MultipartBody(form) = g[n] \o Ended(v)
  BY <1>6 DEF MultipartBody, s
<1> HIDE DEF v
<1>13. Open(S, MultipartBody(form), NoParts, u, <<>>)
  <2> HIDE DEF u
  <2>1. QED
    BY <1>10, <1>11, <1>12, OpenThrough
<1>14. u.fields = form
  BY DEF InPart
<1> HIDE DEF u
<1>15. QED
  BY <1>13, <1>14, OpenBody

-----------------------------------------------------------------------------
(* The pieces of a text. *)

\* A text is put together in one way only.
LEMMA FlattenIs ==
  ASSUME NEW S, NEW s \in Seq(Seq(S)), NEW h \in [0..Len(s) -> Seq(S)], h[0] = <<>>,
         \A i \in 1..Len(s) : h[i] = h[i - 1] \o s[i]
  PROVE  FlattenSeq(s) = h[Len(s)]
<1> DEFINE n == Len(s)
<1>1. n \in Nat
  BY LenProperties
<1>2. PICK f \in [0..n -> Seq(S)] :
        /\ f[0] = <<>> /\ \A i \in 1..n : f[i] = f[i - 1] \o s[i]
        /\ FlattenSeq(s) = f[n]
  BY FlattenFcn
<1> DEFINE T == {i \in Nat : i <= n => f[i] = h[i]}
<1>3. 0 \in T
  BY <1>2
<1> HIDE DEF n
<1>4. ASSUME NEW i \in Nat, i \in T PROVE i + 1 \in T
  <2>1. ASSUME i + 1 <= n PROVE f[i + 1] = h[i + 1]
    <3>1. i + 1 \in 1..n /\ (i + 1) - 1 = i /\ i <= n
      BY <1>1, <2>1
    <3>2. f[i] = h[i]
      BY <1>4, <3>1
    <3>3. f[i + 1] = f[i] \o s[i + 1] /\ h[i + 1] = h[i] \o s[i + 1]
      BY <1>2, <3>1 DEF n
    <3>4. QED
      BY <3>2, <3>3
  <2>2. QED
    BY <2>1
<1>5. n \in T
  <2> HIDE DEF T
  <2>1. QED
    BY <1>1, <1>3, <1>4, Induction
<1>6. QED
  BY <1>1, <1>2, <1>5 DEF n

\* The text of the parts from a to b.
Masked(s, a, b) == [i \in 1..Len(s) |-> IF a <= i /\ i <= b THEN s[i] ELSE <<>>]
Cut(s, a, b) == FlattenSeq(Masked(s, a, b))

LEMMA MaskedIs ==
  ASSUME NEW S, NEW s \in Seq(Seq(S)), NEW a, NEW b
  PROVE  /\ Len(s) \in Nat
         /\ Masked(s, a, b) \in Seq(Seq(S)) /\ Len(Masked(s, a, b)) = Len(s)
         /\ \A i \in 1..Len(s) :
              /\ s[i] \in Seq(S)
              /\ Masked(s, a, b)[i] = IF a <= i /\ i <= b THEN s[i] ELSE <<>>
<1> DEFINE n == Len(s)
           mask == Masked(s, a, b)
           V == Seq(S)
<1>1. n \in Nat /\ \A i \in 1..n : s[i] \in V
  BY LenProperties, ElementOfSeq
<1>2. <<>> \in V
  OBVIOUS
<1>3. \A i \in 1..n : mask[i] = IF a <= i /\ i <= b THEN s[i] ELSE <<>>
  BY DEF Masked
<1> HIDE DEF V, n
<1>4. mask \in [1..n -> V]
  BY <1>1, <1>2 DEF Masked, n
<1> HIDE DEF mask
<1>5. mask \in Seq(V) /\ Len(mask) = n
  BY <1>1, <1>4
<1>6. QED
  BY <1>1, <1>3, <1>5 DEF V, n, mask

LEMMA CutIs ==
  ASSUME NEW S, NEW s \in Seq(Seq(S)), NEW a, NEW b
  PROVE  Cut(s, a, b) \in Seq(S)
<1>1. Masked(s, a, b) \in Seq(Seq(S))
  BY MaskedIs
<1>2. QED
  BY <1>1, FlattenPoints DEF Cut

LEMMA CutNothing ==
  ASSUME NEW S, NEW s \in Seq(Seq(S)), NEW a, NEW b,
         \A i \in 1..Len(s) : a <= i /\ i <= b => s[i] = <<>>
  PROVE  Cut(s, a, b) = <<>>
<1> DEFINE mask == Masked(s, a, b)
           h == [i \in 0..Len(mask) |-> <<>>]
<1>1. /\ Len(s) \in Nat /\ mask \in Seq(Seq(S)) /\ Len(mask) = Len(s)
      /\ \A i \in 1..Len(s) : mask[i] = IF a <= i /\ i <= b THEN s[i] ELSE <<>>
  BY MaskedIs
<1>2. \A i \in 1..Len(s) : mask[i] = <<>>
  BY <1>1
<1> HIDE DEF mask
<1>3. h \in [0..Len(mask) -> Seq(S)] /\ h[0] = <<>> /\ h[Len(mask)] = <<>>
  BY <1>1
<1>4. \A i \in 1..Len(mask) : h[i] = h[i - 1] \o mask[i]
  <2>1. <<>> \o <<>> = <<>>
    OBVIOUS
  <2>2. \A i \in 1..Len(mask) : i \in 0..Len(mask) /\ i - 1 \in 0..Len(mask) /\ i \in 1..Len(s)
    BY <1>1
  <2>3. \A i \in 0..Len(mask) : h[i] = <<>>
    OBVIOUS
  <2> HIDE DEF h
  <2>4. QED
    BY <1>2, <2>1, <2>2, <2>3
<1> HIDE DEF h
<1>5. FlattenSeq(mask) = h[Len(mask)]
  BY <1>1, <1>3, <1>4, FlattenIs
<1>6. QED
  BY <1>3, <1>5 DEF Cut, mask

LEMMA CutOne ==
  ASSUME NEW S, NEW s \in Seq(Seq(S)), NEW k \in 1..Len(s)
  PROVE  Cut(s, k, k) = s[k]
<1> DEFINE mask == Masked(s, k, k)
           h == [i \in 0..Len(mask) |-> IF i < k THEN <<>> ELSE s[k]]
<1>1. /\ Len(s) \in Nat /\ mask \in Seq(Seq(S)) /\ Len(mask) = Len(s) /\ s[k] \in Seq(S)
      /\ \A i \in 1..Len(s) : mask[i] = IF k <= i /\ i <= k THEN s[i] ELSE <<>>
  BY MaskedIs
<1> HIDE DEF mask
<1>2. h \in [0..Len(mask) -> Seq(S)] /\ h[0] = <<>> /\ h[Len(mask)] = s[k]
  BY <1>1
<1>3. ASSUME NEW i \in 1..Len(mask) PROVE h[i] = h[i - 1] \o mask[i]
  <2>1. i - 1 \in 0..Len(mask) /\ i \in 0..Len(mask) /\ i \in 1..Len(s)
    BY <1>1
  <2>2. CASE i < k
    <3>1. h[i] = <<>> /\ h[i - 1] = <<>> /\ mask[i] = <<>>
      BY <1>1, <2>1, <2>2
    <3>2. <<>> \o <<>> = <<>>
      OBVIOUS
    <3>3. QED
      BY <3>1, <3>2
  <2>3. CASE i = k
    <3>1. h[i] = s[k] /\ h[i - 1] = <<>> /\ mask[i] = s[k]
      BY <1>1, <2>1, <2>3
    <3>2. <<>> \o s[k] = s[k]
      BY <1>1, ConcatEmptySeq
    <3>3. QED
      BY <3>1, <3>2
  <2>4. CASE i > k
    <3>0. ~(i < k) /\ ~(i - 1 < k) /\ ~(i <= k)
      BY <1>1, <2>4
    <3>1. h[i] = s[k] /\ h[i - 1] = s[k] /\ mask[i] = <<>>
      BY <1>1, <2>1, <3>0
    <3>2. s[k] \o <<>> = s[k]
      BY <1>1, ConcatEmptySeq
    <3>3. QED
      BY <3>1, <3>2
  <2>5. i < k \/ i = k \/ i > k
    BY <1>1, <2>1
  <2>6. QED
    BY <2>2, <2>3, <2>4, <2>5
<1> HIDE DEF h
<1>4. FlattenSeq(mask) = h[Len(mask)]
  BY <1>1, <1>2, <1>3, FlattenIs
<1>5. QED
  BY <1>2, <1>4 DEF Cut, mask

LEMMA CutWhole ==
  ASSUME NEW S, NEW s \in Seq(Seq(S))
  PROVE  Cut(s, 1, Len(s)) = FlattenSeq(s)
<1>0. PICK a, b : a = 1 /\ b = Len(s)
  OBVIOUS
<1> DEFINE mask == Masked(s, a, b)
<1>1. /\ Len(s) \in Nat /\ mask \in Seq(Seq(S)) /\ Len(mask) = Len(s)
      /\ \A i \in 1..Len(s) : mask[i] = IF a <= i /\ i <= b THEN s[i] ELSE <<>>
  BY MaskedIs
<1>2. \A i \in 1..Len(s) : mask[i] = s[i]
  BY <1>0, <1>1
<1> HIDE DEF mask
<1>3. mask = s
  BY <1>1, <1>2, SeqEqual
<1>4. QED
  BY <1>0, <1>3 DEF Cut, mask

\* A text is that of its first parts and that of the others.
SplitAt(s, a, k, b) == Cut(s, a, b) = Cut(s, a, k) \o Cut(s, k + 1, b)

LEMMA CutSplit ==
  ASSUME NEW S, NEW s \in Seq(Seq(S)), NEW a \in Nat, NEW b \in Nat, NEW k \in Nat,
         a <= k + 1, k <= b
  PROVE  SplitAt(s, a, k, b)
<1> DEFINE n == Len(s)
           whole == Masked(s, a, b)
           left == Masked(s, a, k)
           right == Masked(s, k + 1, b)
<1>1. /\ n \in Nat /\ whole \in Seq(Seq(S)) /\ Len(whole) = n
      /\ \A i \in 1..n : s[i] \in Seq(S) /\ whole[i] = IF a <= i /\ i <= b THEN s[i] ELSE <<>>
  BY MaskedIs
<1>2. /\ left \in Seq(Seq(S)) /\ Len(left) = n
      /\ \A i \in 1..n : left[i] = IF a <= i /\ i <= k THEN s[i] ELSE <<>>
  BY MaskedIs
<1>3. /\ right \in Seq(Seq(S)) /\ Len(right) = n
      /\ \A i \in 1..n : right[i] = IF k + 1 <= i /\ i <= b THEN s[i] ELSE <<>>
  BY MaskedIs
<1> HIDE DEF n, whole, left, right
<1>4. ASSUME NEW i \in 1..n
      PROVE  /\ i <= k => left[i] = whole[i] /\ right[i] = <<>>
             /\ ~(i <= k) => left[i] = <<>> /\ right[i] = whole[i]
  <2>1. i \in Nat
    BY <1>1
  <2>2. CASE i <= k
    <3>1. ~(k + 1 <= i) /\ i <= b
      BY <2>1, <2>2
    <3>2. QED
      BY <1>1, <1>2, <1>3, <2>2, <3>1
  <2>3. CASE ~(i <= k)
    <3>1. k + 1 <= i /\ a <= i
      BY <2>1, <2>3
    <3>2. QED
      BY <1>1, <1>2, <1>3, <2>1, <2>3, <3>1
  <2>4. QED
    BY <2>2, <2>3
<1>5. PICK f \in [0..n -> Seq(S)] :
        f[0] = <<>> /\ (\A i \in 1..n : f[i] = f[i - 1] \o left[i]) /\ FlattenSeq(left) = f[n]
  BY <1>2, FlattenFcn
<1>6. PICK g \in [0..n -> Seq(S)] :
        g[0] = <<>> /\ (\A i \in 1..n : g[i] = g[i - 1] \o right[i]) /\ FlattenSeq(right) = g[n]
  BY <1>3, FlattenFcn
<1> DEFINE T == {i \in Nat : i <= n /\ i <= k => g[i] = <<>>}
           h == [i \in 0..n |-> f[i] \o g[i]]
<1>7. 0 \in T
  BY <1>6
<1>8. ASSUME NEW i \in Nat, i \in T PROVE i + 1 \in T
  <2>1. ASSUME i + 1 <= n, i + 1 <= k PROVE g[i + 1] = <<>>
    <3>1. i + 1 \in 1..n /\ (i + 1) - 1 = i /\ i <= n /\ i <= k
      BY <1>1, <2>1
    <3>2. g[i] = <<>> /\ right[i + 1] = <<>>
      BY <1>4, <1>8, <2>1, <3>1
    <3>3. g[i + 1] = g[i] \o right[i + 1]
      BY <1>6, <3>1
    <3>4. <<>> \o <<>> = <<>>
      OBVIOUS
    <3>5. QED
      BY <3>2, <3>3, <3>4
  <2>2. QED
    BY <2>1
<1>9. \A i \in 0..n : i <= k => g[i] = <<>>
  <2>1. Nat \subseteq T
    <3> HIDE DEF T
    <3>1. QED
      BY <1>7, <1>8, Induction
  <2>2. QED
    BY <1>1, <2>1
<1>10. h \in [0..n -> Seq(S)]
  <2>1. \A i \in 0..n : f[i] \o g[i] \in Seq(S)
    BY ConcatProperties
  <2>2. QED
    BY <2>1
<1>11. h[0] = <<>> /\ h[n] = f[n] \o g[n]
  <2>1. <<>> \o <<>> = <<>>
    OBVIOUS
  <2>2. 0 \in 0..n /\ n \in 0..n
    BY <1>1
  <2>3. h[0] = f[0] \o g[0] /\ h[n] = f[n] \o g[n]
    BY <2>2
  <2>4. QED
    BY <1>5, <1>6, <2>1, <2>3
<1>12. ASSUME NEW i \in 1..n PROVE h[i] = h[i - 1] \o whole[i]
  <2>1. /\ i \in 0..n /\ i - 1 \in 0..n /\ f[i - 1] \in Seq(S) /\ g[i - 1] \in Seq(S)
        /\ f[i] \in Seq(S) /\ whole[i] \in Seq(S) /\ i \in Nat
    <3>1. \A e \in Seq(Seq(S)) : \A j \in 1..Len(e) : e[j] \in Seq(S)
      BY ElementOfSeq
    <3>2. QED
      BY <1>1, <3>1
  <2>2. h[i] = f[i] \o g[i] /\ h[i - 1] = f[i - 1] \o g[i - 1]
    BY <2>1
  <2>3. f[i] = f[i - 1] \o left[i] /\ g[i] = g[i - 1] \o right[i]
    BY <1>5, <1>6
  <2> HIDE DEF h
  <2>4. CASE i <= k
    <3>1. left[i] = whole[i] /\ g[i] = <<>> /\ g[i - 1] = <<>>
      <4>1. i - 1 <= k
        BY <2>1, <2>4
      <4>2. QED
        BY <1>4, <1>9, <2>1, <2>4, <4>1
    <3>2. f[i] \o <<>> = f[i] /\ f[i - 1] \o <<>> = f[i - 1]
      BY <2>1, ConcatEmptySeq
    <3>3. QED
      BY <2>2, <2>3, <3>1, <3>2
  <2>5. CASE ~(i <= k)
    <3>1. left[i] = <<>> /\ right[i] = whole[i]
      BY <1>4, <2>5
    <3>2. f[i - 1] \o <<>> = f[i - 1]
      BY <2>1, ConcatEmptySeq
    <3>3. (f[i - 1] \o g[i - 1]) \o whole[i] = f[i - 1] \o (g[i - 1] \o whole[i])
      <4>1. Associated(f[i - 1], g[i - 1], whole[i])
        BY <2>1, Associativity, Zenon
      <4>2. QED
        BY <4>1 DEF Associated
    <3>4. QED
      BY <2>2, <2>3, <3>1, <3>2, <3>3
  <2>6. QED
    BY <2>4, <2>5
<1> HIDE DEF h
<1>13. FlattenSeq(whole) = h[n]
  BY <1>1, <1>10, <1>11, <1>12, FlattenIs
<1>14. QED
  BY <1>5, <1>6, <1>11, <1>13 DEF SplitAt, Cut, whole, left, right

\* The parts from a to b are the characters of t.
IsCopy(s, t, a, b) ==
  /\ Len(s) = Len(t) /\ 1 <= a /\ a <= b + 1 /\ b <= Len(t)
  /\ \A i \in 1..Len(t) : a <= i /\ i <= b => s[i] = <<t[i]>>
Copied(s, t, a, b) == Cut(s, a, b) = SubSeq(t, a, b)

LEMMA CutSingles ==
  ASSUME NEW S, NEW s \in Seq(Seq(S)), NEW t \in Seq(S),
         NEW a \in Nat, NEW b \in Nat, IsCopy(s, t, a, b)
  PROVE  Copied(s, t, a, b)
<1>0. /\ Len(s) = Len(t) /\ 1 <= a /\ a <= b + 1 /\ b <= Len(t)
      /\ \A i \in 1..Len(t) : a <= i /\ i <= b => s[i] = <<t[i]>>
  BY DEF IsCopy
<1> DEFINE n == Len(t)
           T == {k \in Nat : a + k <= b + 1 => \E j \in Nat : j + 1 = a + k /\ Cut(s, a, j) = SubSeq(t, a, j)}
<1>1. n \in Nat
  BY LenProperties
<1>2. 0 \in T
  <2>1. PICK j \in Nat : j + 1 = a + 0
    <3>1. a - 1 \in Nat /\ (a - 1) + 1 = a + 0
      BY <1>0
    <3>2. QED
      BY <3>1
  <2>2. j < a /\ \A i \in 1..Len(s) : ~(a <= i /\ i <= j)
    BY <1>0, <1>1, <2>1
  <2>3. Cut(s, a, j) = <<>>
    BY <2>2, CutNothing
  <2>4. SubSeq(t, a, j) = <<>>
    BY <2>2, SubSeqEmpty
  <2>5. QED
    BY <2>1, <2>3, <2>4
<1> HIDE DEF n
<1>3. ASSUME NEW k \in Nat, k \in T PROVE k + 1 \in T
  <2>1. ASSUME a + (k + 1) <= b + 1
        PROVE  \E j \in Nat : j + 1 = a + (k + 1) /\ Cut(s, a, j) = SubSeq(t, a, j)
    <3>0. a + k <= b + 1
      BY <2>1
    <3>1. PICK j \in Nat : j + 1 = a + k /\ Cut(s, a, j) = SubSeq(t, a, j)
      BY <1>3, <3>0
    <3>2. PICK c \in Nat : c = j + 1 /\ c - 1 = j /\ c + 1 = a + (k + 1) /\ a <= c /\ c <= b /\ c <= n
      <4>1. j + 1 \in Nat /\ (j + 1) - 1 = j /\ (j + 1) + 1 = a + (k + 1) /\ a <= j + 1
            /\ j + 1 <= b /\ j + 1 <= n
        BY <1>0, <1>1, <2>1, <3>1 DEF n
      <4>2. QED
        BY <4>1
    <3>3. c \in 1..n /\ a \in 1..n /\ c \in a..n /\ j <= c
      BY <1>0, <1>1, <3>2
    <3>4. Cut(s, a, c) = Cut(s, a, j) \o Cut(s, c, c)
      <4>1. a <= j + 1
        BY <3>2
      <4>2. SplitAt(s, a, j, c)
        BY <3>3, <4>1, CutSplit, Zenon
      <4>3. QED
        BY <3>2, <4>2 DEF SplitAt
    <3>5. Cut(s, c, c) = <<t[c]>>
      <4>1. Cut(s, c, c) = s[c]
        BY <1>0, <3>3, CutOne DEF n
      <4>2. QED
        BY <1>0, <3>2, <3>3, <4>1 DEF n
    <3>6. SubSeq(t, a, c) = SubSeq(t, a, c - 1) \o <<t[c]>>
      BY <3>3, SubSeqRecursiveSecond DEF n
    <3>7. QED
      BY <3>1, <3>2, <3>4, <3>5, <3>6
  <2>2. QED
    BY <2>1
<1>4. b + 1 - a \in T /\ b + 1 - a \in Nat
  <2>1. b + 1 - a \in Nat
    BY <1>0
  <2> HIDE DEF T
  <2>2. QED
    BY <1>2, <1>3, <2>1, Induction
<1>5. a + (b + 1 - a) = b + 1 /\ \A j \in Nat : j + 1 = b + 1 => j = b
  OBVIOUS
<1>6. QED
  BY <1>4, <1>5 DEF Copied

\* A piece and nothing behind it.
LEMMA CutFirst ==
  ASSUME NEW S, NEW s \in Seq(Seq(S)), NEW a \in 1..Len(s), NEW b \in Nat, a <= b,
         \A i \in 1..Len(s) : a < i /\ i <= b => s[i] = <<>>
  PROVE  Cut(s, a, b) = s[a]
<1>1. Len(s) \in Nat /\ a \in Nat /\ s[a] \in Seq(S)
  BY MaskedIs
<1>2. Cut(s, a, b) = Cut(s, a, a) \o Cut(s, a + 1, b)
  <2>1. a <= a + 1
    BY <1>1
  <2>2. SplitAt(s, a, a, b)
    BY <1>1, <2>1, CutSplit, Zenon
  <2>3. QED
    BY <2>2 DEF SplitAt
<1>3. \A i \in 1..Len(s) : a + 1 <= i /\ i <= b => s[i] = <<>>
  BY <1>1
<1>4. Cut(s, a + 1, b) = <<>>
  BY <1>3, CutNothing
<1>5. Cut(s, a, a) = s[a]
  BY CutOne
<1>6. s[a] \o <<>> = s[a]
  BY <1>1, ConcatEmptySeq
<1>7. QED
  BY <1>2, <1>4, <1>5, <1>6

\* Each position of a text is in one of its parts.
Located(s, j, i, o) ==
  /\ j = Len(Cut(s, 1, i - 1)) + o
  /\ FlattenSeq(s)[j] = s[i][o]

LEMMA PositionLocated ==
  ASSUME NEW S, NEW s \in Seq(Seq(S)), NEW j \in 1..Len(FlattenSeq(s))
  PROVE  \E i \in 1..Len(s) : \E o \in 1..Len(s[i]) : Located(s, j, i, o)
<1> DEFINE n == Len(s)
           P == {i \in 0..n : j <= Len(Cut(s, 1, i))}
<1>1. n \in Nat /\ \A i \in 1..n : s[i] \in Seq(S)
  BY MaskedIs
<1>2. FlattenSeq(s) \in Seq(S) /\ Cut(s, 1, n) = FlattenSeq(s) /\ Len(FlattenSeq(s)) \in Nat
  BY CutWhole, FlattenPoints, LenProperties
<1> HIDE DEF n
<1>3. PICK i \in P : \A k \in P : i <= k
  <2>1. P \in SUBSET Nat /\ n \in P
    BY <1>1, <1>2
  <2> HIDE DEF P
  <2>2. QED
    BY <2>1, FirstPosition
<1>4. i # 0
  <2>1. ASSUME i = 0 PROVE FALSE
    <3>1. \A k \in 1..Len(s) : ~(1 <= k /\ k <= 0)
      BY <1>1 DEF n
    <3>2. Cut(s, 1, 0) = <<>>
      BY <3>1, CutNothing
    <3>3. j <= Len(Cut(s, 1, 0))
      BY <1>3, <2>1
    <3>4. QED
      BY <1>2, <3>2, <3>3
  <2>2. QED
    BY <2>1
<1>5. PICK k \in Nat : i = k + 1 /\ k = i - 1
  <2>1. i - 1 \in Nat /\ i = (i - 1) + 1
    BY <1>1, <1>3, <1>4
  <2>2. QED
    BY <2>1
<1>6. i \in 1..n /\ k \in 0..n /\ ~(i <= k) /\ k <= i /\ i <= n /\ i \in Nat
  BY <1>1, <1>3, <1>4, <1>5
<1>7. PICK x \in Seq(S), y \in Seq(S), z \in Seq(S) :
        x = Cut(s, 1, k) /\ y = s[i] /\ z = Cut(s, i + 1, n)
  BY <1>1, <1>6, CutIs
<1>8. Cut(s, 1, i) = x \o y
  <2>0. 1 <= k + 1 /\ 1 \in Nat /\ k \in Nat
    BY <1>5
  <2>1. Cut(s, 1, i) = Cut(s, 1, k) \o Cut(s, k + 1, i)
    <3>1. SplitAt(s, 1, k, i)
      BY <1>6, <2>0, CutSplit, Zenon
    <3>2. QED
      BY <3>1 DEF SplitAt
  <2>2. Cut(s, i, i) = s[i]
    BY <1>6, CutOne DEF n
  <2>3. QED
    BY <1>5, <1>7, <2>1, <2>2
<1>9. FlattenSeq(s) = (x \o y) \o z
  <2>0. 1 <= i + 1 /\ 1 \in Nat
    BY <1>6
  <2>1. Cut(s, 1, n) = Cut(s, 1, i) \o Cut(s, i + 1, n)
    <3>1. SplitAt(s, 1, i, n)
      BY <1>1, <1>6, <2>0, CutSplit, Zenon
    <3>2. QED
      BY <3>1 DEF SplitAt
  <2>2. QED
    BY <1>2, <1>7, <1>8, <2>1
<1>10. /\ x \o y \in Seq(S) /\ Len(x) \in Nat /\ Len(y) \in Nat /\ Len(x \o y) = Len(x) + Len(y)
       /\ \A o \in 1..Len(y) : (x \o y)[Len(x) + o] = y[o]
  BY Joined
<1>11. \A q \in 1..Len(x \o y) : ((x \o y) \o z)[q] = (x \o y)[q]
  BY <1>10, Joined
<1>12. j <= Len(x) + Len(y) /\ ~(j <= Len(x)) /\ j \in Nat
  <2>1. j <= Len(x \o y)
    BY <1>3, <1>8
  <2>2. ~(j <= Len(x))
    BY <1>3, <1>6, <1>7
  <2>3. QED
    BY <1>2, <1>10, <2>1, <2>2
<1>13. PICK o \in 1..Len(y) : j = Len(x) + o
  <2>1. j - Len(x) \in 1..Len(y) /\ j = Len(x) + (j - Len(x))
    BY <1>10, <1>12
  <2>2. QED
    BY <2>1
<1>14. FlattenSeq(s)[j] = y[o]
  <2>1. j \in 1..Len(x \o y)
    BY <1>10, <1>12
  <2>2. QED
    BY <1>9, <1>10, <1>11, <1>13, <2>1
<1>15. Located(s, j, i, o)
  BY <1>5, <1>7, <1>13, <1>14 DEF Located
<1>16. QED
  BY <1>6, <1>7, <1>13, <1>15 DEF n

\* std::string::replace()
LEMMA FrontOf ==
  ASSUME NEW S, NEW x \in Seq(S), NEW w \in Seq(S)
  PROVE  SubSeq(x \o w, 1, Len(x)) = x
<1>1. /\ x \o w \in Seq(S) /\ Len(x) \in Nat /\ Len(w) \in Nat /\ Len(x \o w) = Len(x) + Len(w)
      /\ \A i \in 1..Len(x) : (x \o w)[i] = x[i] /\ x[i] \in S
  BY Joined, ElementOfSeq
<1> DEFINE y == x \o w
           n == Len(x)
           sub == SubSeq(y, 1, n)
<1> HIDE DEF y, n
<1>2. n \in Int /\ 1 \in Int /\ \A i \in 1..n : y[i] \in S
  BY <1>1 DEF y, n
<1>3. /\ sub \in Seq(S) /\ Len(sub) = IF 1 <= n THEN n - 1 + 1 ELSE 0
      /\ \A i \in 1..n - 1 + 1 : sub[i] = y[1 + i - 1]
  BY <1>2, SubSeqProperties
<1> HIDE DEF sub
<1>4. Len(sub) = n /\ \A i \in 1..n : sub[i] = y[i]
  <2>1. n \in Nat /\ n - 1 + 1 = n /\ \A i \in 1..n : 1 + i - 1 = i
    BY <1>1 DEF n
  <2>2. QED
    BY <1>3, <2>1
<1>5. sub = x
  BY <1>1, <1>3, <1>4, SeqEqual DEF y, n
<1>6. QED
  BY <1>5 DEF sub, y, n

LEMMA BackOf ==
  ASSUME NEW S, NEW x \in Seq(S), NEW w \in Seq(S)
  PROVE  SubSeq(x \o w, Len(x) + 1, Len(x \o w)) = w
<1>1. /\ x \o w \in Seq(S) /\ Len(x) \in Nat /\ Len(w) \in Nat /\ Len(x \o w) = Len(x) + Len(w)
      /\ \A i \in 1..Len(w) : (x \o w)[Len(x) + i] = w[i]
  BY Joined
<1> DEFINE y == x \o w
           k == Len(x)
           m == Len(y)
           a == k + 1
           sub == SubSeq(y, a, m)
<1>2. m = k + Len(w) /\ k \in Nat /\ Len(w) \in Nat /\ m \in Nat
  BY <1>1
<1>3. \A i \in 1..Len(y) : y[i] \in S
  BY <1>1, ElementOfSeq
<1>4. a = k + 1
  OBVIOUS
<1> HIDE DEF y, k, m, a
<1>5. a \in Int /\ m \in Int /\ \A i \in a..m : y[i] \in S
  BY <1>2, <1>3, <1>4 DEF m
<1>6. /\ sub \in Seq(S) /\ Len(sub) = IF a <= m THEN m - a + 1 ELSE 0
      /\ \A i \in 1..m - a + 1 : sub[i] = y[a + i - 1]
  BY <1>5, SubSeqProperties
<1> HIDE DEF sub
<1>7. m - a + 1 = Len(w) /\ (a <= m \/ Len(w) = 0) /\ \A i \in 1..Len(w) : a + i - 1 = k + i
  BY <1>2, <1>4
<1>8. Len(sub) = Len(w) /\ \A i \in 1..Len(w) : sub[i] = w[i]
  <2>1. \A i \in 1..Len(w) : y[k + i] = w[i]
    BY <1>1 DEF y, k
  <2>2. \A i \in 1..Len(w) : sub[i] = y[k + i]
    BY <1>6, <1>7
  <2>3. Len(sub) = Len(w)
    BY <1>2, <1>6, <1>7
  <2>4. QED
    BY <2>1, <2>2, <2>3
<1>9. sub = w
  BY <1>6, <1>8, SeqEqual
<1>10. QED
  BY <1>9 DEF sub, a, m, y, k

Replaced(i, x, y, z, by) == ReplaceSubSeqAt(i, by, y, x \o y \o z) = x \o by \o z

LEMMA ReplacedIs ==
  ASSUME NEW S, NEW x \in Seq(S), NEW y \in Seq(S), NEW z \in Seq(S), NEW by \in Seq(S),
         NEW i, i = Len(x) + 1
  PROVE  Replaced(i, x, y, z, by)
<1> DEFINE q == x \o y \o z
<1>1. Len(x) \in Nat /\ Len(y) \in Nat /\ x \o y \in Seq(S) /\ y \o z \in Seq(S)
      /\ Len(x \o y) = Len(x) + Len(y)
  BY Joined
<1>2. q = x \o (y \o z)
  BY ConcatAssociative
<1>3. SubSeq(q, 1, Len(x)) = x
  <2> HIDE DEF q
  <2>1. QED
    BY <1>1, <1>2, FrontOf
<1>4. SubSeq(q, Len(x \o y) + 1, Len(q)) = z
  BY <1>1, BackOf
<1>5. i - 1 = Len(x) /\ i + Len(y) = Len(x \o y) + 1
  BY <1>1
<1> HIDE DEF q
<1>6. ReplaceSubSeqAt(i, by, y, q) = SubSeq(q, 1, i - 1) \o by \o SubSeq(q, i + Len(y), Len(q))
  BY DEF ReplaceSubSeqAt
<1>7. QED
  BY <1>3, <1>4, <1>5, <1>6 DEF q, Replaced
=============================================================================
