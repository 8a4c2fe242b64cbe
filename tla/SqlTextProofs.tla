---------------------------- MODULE SqlTextProofs ----------------------------
(***************************************************************************)
(* Proofs about SqlText and the ConfigParser under it, for every set of    *)
(* documents, values and contents: services are loaded as the document     *)
(* writes them, but for what a quote, a ] or a } within a text cuts off,   *)
(* wherever the file ends; a request is received as it was filled in, it   *)
(* is refused exactly when it is invalid, the loops over the fields of a   *)
(* service stay within them, and the statement is the template with a      *)
(* literal for each placeholder.                                           *)
(***************************************************************************)
EXTENDS SqlText, InputsProofs, FiniteSetTheorems

-----------------------------------------------------------------------------
(* The lines of the file: where the parts of a service and the services are. *)

\* SetToSeq() leaves no element out.
LEMMA SetAsSequence ==
  ASSUME NEW S, IsFiniteSet(S)
  PROVE  /\ SetToSeq(S) \in Seq(S)
         /\ \A x \in S : \E i \in 1..Len(SetToSeq(S)) : SetToSeq(S)[i] = x
<1> DEFINE n == Cardinality(S)
           Good(f) == f \in [1..n -> S] /\ IsInjective(f)
<1>1. n \in Nat /\ ExistsBijection(1..n, S)
  BY FS_CardinalityType
<1>2. PICK g : g \in Bijection(1..n, S)
  BY <1>1 DEF ExistsBijection
<1>3. Good(g)
  BY <1>2 DEF Bijection, Injection
<1>4. SetToSeq(S) = CHOOSE f : Good(f)
  BY DEF SetToSeq
<1> DEFINE q == SetToSeq(S)
<1>5. Good(q)
  <2> HIDE DEF Good
  <2>1. QED
    BY <1>3, <1>4
<1>6. q \in Injection(1..n, S)
  BY <1>5 DEF Injection
<1>7. IsFiniteSet(1..n) /\ Cardinality(1..n) = n
  BY <1>1, FS_Interval
<1>8. q \in Surjection(1..n, S)
  <2> HIDE DEF q
  <2>1. QED
    BY <1>6, <1>7, FS_Injection
<1>9. q \in Seq(S) /\ Len(q) = n
  <2> HIDE DEF q, n
  <2>1. QED
    BY <1>1, <1>5
<1>10. \A x \in S : \E i \in 1..n : q[i] = x
  <2> HIDE DEF q, n
  <2>1. QED
    BY <1>8 DEF Surjection
<1>11. QED
  BY <1>9, <1>10

LEMMA KeysFinite == IsFiniteSet(Keys)
<1> DEFINE A == {"db", "sql", "function"}
           B == A \cup {"validator"}
           C == B \cup {"roles"}
           D == C \cup {"tags"}
<1>1. IsFiniteSet({}) /\ IsFiniteSet({"db"}) /\ IsFiniteSet({"sql"}) /\ IsFiniteSet({"function"})
      /\ IsFiniteSet({"validator"}) /\ IsFiniteSet({"roles"}) /\ IsFiniteSet({"tags"})
      /\ IsFiniteSet({"audit"})
  BY FS_Singleton, FS_EmptySet
<1>2. IsFiniteSet({"db"} \cup {"sql"})
  BY <1>1, FS_Union
<1>3. IsFiniteSet(({"db"} \cup {"sql"}) \cup {"function"})
  BY <1>1, <1>2, FS_Union
<1>4. A = ({"db"} \cup {"sql"}) \cup {"function"}
  OBVIOUS
<1>5. IsFiniteSet(A)
  BY <1>3, <1>4
<1> HIDE DEF A
<1>6. IsFiniteSet(B)
  BY <1>1, <1>5, FS_Union
<1> HIDE DEF B
<1>7. IsFiniteSet(C)
  BY <1>1, <1>6, FS_Union
<1> HIDE DEF C
<1>8. IsFiniteSet(D)
  BY <1>1, <1>7, FS_Union
<1> HIDE DEF D
<1>9. IsFiniteSet(D \cup {"audit"})
  BY <1>1, <1>8, FS_Union
<1>10. Keys = D \cup {"audit"}
  BY DEF Keys, ValueKeys, ListKeys, A, B, C, D
<1>11. QED
  BY <1>9, <1>10

\* Lines that state keys with their texts, and leave none out.
StatesKeys(lines, is, keys, texts) ==
  /\ \A i \in 1..Len(lines) : \E k \in keys : lines[i] = Line(is, k, texts[k])
  /\ \A k \in keys : texts[k] = <<>> \/ \E i \in 1..Len(lines) : lines[i].key = k

LEMMA KeyLinesAt ==
  ASSUME NEW is, NEW keys, IsFiniteSet(keys), NEW texts, NEW S,
         \A k \in keys : Line(is, k, texts[k]) \in S
  PROVE  KeyLines(is, texts, keys) \in Seq(S) /\ StatesKeys(KeyLines(is, texts, keys), is, keys, texts)
<1> DEFINE has == {k \in keys : texts[k] # <<>>}
           stated == SetToSeq(has)
           n == Len(stated)
           lines == KeyLines(is, texts, keys)
<1>1. IsFiniteSet(has)
  BY FS_Subset
<1>2. stated \in Seq(has) /\ \A x \in has : \E i \in 1..n : stated[i] = x
  <2> HIDE DEF has
  <2>1. QED
    BY <1>1, SetAsSequence
<1>3. lines = [i \in DOMAIN stated |-> Line(is, stated[i], texts[stated[i]])]
  BY DEF KeyLines
<1> HIDE DEF stated, has
<1>4. n \in Nat /\ DOMAIN stated = 1..n /\ \A i \in 1..n : stated[i] \in has
  BY <1>2, LenProperties, ElementOfSeq
<1>5. \A i \in 1..n : stated[i] \in keys
  BY <1>4 DEF has
<1>6. lines \in [1..n -> S]
  <2>1. \A i \in 1..n : Line(is, stated[i], texts[stated[i]]) \in S
    BY <1>5
  <2> HIDE DEF lines, n
  <2>2. QED
    BY <1>3, <1>4, <2>1
<1>7. lines \in Seq(S) /\ Len(lines) = n
  <2> HIDE DEF lines, n
  <2>1. QED
    BY <1>4, <1>6
<1>8. ASSUME NEW i \in 1..n
      PROVE  lines[i] = Line(is, stated[i], texts[stated[i]]) /\ lines[i].key = stated[i]
  <2>1. lines[i] = Line(is, stated[i], texts[stated[i]])
    <3> HIDE DEF lines, n
    <3>1. QED
      BY <1>3, <1>4
  <2>2. QED
    BY <2>1 DEF Line
<1>9. ASSUME NEW k \in keys, texts[k] # <<>>
      PROVE  \E i \in 1..n : lines[i].key = k
  <2>1. k \in has
    BY <1>9 DEF has
  <2> HIDE DEF lines, n
  <2>2. QED
    BY <1>2, <1>8, <2>1
<1> HIDE DEF lines, n
<1>10. QED
  BY <1>5, <1>7, <1>8, <1>9 DEF lines, StatesKeys

\* What DocumentsAssumption says of a service.
WellFormed(s) ==
  /\ s.uri \in Seq(Range(s.uri)) /\ "\"" \notin Range(s.uri) /\ Trim(s.uri) = s.uri
  /\ \A k \in Keys : s.texts[k] \in Seq(Range(s.texts[k]))
  /\ \A k \in MailKeys : s.mail[k] \in Seq(Range(s.mail[k]))
  /\ s.fields \in Seq(Range(s.fields))
  /\ s.secure \in BOOLEAN

LinesOf(s) ==
  {Mark("{"), Mark("}"), Mark("fields"), Mark("]"), Mark("email"), Mark("}}}"),
   Line("key", "uri", s.uri), Line("key", "secure", <<"0">>)}
  \cup {Line("key", k, s.texts[k]) : k \in Keys}
  \cup {Line("mail", k, s.mail[k]) : k \in MailKeys}
  \cup {FieldLine(s.fields[i]) : i \in 1..Len(s.fields)}

\* The lines of a service: its keys up to line a, "secure" up to line b, its
\* fields up to line c, its mail up to line d, and the end.
Layout(L, s, a, b, c, d) ==
  /\ 2 <= a /\ a <= b /\ b <= c /\ c <= d /\ Len(L) = d + 1
  /\ L[1] = Mark("{") /\ L[2] = Line("key", "uri", s.uri) /\ L[d + 1] = Mark("}")
  /\ \A j \in 3..a : \E k \in Keys : L[j] = Line("key", k, s.texts[k])
  /\ \A k \in Keys : s.texts[k] = <<>> \/ \E j \in 3..a : L[j].key = k
  /\ \/ s.secure /\ b = a
     \/ ~s.secure /\ b = a + 1 /\ L[b] = Line("key", "secure", <<"0">>)
  /\ \/ s.fields = <<>> /\ c = b
     \/ /\ c = b + Len(s.fields) + 2 /\ L[b + 1] = Mark("fields") /\ L[c] = Mark("]")
        /\ \A i \in 1..Len(s.fields) : L[b + 1 + i] = FieldLine(s.fields[i])
  /\ \/ d = c
     \/ /\ c + 2 <= d /\ L[c + 1] = Mark("email") /\ L[d] = Mark("}}}")
        /\ \A j \in c + 2..d - 1 : \E k \in MailKeys : L[j] = Line("mail", k, s.mail[k])
  /\ \A k \in MailKeys : s.mail[k] = <<>> \/ \E j \in c + 2..d - 1 : L[j].key = k

AreFieldLines(lines, fields) ==
  /\ Len(lines) = Len(fields) /\ Len(fields) \in Nat
  /\ \A i \in 1..Len(fields) : lines[i] = FieldLine(fields[i])

LEMMA FieldLinesAt ==
  ASSUME NEW S, NEW fields, fields \in Seq(Range(fields)),
         \A i \in 1..Len(fields) : FieldLine(fields[i]) \in S
  PROVE  /\ [i \in DOMAIN fields |-> FieldLine(fields[i])] \in Seq(S)
         /\ AreFieldLines([i \in DOMAIN fields |-> FieldLine(fields[i])], fields)
<1> DEFINE n == Len(fields)
           lines == [i \in DOMAIN fields |-> FieldLine(fields[i])]
<1>1. n \in Nat /\ DOMAIN fields = 1..n
  BY LenProperties
<1>2. lines \in [1..n -> S] /\ \A i \in 1..n : lines[i] = FieldLine(fields[i])
  <2> HIDE DEF n
  <2>1. QED
    BY <1>1
<1> HIDE DEF lines
<1>3. lines \in Seq(S) /\ Len(lines) = n
  <2> HIDE DEF n
  <2>1. QED
    BY <1>1, <1>2
<1>4. QED
  BY <1>1, <1>2, <1>3 DEF lines, AreFieldLines

LEMMA OneLine ==
  ASSUME NEW S, NEW x \in S
  PROVE  <<x>> \in Seq(S) /\ Len(<<x>>) = 1 /\ <<x>>[1] = x
OBVIOUS

Fenced(all, x, lines, y) ==
  /\ Len(lines) \in Nat /\ Len(all) = Len(lines) + 2
  /\ all[1] = x /\ all[Len(lines) + 2] = y
  /\ \A i \in 1..Len(lines) : all[1 + i] = lines[i]

LEMMA FencedAt ==
  ASSUME NEW S, NEW x \in S, NEW lines \in Seq(S), NEW y \in S
  PROVE  <<x>> \o lines \o <<y>> \in Seq(S) /\ Fenced(<<x>> \o lines \o <<y>>, x, lines, y)
<1> DEFINE n == Len(lines)
           p == <<x>> \o lines
           q == p \o <<y>>
<1>1. n \in Nat
  BY LenProperties
<1>2. <<x>> \in Seq(S) /\ Len(<<x>>) = 1 /\ <<x>>[1] = x
      /\ <<y>> \in Seq(S) /\ Len(<<y>>) = 1 /\ <<y>>[1] = y
  BY OneLine
<1>3. /\ p \in Seq(S) /\ Len(p) = 1 + n
      /\ \A i \in 1..1 : p[i] = <<x>>[i]
      /\ \A i \in 1..n : p[1 + i] = lines[i]
  BY <1>2, Joined
<1>4. p \in Seq(S)
  BY <1>3
<1> HIDE DEF p, n
<1>5. /\ q \in Seq(S) /\ Len(q) = Len(p) + 1
      /\ \A i \in 1..Len(p) : q[i] = p[i]
      /\ \A i \in 1..1 : q[Len(p) + i] = <<y>>[i]
  BY <1>2, <1>4, Joined
<1> HIDE DEF q
<1>6. Len(q) = n + 2 /\ q[1] = x
  BY <1>1, <1>2, <1>3, <1>5
<1>7. q[n + 2] = y
  <2>1. Len(p) + 1 = n + 2
    BY <1>1, <1>3
  <2>2. q[Len(p) + 1] = y
    BY <1>2, <1>5
  <2>3. QED
    BY <2>1, <2>2
<1>8. ASSUME NEW i \in 1..n PROVE q[1 + i] = lines[i]
  <2>1. 1 + i \in 1..Len(p)
    BY <1>1, <1>3
  <2>2. QED
    BY <1>3, <1>5, <2>1
<1>9. QED
  BY <1>1, <1>5, <1>6, <1>7, <1>8 DEF p, q, n, Fenced

LEMMA ServiceLayout ==
  ASSUME NEW s, WellFormed(s)
  PROVE  /\ ServiceLines(s) \in Seq(LinesOf(s))
         /\ \E a, b, c, d \in Nat : Layout(ServiceLines(s), s, a, b, c, d)
<1> DEFINE S == LinesOf(s)
           k1 == KeyLines("key", s.texts, Keys)
           k2 == KeyLines("mail", s.mail, MailKeys)
           fl == [i \in DOMAIN s.fields |-> FieldLine(s.fields[i])]
           nomail == \A k \in MailKeys : s.mail[k] = <<>>
           first == <<Mark("{"), Line("key", "uri", s.uri)>>
           p3 == IF s.secure THEN <<>> ELSE <<Line("key", "secure", <<"0">>)>>
           p4 == IF s.fields = <<>> THEN <<>> ELSE <<Mark("fields")>> \o fl \o <<Mark("]")>>
           p5 == IF nomail THEN <<>> ELSE <<Mark("email")>> \o k2 \o <<Mark("}}}")>>
           last == <<Mark("}")>>
<1>1. /\ Mark("{") \in S /\ Mark("}") \in S /\ Mark("fields") \in S /\ Mark("]") \in S
      /\ Mark("email") \in S /\ Mark("}}}") \in S /\ Line("key", "uri", s.uri) \in S
      /\ Line("key", "secure", <<"0">>) \in S
      /\ \A k \in Keys : Line("key", k, s.texts[k]) \in S
      /\ \A k \in MailKeys : Line("mail", k, s.mail[k]) \in S
      /\ \A i \in 1..Len(s.fields) : FieldLine(s.fields[i]) \in S
  BY DEF LinesOf
<1> HIDE DEF S
<1>2. k1 \in Seq(S) /\ StatesKeys(k1, "key", Keys, s.texts)
  BY <1>1, KeysFinite, KeyLinesAt, Zenon
<1>3. k2 \in Seq(S) /\ StatesKeys(k2, "mail", MailKeys, s.mail)
  BY <1>1, MailKeysAssumption, KeyLinesAt, Zenon
<1>4. fl \in Seq(S) /\ AreFieldLines(fl, s.fields)
  BY <1>1, FieldLinesAt, Zenon DEF WellFormed
<1> HIDE DEF k1, k2, fl
<1>5. /\ first \in Seq(S) /\ Len(first) = 2 /\ first[1] = Mark("{")
      /\ first[2] = Line("key", "uri", s.uri)
  <2> DEFINE x == Mark("{")
             y == Line("key", "uri", s.uri)
  <2>1. x \in S /\ y \in S
    BY <1>1
  <2> HIDE DEF x, y
  <2>2. <<x, y>> \in Seq(S) /\ Len(<<x, y>>) = 2 /\ <<x, y>>[1] = x /\ <<x, y>>[2] = y
    BY <2>1
  <2>3. QED
    BY <2>2 DEF x, y
<1>6. last \in Seq(S) /\ Len(last) = 1 /\ last[1] = Mark("}")
  BY <1>1, OneLine, Zenon
<1>7. /\ p3 \in Seq(S)
      /\ \/ s.secure /\ Len(p3) = 0
         \/ ~s.secure /\ Len(p3) = 1 /\ p3[1] = Line("key", "secure", <<"0">>)
  <2>1. CASE s.secure
    <3>1. p3 = <<>>
      BY <2>1
    <3>2. QED
      BY <2>1, <3>1, EmptySeq
  <2>2. CASE ~s.secure
    <3> DEFINE x == Line("key", "secure", <<"0">>)
    <3>1. p3 = <<x>>
      BY <2>2
    <3>2. <<x>> \in Seq(S) /\ Len(<<x>>) = 1 /\ <<x>>[1] = x
      BY <1>1, OneLine, Zenon
    <3>3. QED
      BY <2>2, <3>1, <3>2
  <2>3. QED
    BY <2>1, <2>2
<1>8. /\ p4 \in Seq(S)
      /\ \/ s.fields = <<>> /\ Len(p4) = 0
         \/ Fenced(p4, Mark("fields"), fl, Mark("]"))
  <2>1. CASE s.fields = <<>>
    BY <2>1, EmptySeq
  <2>2. CASE s.fields # <<>>
    <3>1. p4 = <<Mark("fields")>> \o fl \o <<Mark("]")>>
      BY <2>2
    <3>2. QED
      BY <1>1, <1>4, <3>1, FencedAt, Zenon
  <2>3. QED
    BY <2>1, <2>2
<1>9. /\ p5 \in Seq(S)
      /\ \/ nomail /\ Len(p5) = 0
         \/ Fenced(p5, Mark("email"), k2, Mark("}}}"))
  <2>1. CASE nomail
    <3>1. p5 = <<>>
      BY <2>1
    <3>2. QED
      BY <2>1, <3>1, EmptySeq
  <2>2. CASE ~nomail
    <3>1. p5 = <<Mark("email")>> \o k2 \o <<Mark("}}}")>>
      BY <2>2
    <3>2. QED
      BY <1>1, <1>3, <3>1, FencedAt, Zenon
  <2>3. QED
    BY <2>1, <2>2
<1>10. ServiceLines(s) = first \o k1 \o p3 \o p4 \o p5 \o last
  BY DEF ServiceLines, first, k1, k2, fl, p3, p4, p5, last
<1> HIDE DEF first, p3, p4, p5, last
<1> DEFINE L == first \o k1 \o p3 \o p4 \o p5 \o last
<1>a. first \in Seq(S) /\ k1 \in Seq(S) /\ p3 \in Seq(S) /\ p4 \in Seq(S) /\ p5 \in Seq(S)
      /\ last \in Seq(S)
  BY <1>2, <1>5, <1>6, <1>7, <1>8, <1>9
<1>11. L \in Seq(S) /\ \E a, b, c, d \in Nat : SixParts(L, first, k1, p3, p4, p5, last, a, b, c, d)
  BY <1>a, SixPartsJoined, Zenon
<1>12. PICK a \in Nat, b \in Nat, c \in Nat, d \in Nat :
         SixParts(L, first, k1, p3, p4, p5, last, a, b, c, d)
  BY <1>11
<1> HIDE DEF L
<1>b. PICK n \in Nat, n3 \in Nat, n4 \in Nat, n5 \in Nat :
        n = Len(k1) /\ n3 = Len(p3) /\ n4 = Len(p4) /\ n5 = Len(p5)
  BY <1>a, LenProperties
<1>13. PICK r \in Nat, f \in Nat : r = Len(k2) /\ f = Len(s.fields)
  BY <1>3, <1>4, LenProperties DEF AreFieldLines
<1>14. a = 2 + n /\ b = a + n3 /\ c = b + n4 /\ d = c + n5
  BY <1>5, <1>12, <1>b DEF SixParts
<1>c. /\ Len(L) = d + 1 /\ L[1] = Mark("{") /\ L[2] = Line("key", "uri", s.uri)
      /\ L[d + 1] = Mark("}")
  <2>1. 1 \in 1..1 /\ 1 \in 1..2 /\ 2 \in 1..2
    OBVIOUS
  <2>2. /\ Len(L) = d + Len(last)
        /\ \A i \in 1..Len(first) : L[i] = first[i]
        /\ \A i \in 1..Len(last) : L[d + i] = last[i]
    BY <1>12 DEF SixParts
  <2>3. QED
    BY <1>5, <1>6, <2>1, <2>2
<1>d. /\ \A i \in 1..n : L[2 + i] = k1[i]
      /\ \A i \in 1..n3 : L[a + i] = p3[i]
      /\ \A i \in 1..n4 : L[b + i] = p4[i]
      /\ \A i \in 1..n5 : L[c + i] = p5[i]
  BY <1>5, <1>12, <1>b DEF SixParts
<1>15. /\ \A j \in 3..a : \E k \in Keys : L[j] = Line("key", k, s.texts[k])
       /\ \A k \in Keys : s.texts[k] = <<>> \/ \E j \in 3..a : L[j].key = k
  <2>1. ASSUME NEW j \in 3..a PROVE \E k \in Keys : L[j] = Line("key", k, s.texts[k])
    <3>1. PICK i \in 1..n : j = 2 + i
      <4>1. j - 2 \in 1..n /\ j = 2 + (j - 2)
        BY <1>14
      <4>2. QED
        BY <4>1
    <3>2. L[j] = k1[i] /\ i \in 1..Len(k1)
      BY <1>b, <1>d, <3>1
    <3>3. QED
      BY <1>2, <3>2 DEF StatesKeys
  <2>2. ASSUME NEW k \in Keys, s.texts[k] # <<>> PROVE \E j \in 3..a : L[j].key = k
    <3>1. PICK i \in 1..n : k1[i].key = k
      BY <1>2, <1>b, <2>2 DEF StatesKeys
    <3>2. 2 + i \in 3..a
      BY <1>14
    <3>3. QED
      BY <1>d, <3>1, <3>2
  <2>3. QED
    BY <2>1, <2>2
<1>16. \/ s.secure /\ b = a
       \/ ~s.secure /\ b = a + 1 /\ L[b] = Line("key", "secure", <<"0">>)
  <2>1. CASE s.secure /\ n3 = 0
    BY <1>14, <2>1
  <2>2. CASE ~s.secure /\ n3 = 1 /\ p3[1] = Line("key", "secure", <<"0">>)
    <3>1. b = a + 1 /\ 1 \in 1..n3
      BY <1>14, <2>2
    <3>2. QED
      BY <1>d, <2>2, <3>1
  <2>3. QED
    BY <1>7, <1>b, <2>1, <2>2
<1>17. \/ s.fields = <<>> /\ c = b
       \/ /\ c = b + Len(s.fields) + 2 /\ L[b + 1] = Mark("fields") /\ L[c] = Mark("]")
          /\ \A i \in 1..Len(s.fields) : L[b + 1 + i] = FieldLine(s.fields[i])
  <2>1. CASE s.fields = <<>> /\ n4 = 0
    BY <1>14, <2>1
  <2>2. CASE Fenced(p4, Mark("fields"), fl, Mark("]"))
    <3>1. /\ n4 = f + 2 /\ p4[1] = Mark("fields") /\ p4[f + 2] = Mark("]")
          /\ \A i \in 1..f : p4[1 + i] = FieldLine(s.fields[i])
      BY <1>4, <1>13, <1>b, <2>2 DEF Fenced, AreFieldLines
    <3>2. c = b + f + 2 /\ c = b + (f + 2) /\ 1 \in 1..n4 /\ f + 2 \in 1..n4
      BY <1>14, <3>1
    <3>3. L[b + 1] = Mark("fields") /\ L[b + (f + 2)] = Mark("]")
      BY <1>d, <3>1, <3>2
    <3>4. ASSUME NEW i \in 1..f PROVE L[b + 1 + i] = FieldLine(s.fields[i])
      <4>1. 1 + i \in 1..n4 /\ b + 1 + i = b + (1 + i)
        BY <3>1
      <4>2. L[b + (1 + i)] = p4[1 + i]
        BY <1>d, <4>1
      <4>3. QED
        BY <3>1, <4>1, <4>2
    <3>5. QED
      BY <1>13, <3>2, <3>3, <3>4
  <2>3. QED
    BY <1>8, <1>b, <2>1, <2>2
<1>18. /\ \/ d = c
          \/ /\ c + 2 <= d /\ L[c + 1] = Mark("email") /\ L[d] = Mark("}}}")
             /\ \A j \in c + 2..d - 1 : \E k \in MailKeys : L[j] = Line("mail", k, s.mail[k])
       /\ \A k \in MailKeys : s.mail[k] = <<>> \/ \E j \in c + 2..d - 1 : L[j].key = k
  <2>1. CASE nomail /\ n5 = 0
    <3>1. d = c
      BY <1>14, <2>1
    <3>2. QED
      BY <2>1, <3>1
  <2>2. CASE Fenced(p5, Mark("email"), k2, Mark("}}}"))
    <3>1. /\ n5 = r + 2 /\ p5[1] = Mark("email") /\ p5[r + 2] = Mark("}}}")
          /\ \A i \in 1..r : p5[1 + i] = k2[i]
      BY <1>13, <1>b, <2>2 DEF Fenced
    <3>0. n5 = r + 2
      BY <3>1
    <3>2. d = c + (r + 2) /\ c + 2 <= d /\ 1 \in 1..n5 /\ r + 2 \in 1..n5
      BY <1>14, <3>0
    <3>3. L[c + 1] = Mark("email") /\ L[c + (r + 2)] = Mark("}}}")
      BY <1>d, <3>1, <3>2
    <3>4. ASSUME NEW i \in 1..r PROVE L[c + (1 + i)] = k2[i]
      <4>1. 1 + i \in 1..n5
        BY <3>0
      <4>2. L[c + (1 + i)] = p5[1 + i]
        BY <1>d, <4>1
      <4>3. QED
        BY <3>1, <4>2
    <3>5. ASSUME NEW j \in c + 2..d - 1
          PROVE  \E k \in MailKeys : L[j] = Line("mail", k, s.mail[k])
      <4>1. PICK i \in 1..r : j = c + (1 + i)
        <5>1. j - c - 1 \in 1..r /\ j = c + (1 + (j - c - 1))
          BY <3>2
        <5>2. QED
          BY <5>1
      <4>2. L[j] = k2[i] /\ i \in 1..Len(k2)
        BY <1>13, <3>4, <4>1
      <4>3. QED
        BY <1>3, <4>2 DEF StatesKeys
    <3>6. ASSUME NEW k \in MailKeys, s.mail[k] # <<>>
          PROVE  \E j \in c + 2..d - 1 : L[j].key = k
      <4>1. PICK i \in 1..r : k2[i].key = k
        BY <1>3, <1>13, <3>6 DEF StatesKeys
      <4>2. c + (1 + i) \in c + 2..d - 1
        BY <3>2
      <4>3. QED
        BY <3>4, <4>1, <4>2
    <3>7. L[d] = Mark("}}}")
      BY <3>2, <3>3
    <3>8. QED
      BY <3>2, <3>3, <3>5, <3>6, <3>7
  <2>3. QED
    BY <1>9, <1>b, <2>1, <2>2
<1>20. 2 <= a /\ a <= b /\ b <= c /\ c <= d
  BY <1>14
<1>21. Layout(L, s, a, b, c, d)
  BY <1>c, <1>15, <1>16, <1>17, <1>18, <1>20 DEF Layout
<1>22. QED
  BY <1>10, <1>11, <1>21 DEF L, S

\* Where the services of a document begin in its file, and where they end.
Placed(place, doc) ==
  /\ place \in [1..Len(doc) + 1 -> Nat] /\ place[1] = 3
  /\ \A i \in 1..Len(doc) : place[i + 1] = place[i] + Len(ServiceLines(doc[i]))
  /\ Len(File(doc)) = place[Len(doc) + 1] + 2
  /\ \A i \in 1..Len(doc) : \A j \in 1..Len(ServiceLines(doc[i])) :
       File(doc)[place[i] + j] = ServiceLines(doc[i])[j]
  /\ \A j \in 1..2 : File(doc)[place[Len(doc) + 1] + j] = Mark("other")

LEMMA FilePlaced ==
  ASSUME NEW doc \in Documents
  PROVE  /\ Len(doc) \in Nat /\ DOMAIN doc = 1..Len(doc)
         /\ \A i \in 1..Len(doc) : WellFormed(doc[i])
         /\ \E S : File(doc) \in Seq(S)
         /\ \E place : Placed(place, doc)
<1> DEFINE n == Len(doc)
           S == {Mark("other")} \cup UNION {LinesOf(doc[i]) : i \in 1..n}
           V == Seq(S)
           x == <<Mark("other"), Mark("other"), Mark("other")>>
           y == <<Mark("other"), Mark("other")>>
           sl == [i \in DOMAIN doc |-> ServiceLines(doc[i])]
           s == <<x>> \o sl \o <<y>>
<1>1. n \in Nat /\ DOMAIN doc = 1..n
  BY DocumentsAssumption, LenProperties DEF IsText
<1>2. \A i \in 1..n : WellFormed(doc[i])
  BY <1>1, DocumentsAssumption DEF WellFormed, IsText
<1>3. \A i \in 1..n : ServiceLines(doc[i]) \in V
  <2>1. ASSUME NEW i \in 1..n PROVE ServiceLines(doc[i]) \in V
    <3>1. ServiceLines(doc[i]) \in Seq(LinesOf(doc[i]))
      BY <1>2, ServiceLayout
    <3>2. LinesOf(doc[i]) \subseteq S
      OBVIOUS
    <3> HIDE DEF S
    <3>3. QED
      BY <3>1, <3>2, SeqMonotonic
  <2>2. QED
    BY <2>1
<1>4. /\ x \in V /\ Len(x) = 3 /\ y \in V /\ Len(y) = 2 /\ \A j \in 1..2 : y[j] = Mark("other")
  <2> DEFINE o == Mark("other")
  <2>1. o \in S
    OBVIOUS
  <2> HIDE DEF S, o
  <2>2. /\ <<o, o, o>> \in Seq(S) /\ Len(<<o, o, o>>) = 3
    BY <2>1
  <2>3. <<o, o>> \in Seq(S) /\ Len(<<o, o>>) = 2 /\ \A j \in 1..2 : <<o, o>>[j] = o
    BY <2>1
  <2>4. QED
    BY <2>2, <2>3 DEF o
<1> HIDE DEF S
<1>5. sl \in Seq(V) /\ Len(sl) = n /\ \A i \in 1..n : sl[i] = ServiceLines(doc[i])
  <2>1. sl \in [1..n -> V] /\ \A i \in 1..n : sl[i] = ServiceLines(doc[i])
    <3> HIDE DEF n, V
    <3>1. QED
      BY <1>1, <1>3
  <2> HIDE DEF sl
  <2>2. sl \in Seq(V) /\ Len(sl) = n
    <3> HIDE DEF n, V
    <3>1. QED
      BY <1>1, <2>1
  <2>3. QED
    BY <2>1, <2>2
<1> HIDE DEF x, y, sl
<1>6. s \in Seq(V) /\ Fenced(s, x, sl, y)
  <2> HIDE DEF V
  <2>1. QED
    BY <1>4, <1>5, FencedAt, Zenon
<1>7. File(doc) = FlattenSeq(s)
  BY DEF File, s, x, y, sl
<1> HIDE DEF s
<1>8. /\ Len(s) = n + 2 /\ s[1] = x /\ s[n + 2] = y
      /\ \A i \in 1..n : s[1 + i] = ServiceLines(doc[i])
  BY <1>5, <1>6 DEF Fenced
<1>9. /\ FlattenSeq(s) \in Seq(S)
      /\ \E start :
           /\ Points(start, s)
           /\ Len(FlattenSeq(s)) = start[Len(s) + 1]
           /\ \A i \in 1..Len(s) : \A j \in 1..Len(s[i]) :
                /\ start[i] + j \in 1..Len(FlattenSeq(s))
                /\ FlattenSeq(s)[start[i] + j] = s[i][j]
  BY <1>6, FlattenPoints
<1>10. PICK start :
         /\ start \in [1..(n + 2) + 1 -> Nat] /\ start[1] = 0
         /\ \A i \in 1..n + 2 : start[i + 1] = start[i] + Len(s[i])
         /\ Len(File(doc)) = start[(n + 2) + 1]
         /\ \A i \in 1..n + 2 : \A j \in 1..Len(s[i]) : File(doc)[start[i] + j] = s[i][j]
  <2>1. PICK start :
         /\ Points(start, s) /\ Len(FlattenSeq(s)) = start[Len(s) + 1]
         /\ \A i \in 1..Len(s) : \A j \in 1..Len(s[i]) :
              /\ start[i] + j \in 1..Len(FlattenSeq(s))
              /\ FlattenSeq(s)[start[i] + j] = s[i][j]
    BY <1>9
  <2>2. /\ start \in [1..(n + 2) + 1 -> Nat] /\ start[1] = 0
        /\ \A i \in 1..n + 2 : start[i + 1] = start[i] + Len(s[i])
    BY <1>8, <2>1 DEF Points
  <2>3. Len(File(doc)) = start[(n + 2) + 1]
    BY <1>7, <1>8, <2>1
  <2>4. \A i \in 1..n + 2 : \A j \in 1..Len(s[i]) : File(doc)[start[i] + j] = s[i][j]
    BY <1>7, <1>8, <2>1
  <2>5. QED
    BY <2>2, <2>3, <2>4
<1> DEFINE place == [i \in 1..n + 1 |-> start[i + 1]]
<1> HIDE DEF n, V
<1>11. place \in [1..n + 1 -> Nat] /\ \A i \in 1..n + 1 : place[i] = start[i + 1]
  <2>1. \A i \in 1..n + 1 : i + 1 \in 1..(n + 2) + 1
    BY <1>1
  <2>2. QED
    BY <1>10, <2>1
<1> HIDE DEF place
<1>12. place[1] = 3
  <2>1. 1 \in 1..n + 2 /\ 1 \in 1..n + 1 /\ 1 + 1 = 2 /\ 0 + 3 = 3
    BY <1>1
  <2>2. start[1 + 1] = start[1] + Len(s[1])
    BY <1>10, <2>1
  <2>3. start[1 + 1] = 3
    BY <1>4, <1>8, <1>10, <2>1, <2>2
  <2>4. QED
    BY <1>11, <2>1, <2>3
<1>13. ASSUME NEW i \in 1..n PROVE place[i + 1] = place[i] + Len(ServiceLines(doc[i]))
  <2>1. i + 1 \in 1..n + 2 /\ i + 1 \in 1..n + 1 /\ i \in 1..n + 1 /\ i + 1 = 1 + i
    BY <1>1
  <2>2. start[(i + 1) + 1] = start[i + 1] + Len(s[i + 1])
    BY <1>10, <2>1
  <2>3. s[i + 1] = ServiceLines(doc[i])
    BY <1>8, <2>1
  <2>4. place[i + 1] = start[(i + 1) + 1] /\ place[i] = start[i + 1]
    BY <1>11, <2>1
  <2>5. QED
    BY <2>2, <2>3, <2>4
<1>14. Len(File(doc)) = place[n + 1] + 2
  <2>1. n + 2 \in 1..n + 2 /\ n + 1 \in 1..n + 1 /\ (n + 1) + 1 = n + 2
    BY <1>1
  <2>2. start[(n + 2) + 1] = start[n + 2] + Len(s[n + 2])
    BY <1>10, <2>1
  <2>3. place[n + 1] = start[n + 2]
    BY <1>11, <2>1
  <2>4. QED
    BY <1>4, <1>8, <1>10, <2>2, <2>3
<1>15. ASSUME NEW i \in 1..n, NEW j \in 1..Len(ServiceLines(doc[i]))
       PROVE  File(doc)[place[i] + j] = ServiceLines(doc[i])[j]
  <2>1. i + 1 \in 1..n + 2 /\ i \in 1..n + 1 /\ i + 1 = 1 + i
    BY <1>1
  <2>2. s[i + 1] = ServiceLines(doc[i]) /\ place[i] = start[i + 1]
    BY <1>8, <1>11, <2>1
  <2>3. QED
    BY <1>10, <2>1, <2>2
<1>16. ASSUME NEW j \in 1..2 PROVE File(doc)[place[n + 1] + j] = Mark("other")
  <2>1. n + 2 \in 1..n + 2 /\ n + 1 \in 1..n + 1 /\ (n + 1) + 1 = n + 2
    BY <1>1
  <2>2. s[n + 2] = y /\ place[n + 1] = start[n + 2]
    BY <1>8, <1>11, <2>1
  <2>3. j \in 1..Len(s[n + 2]) /\ s[n + 2][j] = Mark("other")
    BY <1>4, <2>2
  <2>4. QED
    BY <1>10, <2>1, <2>2, <2>3
<1>17. Placed(place, doc)
  BY <1>11, <1>12, <1>13, <1>14, <1>15, <1>16 DEF Placed, n
<1>18. File(doc) \in Seq(S)
  BY <1>7, <1>9
<1>19. QED
  BY <1>1, <1>2, <1>17, <1>18 DEF n

-----------------------------------------------------------------------------
\* A sequence, whatever its elements.
IsSequence(s) == Len(s) \in Nat /\ s = [i \in 1..Len(s) |-> s[i]]

\* The first k fields of a service, as they were read.
Agreed(read, said, k) ==
  /\ IsSequence(read) /\ Len(read) = k
  /\ \A i \in 1..k :
       /\ said[i].name # <<>> => read[i].name = GetAttribute(said[i].name)
       /\ said[i].type # Unstated => read[i].type = said[i].type
       /\ said[i].required # Unstated => read[i].required = (said[i].required = "true")
       /\ read[i].type \in Types
       /\ "]" \notin Range(said[i].name)

\* All of them, or those in front of the first with a ] in its name.
Kept(read, said) ==
  \E k \in 0..Len(said) :
    Agreed(read, said, k) /\ (k < Len(said) => "]" \in Range(said[k + 1].name))

\* What the parser knows of service s, with its lines L, when it has read j of
\* them: a text is read, or its line is still to come.  Of the fields and of the
\* mail the rest may be skipped, the loop of the service being back.
Shape ==
  /\ m = [texts |-> m.texts, secure |-> m.secure, fields |-> m.fields, mail |-> m.mail]
  /\ m.texts = [k \in Keys |-> m.texts[k]]
  /\ m.mail = [k \in MailKeys |-> m.mail[k]]
LoopAt(s, b, c, d, j) ==
  \/ loop = "fields" /\ b < j /\ j < c
  \/ loop = "email" /\ c < j /\ j < d
  \/ loop = "service" /\ (c < j /\ j < d => Braced(s.mail))
TextsRead(L, s, a, j) ==
  \A k \in Keys : \/ m.texts[k] = Read(k, s.texts[k])
                  \/ m.texts[k] = <<>> /\ \E i \in 3..a : j < i /\ L[i].key = k
SecureRead(s, b, j) ==
  /\ m.secure \in BOOLEAN
  /\ (s.secure \/ j < b) => m.secure
  /\ (~s.secure /\ b <= j) => ~m.secure
FieldsRead(s, b, c, j) ==
  /\ j <= b => m.fields = <<>>
  /\ c <= j \/ (b < j /\ loop = "service") => Kept(m.fields, s.fields)
  /\ loop = "fields" => Agreed(params, s.fields, j - b - 1)
MailRead(L, s, c, d, j) ==
  \A k \in MailKeys :
    \/ m.mail[k] = GetValue(s.mail[k])
    \/ m.mail[k] = <<>> /\ (Braced(s.mail) \/ \E i \in c + 2..d - 1 : j < i /\ L[i].key = k)
InService(L, s, a, b, c, d, j) ==
  /\ Shape /\ LoopAt(s, b, c, d, j) /\ (2 <= j => uri = s.uri)
  /\ TextsRead(L, s, a, j) /\ SecureRead(s, b, j)
  /\ FieldsRead(s, b, c, j) /\ MailRead(L, s, c, d, j)

\* What line j + 1 of a service is.
LineAfter(L, s, a, b, c, d, j) ==
  \/ j = 1 /\ L[j + 1] = Line("key", "uri", s.uri)
  \/ /\ 2 <= j /\ j < a
     /\ \E k \in Keys : L[j + 1] = Line("key", k, s.texts[k])
  \/ j = a /\ b = a + 1 /\ ~s.secure /\ L[j + 1] = Line("key", "secure", <<"0">>)
  \/ j = b /\ b < c /\ L[j + 1] = Mark("fields")
  \/ /\ b < j /\ j + 1 < c /\ j - b \in 1..Len(s.fields)
     /\ L[j + 1] = FieldLine(s.fields[j - b])
  \/ /\ b < j /\ j + 1 = c /\ c = b + Len(s.fields) + 2 /\ L[j + 1] = Mark("]")
  \/ j = c /\ c + 2 <= d /\ L[j + 1] = Mark("email")
  \/ /\ c < j /\ j + 1 < d
     /\ \E k \in MailKeys : L[j + 1] = Line("mail", k, s.mail[k])
  \/ c < j /\ j + 1 = d /\ L[j + 1] = Mark("}}}")
  \/ j = d /\ L[j + 1] = Mark("}")

LEMMA NextLine ==
  ASSUME NEW L, NEW s, NEW a \in Nat, NEW b \in Nat, NEW c \in Nat, NEW d \in Nat,
         Layout(L, s, a, b, c, d), NEW j \in 1..d, Len(s.fields) \in Nat
  PROVE  LineAfter(L, s, a, b, c, d, j)
<1> USE DEF LineAfter
<1>1. 2 <= a /\ a <= b /\ b <= c /\ c <= d /\ (b = a \/ b = a + 1)
  BY DEF Layout
<1>2. \/ j = 1 \/ (2 <= j /\ j < a) \/ (j = a /\ b = a + 1)
      \/ (j = b /\ b < c) \/ (b < j /\ j < c)
      \/ (j = c /\ c < d) \/ (c < j /\ j < d) \/ j = d
  BY <1>1
<1>3. CASE j = 1
  <2>1. j + 1 = 2
    BY <1>3
  <2>2. QED
    BY <1>3, <2>1 DEF Layout
<1>4. CASE 2 <= j /\ j < a
  <2>1. j + 1 \in 3..a
    BY <1>4
  <2>2. QED
    BY <1>4, <2>1 DEF Layout
<1>5. CASE j = a /\ b = a + 1
  <2>1. j + 1 = b /\ ~(b = a)
    BY <1>5
  <2>2. QED
    BY <1>5, <2>1 DEF Layout
<1>6. ASSUME b < c
      PROVE  /\ c = b + Len(s.fields) + 2 /\ L[b + 1] = Mark("fields") /\ L[c] = Mark("]")
             /\ \A i \in 1..Len(s.fields) : L[b + 1 + i] = FieldLine(s.fields[i])
  <2>1. ~(c = b)
    BY <1>6
  <2>2. QED
    BY <2>1 DEF Layout
<1>7. ASSUME c < d
      PROVE  /\ c + 2 <= d /\ L[c + 1] = Mark("email") /\ L[d] = Mark("}}}")
             /\ \A i \in c + 2..d - 1 : \E k \in MailKeys : L[i] = Line("mail", k, s.mail[k])
  <2>1. ~(d = c)
    BY <1>7
  <2>2. QED
    BY <2>1 DEF Layout
<1>8. CASE j = b /\ b < c
  BY <1>6, <1>8
<1>9. CASE b < j /\ j < c
  <2>1. PICK f \in Nat : f = Len(s.fields)
    OBVIOUS
  <2>2. b < c
    BY <1>9
  <2>3. c = b + f + 2
    BY <1>6, <2>1, <2>2
  <2>4. CASE j + 1 < c
    <3>1. j - b \in 1..f /\ b + 1 + (j - b) = j + 1
      BY <1>9, <2>3, <2>4
    <3>2. L[b + 1 + (j - b)] = FieldLine(s.fields[j - b])
      BY <1>6, <2>1, <2>2, <3>1
    <3>3. QED
      BY <1>9, <2>1, <2>4, <3>1, <3>2
  <2>5. CASE j + 1 = c
    BY <1>6, <1>9, <2>2, <2>5
  <2>6. j + 1 < c \/ j + 1 = c
    BY <1>9
  <2>7. QED
    BY <2>4, <2>5, <2>6
<1>10. CASE j = c /\ c < d
  BY <1>7, <1>10
<1>11. CASE c < j /\ j < d
  <2>1. c < d
    BY <1>11
  <2>2. CASE j + 1 < d
    <3>1. j + 1 \in c + 2..d - 1
      BY <1>11, <2>2
    <3>2. QED
      BY <1>7, <1>11, <2>1, <2>2, <3>1
  <2>3. CASE j + 1 = d
    BY <1>7, <1>11, <2>1, <2>3
  <2>4. j + 1 < d \/ j + 1 = d
    BY <1>11
  <2>5. QED
    BY <2>2, <2>3, <2>4
<1>12. CASE j = d
  <2>1. L[d + 1] = Mark("}")
    BY DEF Layout
  <2>2. QED
    BY <1>12, <2>1
<1>13. QED
  BY <1>2, <1>3, <1>4, <1>5, <1>8, <1>9, <1>10, <1>11, <1>12

-----------------------------------------------------------------------------
(* What a line does to the service that is read. *)

\* Which loop reads a line, and what it does with it.
LEMMA LoopReads ==
  ASSUME Parse, todo # <<>>
  PROVE  /\ loop = "file" => ReadTop
         /\ loop = "service" /\ Current.is = "key" => ReadKey
         /\ loop = "service" /\ Current.is \in {"field", "]", "mail", "}}}"} => SkipLine
         /\ loop = "service" /\ Current.is \in {"fields", "email"} => EnterLoop
         /\ loop = "service" /\ Current.is = "}" => EndService
         /\ loop = "fields" /\ ~FieldsEnd => ReadField
         /\ loop = "fields" /\ FieldsEnd => EndFields
         /\ loop = "email" => ReadMail
BY DEF Parse, GetLine, ReadTop, ReadKey, SkipLine, EnterLoop, EndService, ReadField, EndFields,
       ReadMail, EndOfFile

LEMMA MarkLine ==
  ASSUME NEW is
  PROVE  Mark(is).is = is /\ Mark(is).key = ""
BY DEF Mark, Line

LEMMA KeyLine ==
  ASSUME NEW is, NEW k, NEW t
  PROVE  Line(is, k, t).is = is /\ Line(is, k, t).key = k /\ Line(is, k, t).text = t
BY DEF Line

LEMMA GetEmpty == GetAttribute(<<>>) = <<>> /\ GetValue(<<>>) = <<>>
<1>1. GetAttribute(<<>>) = <<>>
  BY DEF GetAttribute
<1>2. Trim(<<>>) = <<>>
  BY DEF Trim
<1>3. QED
  BY <1>1, <1>2 DEF GetValue

LEMMA ReadEmpty ==
  ASSUME NEW k
  PROVE  Read(k, <<>>) = <<>>
<1>1. GetNames(<<>>) = <<>>
  BY DEF GetNames
<1>2. QED
  BY <1>1, GetEmpty DEF Read

\* A text without quotes is taken whole.
LEMMA GetUnquoted ==
  ASSUME NEW t, "\"" \notin Range(t)
  PROVE  GetAttribute(t) = t
<1>1. {i \in DOMAIN t : t[i] = "\""} = {}
  BY DEF Range
<1>2. QED
  BY <1>1 DEF GetAttribute

LEMMA GetPlain ==
  ASSUME NEW t, PlainText(t)
  PROVE  GetValue(t) = t
BY GetUnquoted DEF PlainText, GetValue

LEMMA OneOnly == 1..1 = {1}
OBVIOUS

\* A text of one character that is no blank is not trimmed.
LEMMA OneWord ==
  ASSUME NEW c, c # " "
  PROVE  Trim(<<c>>) = <<c>>
<1> DEFINE q == <<c>>
<1>1. q \in Seq({c}) /\ Len(q) = 1 /\ DOMAIN q = {1} /\ q[1] = c
  <2>1. q \in Seq({c}) /\ Len(q) = 1 /\ q[1] = c
    BY OneLine
  <2>2. DOMAIN q = 1..Len(q)
    <3> HIDE DEF q
    <3>1. QED
      BY <2>1, LenProperties
  <2>3. DOMAIN q = {1}
    <3> HIDE DEF q
    <3>1. DOMAIN q = 1..1
      BY <2>1, <2>2
    <3>2. QED
      BY <3>1, OneOnly
  <2>4. QED
    BY <2>1, <2>3
<1> HIDE DEF q
<1>2. ~(\A i \in DOMAIN q : q[i] = " ")
  BY <1>1
<1>3. \E a, b \in DOMAIN q : Trim(q) = SubSeq(q, a, b)
  BY <1>1, <1>2, TrimTakesOffBlanks
<1>4. Trim(q) = SubSeq(q, 1, Len(q))
  BY <1>1, <1>3
<1>5. SubSeq(q, 1, Len(q)) = q
  BY <1>1, SubSeqFull
<1>6. QED
  BY <1>4, <1>5 DEF q

LEMMA GetZero == GetValue(<<"0">>) = <<"0">>
<1> DEFINE q == <<"0">>
<1>1. DOMAIN q = {1} /\ q[1] = "0" /\ "0" # "\"" /\ "0" # " "
  OBVIOUS
<1>2. Trim(q) = q
  BY <1>1, OneWord
<1> HIDE DEF q
<1>3. "\"" \notin Range(q)
  BY <1>1 DEF Range
<1>4. QED
  BY <1>2, <1>3, GetPlain DEF PlainText, q

\* A service without fields has none.
LEMMA KeptNone ==
  ASSUME NEW said, said = <<>>
  PROVE  Kept(<<>>, said)
<1>1. Len(said) = 0 /\ IsSequence(<<>>) /\ Len(<<>>) = 0 /\ 0 \in 0..0 /\ 1..0 = {} /\ ~(0 < 0)
  BY DEF IsSequence
<1>2. Agreed(<<>>, said, 0)
  BY <1>1 DEF Agreed
<1>3. QED
  BY <1>1, <1>2 DEF Kept

\* The lines before the fields of a service.
LEMMA KeyStep ==
  ASSUME NEW L, NEW s, NEW a \in Nat, NEW b \in Nat, NEW c \in Nat, NEW d \in Nat,
         Layout(L, s, a, b, c, d), NEW j \in 1..d, Len(s.fields) \in Nat, s.secure \in BOOLEAN, GetValue(s.uri) = s.uri,
         InService(L, s, a, b, c, d, j), todo # <<>>, Current = L[j + 1], Parse, j < b
  PROVE  InService(L, s, a, b, c, d, j + 1)' /\ services' = services
<1>1. 2 <= a /\ a <= b /\ b <= c /\ c <= d /\ (b = a \/ b = a + 1)
  BY DEF Layout
<1>2. loop = "service" /\ ~(j = d) /\ ~(c <= j) /\ j < c
  BY <1>1 DEF InService, LoopAt
<1>a. ~(c < j + 1 /\ j + 1 < d) /\ ~(j + 1 > c) /\ ~(b < j + 1)
  BY <1>1
<1>3. \/ j = 1 /\ Current = Line("key", "uri", s.uri)
      \/ /\ 2 <= j /\ j < a
         /\ \E k \in Keys : Current = Line("key", k, s.texts[k])
      \/ j = a /\ b = a + 1 /\ ~s.secure /\ Current = Line("key", "secure", <<"0">>)
  <2>1. ~(j = b) /\ ~(b < j) /\ ~(j = c) /\ ~(c < j) /\ ~(j = d)
    BY <1>1, <1>2
  <2>2. LineAfter(L, s, a, b, c, d, j)
    BY NextLine
  <2>3. QED
    BY <2>1, <2>2 DEF LineAfter
<1>4. Current.is = "key"
  BY <1>3, KeyLine
<1>5. /\ uri' = IF Current.key = "uri" THEN GetValue(Current.text) ELSE uri
      /\ m' = CASE Current.key = "secure" -> [m EXCEPT !.secure = GetValue(Current.text) # <<"0">>]
                [] Current.key \in Keys ->
                     [m EXCEPT !.texts[Current.key] = Read(Current.key, Current.text)]
                [] OTHER -> m
      /\ UNCHANGED <<loop, carried, params, services>>
  BY <1>2, <1>4, LoopReads DEF ReadKey
<1>6. Shape /\ TextsRead(L, s, a, j) /\ SecureRead(s, b, j) /\ FieldsRead(s, b, c, j)
      /\ MailRead(L, s, c, d, j) /\ (2 <= j => uri = s.uri)
  BY DEF InService
<1>7. LoopAt(s, b, c, d, j + 1)' /\ loop' = "service"
  BY <1>2, <1>5, <1>a DEF LoopAt
<1>8. ASSUME m'.fields = m.fields PROVE FieldsRead(s, b, c, j + 1)'
  <2>1. m'.fields = <<>>
    BY <1>2, <1>6, <1>8 DEF FieldsRead
  <2>2. ASSUME c <= j + 1 PROVE Kept(m'.fields, s.fields)
    <3>1. c = b /\ ~(c = b + Len(s.fields) + 2)
      BY <1>1, <2>2
    <3>2. s.fields = <<>>
      BY <3>1 DEF Layout
    <3>3. QED
      BY <2>1, <3>2, KeptNone
  <2>3. QED
    BY <1>7, <1>a, <2>1, <2>2 DEF FieldsRead
<1>9. ASSUME m'.mail = m.mail PROVE MailRead(L, s, c, d, j + 1)'
  <2>1. \A i \in c + 2..d - 1 : j + 1 < i
    BY <1>1
  <2>2. QED
    BY <1>6, <1>9, <2>1 DEF MailRead
<1>10. CASE j = 1 /\ Current = Line("key", "uri", s.uri)
  <2>1. Current.key = "uri" /\ Current.text = s.uri /\ "uri" # "secure" /\ "uri" \notin Keys
    BY <1>10, KeyLine DEF Keys, ValueKeys, ListKeys
  <2>2. m' = m /\ uri' = s.uri
    BY <1>5, <2>1
  <2>3. Shape'
    BY <1>6, <2>2 DEF Shape
  <2>4. \A i \in 3..a : j + 1 < i
    BY <1>10
  <2>5. TextsRead(L, s, a, j + 1)'
    BY <1>6, <2>2, <2>4 DEF TextsRead
  <2>6. SecureRead(s, b, j + 1)'
    <3>1. b <= j + 1 => b = a /\ ~(b = a + 1)
      BY <1>1, <1>10
    <3>2. b <= j + 1 => s.secure
      BY <3>1 DEF Layout
    <3>3. QED
      BY <1>2, <1>6, <2>2, <3>2 DEF SecureRead
  <2>7. QED
    BY <1>5, <1>7, <1>8, <1>9, <2>2, <2>3, <2>5, <2>6 DEF InService
<1>11. CASE 2 <= j /\ j < a /\ \E k \in Keys : Current = Line("key", k, s.texts[k])
  <2>1. PICK k \in Keys : Current = Line("key", k, s.texts[k])
    BY <1>11
  <2>2. Current.key = k /\ Current.text = s.texts[k] /\ k # "uri" /\ k # "secure"
    BY <2>1, KeyLine DEF Keys, ValueKeys, ListKeys
  <2>3. m' = [m EXCEPT !.texts[k] = Read(k, s.texts[k])] /\ uri' = uri
    BY <1>5, <2>2
  <2>4. /\ m'.texts = [m.texts EXCEPT ![k] = Read(k, s.texts[k])]
        /\ m'.secure = m.secure /\ m'.fields = m.fields /\ m'.mail = m.mail
        /\ m' = [texts |-> m'.texts, secure |-> m'.secure, fields |-> m'.fields, mail |-> m'.mail]
    BY <1>6, <2>3 DEF Shape
  <2>5. /\ m'.texts = [x \in Keys |-> m'.texts[x]] /\ m'.texts[k] = Read(k, s.texts[k])
        /\ \A x \in Keys : x # k => m'.texts[x] = m.texts[x]
    BY <1>6, <2>4 DEF Shape
  <2>6. Shape'
    BY <1>6, <2>4, <2>5 DEF Shape
  <2>7. TextsRead(L, s, a, j + 1)'
    <3>1. ASSUME NEW x \in Keys, x # k
          PROVE  \/ m'.texts[x] = Read(x, s.texts[x])
                 \/ m'.texts[x] = <<>> /\ \E i \in 3..a : j + 1 < i /\ L[i].key = x
      <4>1. CASE m.texts[x] = Read(x, s.texts[x])
        BY <2>5, <3>1, <4>1
      <4>2. CASE m.texts[x] = <<>> /\ \E i \in 3..a : j < i /\ L[i].key = x
        <5>1. PICK i \in 3..a : j < i /\ L[i].key = x
          BY <4>2
        <5>2. i # j + 1
          BY <2>2, <3>1, <5>1
        <5>3. j + 1 < i
          BY <5>1, <5>2
        <5>4. QED
          BY <2>5, <3>1, <4>2, <5>1, <5>3
      <4>3. QED
        BY <1>6, <4>1, <4>2 DEF TextsRead
    <3>2. QED
      BY <2>5, <3>1 DEF TextsRead
  <2>8. SecureRead(s, b, j + 1)'
    <3>1. b <= j + 1 => b = a /\ ~(b = a + 1)
      BY <1>1, <1>11
    <3>2. b <= j + 1 => s.secure
      BY <3>1 DEF Layout
    <3>3. QED
      BY <1>2, <1>6, <2>4, <3>2 DEF SecureRead
  <2>9. uri' = s.uri
    BY <1>6, <1>11, <2>3
  <2>10. QED
    BY <1>5, <1>7, <1>8, <1>9, <2>4, <2>6, <2>7, <2>8, <2>9 DEF InService
<1>12. CASE j = a /\ b = a + 1 /\ ~s.secure /\ Current = Line("key", "secure", <<"0">>)
  <2>1. /\ Current.key = "secure" /\ Current.text = <<"0">> /\ "uri" # "secure"
        /\ "secure" \notin Keys
    BY <1>12, KeyLine DEF Keys, ValueKeys, ListKeys
  <2>a. (GetValue(Current.text) # <<"0">>) = FALSE
    BY <2>1, GetZero
  <2>2. m' = [m EXCEPT !.secure = FALSE] /\ uri' = uri
    BY <1>5, <2>1, <2>a
  <2>3. /\ m'.texts = m.texts /\ m'.secure = FALSE /\ m'.fields = m.fields /\ m'.mail = m.mail
        /\ m' = [texts |-> m'.texts, secure |-> m'.secure, fields |-> m'.fields, mail |-> m'.mail]
    BY <1>6, <2>2 DEF Shape
  <2>4. Shape'
    BY <1>6, <2>3 DEF Shape
  <2>5. TextsRead(L, s, a, j + 1)'
    <3>1. \A i \in 3..a : ~(j < i)
      BY <1>12
    <3>2. QED
      BY <1>6, <2>3, <3>1 DEF TextsRead
  <2>6. SecureRead(s, b, j + 1)'
    <3>1. ~(j + 1 < b)
      BY <1>12
    <3>2. QED
      BY <1>12, <2>3, <3>1 DEF SecureRead
  <2>7. uri' = s.uri
    BY <1>1, <1>6, <1>12, <2>2
  <2>8. QED
    BY <1>5, <1>7, <1>8, <1>9, <2>3, <2>4, <2>5, <2>6, <2>7 DEF InService
<1>13. QED
  BY <1>3, <1>10, <1>11, <1>12

LEMMA SequenceOfSeq ==
  ASSUME NEW S, NEW s \in Seq(S)
  PROVE  IsSequence(s)
<1>1. Len(s) \in Nat /\ s \in [1..Len(s) -> S]
  BY LenProperties
<1>2. QED
  BY <1>1 DEF IsSequence

LEMMA AppendIsSequence ==
  ASSUME NEW s, IsSequence(s), NEW e
  PROVE  /\ IsSequence(Append(s, e)) /\ Len(Append(s, e)) = Len(s) + 1
         /\ Append(s, e)[Len(s) + 1] = e /\ \A i \in 1..Len(s) : Append(s, e)[i] = s[i]
<1> DEFINE S == {s[i] : i \in 1..Len(s)} \cup {e}
           n == Len(s)
<1>1. n \in Nat /\ s = [i \in 1..n |-> s[i]]
  BY DEF IsSequence
<1>2. s \in Seq(S)
  <2>1. \A i \in 1..n : s[i] \in S
    OBVIOUS
  <2>2. s \in [1..n -> S]
    BY <1>1, <2>1
  <2>3. QED
    BY <1>1, <2>2
<1>3. e \in S
  OBVIOUS
<1> HIDE DEF S
<1>4. /\ Append(s, e) \in Seq(S) /\ Len(Append(s, e)) = Len(s) + 1
      /\ \A i \in 1..Len(s) : Append(s, e)[i] = s[i]
      /\ Append(s, e)[Len(s) + 1] = e
  BY <1>2, <1>3, AppendProperties
<1>5. QED
  BY <1>4, SequenceOfSeq

FieldAgrees(f, said) ==
  /\ said.name # <<>> => f.name = GetAttribute(said.name)
  /\ said.type # Unstated => f.type = said.type
  /\ said.required # Unstated => f.required = (said.required = "true")
  /\ f.type \in Types
  /\ "]" \notin Range(said.name)

LEMMA AgreedAppend ==
  ASSUME NEW k \in Nat, NEW read, NEW said, Agreed(read, said, k), NEW e,
         FieldAgrees(e, said[k + 1])
  PROVE  Agreed(Append(read, e), said, k + 1)
<1> DEFINE new == Append(read, e)
<1>1. /\ IsSequence(new) /\ Len(new) = k + 1 /\ new[k + 1] = e
      /\ \A i \in 1..k : new[i] = read[i]
  BY AppendIsSequence DEF Agreed
<1> HIDE DEF new
<1>2. ASSUME NEW i \in 1..k + 1 PROVE FieldAgrees(new[i], said[i])
  <2>1. CASE i = k + 1
    BY <1>1, <2>1
  <2>2. CASE i # k + 1
    <3>1. i \in 1..k
      BY <2>2
    <3>2. FieldAgrees(read[i], said[i])
      BY <3>1 DEF Agreed, FieldAgrees
    <3>3. QED
      BY <1>1, <3>1, <3>2
  <2>3. QED
    BY <2>1, <2>2
<1>3. QED
  BY <1>1, <1>2 DEF Agreed, FieldAgrees, new

\* The field that is read from a line agrees with what the line says.
LEMMA FieldRead ==
  ASSUME NEW said, Current = FieldLine(said), Field.type \in Types, ~FieldsEnd
  PROVE  FieldAgrees([Field EXCEPT !.required = @ = "true"], said)
<1> DEFINE f == [Field EXCEPT !.required = @ = "true"]
<1>1. Current.name = said.name /\ Current.type = said.type /\ Current.required = said.required
  BY DEF FieldLine
<1>2. /\ Field.name = IF said.name = <<>> THEN carried.name ELSE GetAttribute(said.name)
      /\ Field.type = IF said.type = Unstated THEN carried.type ELSE said.type
      /\ Field.required = IF said.required = Unstated THEN carried.required ELSE said.required
      /\ Field = [name |-> Field.name, type |-> Field.type, required |-> Field.required]
  BY <1>1 DEF Field
<1>3. f.name = Field.name /\ f.type = Field.type /\ f.required = (Field.required = "true")
  BY <1>2
<1> HIDE DEF f
<1>4. FieldAgrees(f, said)
  BY <1>1, <1>2, <1>3 DEF FieldAgrees, FieldsEnd
<1>5. QED
  BY <1>4 DEF f

LEMMA FieldLineIs ==
  ASSUME NEW f
  PROVE  FieldLine(f).is = "field" /\ FieldLine(f).name = f.name
BY DEF FieldLine

\* The fields of a service.
LEMMA FieldsStep ==
  ASSUME NEW L, NEW s, NEW a \in Nat, NEW b \in Nat, NEW c \in Nat, NEW d \in Nat,
         Layout(L, s, a, b, c, d), NEW j \in 1..d, Len(s.fields) \in Nat, s.secure \in BOOLEAN,
         InService(L, s, a, b, c, d, j), todo # <<>>, Current = L[j + 1], Parse,
         b <= j, j < c
  PROVE  /\ services' = services
         /\ loop' = "aborted" \/ InService(L, s, a, b, c, d, j + 1)'
<1>1. 2 <= a /\ a <= b /\ b <= c /\ c <= d
  BY DEF Layout
<1>2. PICK f \in Nat : f = Len(s.fields)
  OBVIOUS
<1>3. c = b + f + 2
  <2>1. b < c /\ ~(c = b)
    OBVIOUS
  <2>2. QED
    BY <1>2, <2>1 DEF Layout
<1>4. \/ j = b /\ Current = Mark("fields")
      \/ b < j /\ j + 1 < c /\ j - b \in 1..f /\ Current = FieldLine(s.fields[j - b])
      \/ b < j /\ j + 1 = c /\ Current = Mark("]")
  <2>1. /\ ~(j = 1 /\ L[j + 1] = Line("key", "uri", s.uri)) /\ ~(j < a) /\ ~(j = a /\ b = a + 1)
        /\ ~(j = c) /\ ~(c < j) /\ ~(j = d)
    BY <1>1
  <2>2. LineAfter(L, s, a, b, c, d, j)
    BY NextLine
  <2>3. QED
    BY <1>2, <2>1, <2>2 DEF LineAfter
<1>5. Shape /\ TextsRead(L, s, a, j) /\ SecureRead(s, b, j) /\ FieldsRead(s, b, c, j)
      /\ MailRead(L, s, c, d, j) /\ LoopAt(s, b, c, d, j) /\ uri = s.uri
  <2>1. 2 <= j
    BY <1>1
  <2>2. QED
    BY <2>1 DEF InService
<1>6. ASSUME m'.texts = m.texts PROVE TextsRead(L, s, a, j + 1)'
  <2>1. \A i \in 3..a : ~(j < i)
    BY <1>1
  <2>2. QED
    BY <1>5, <1>6, <2>1 DEF TextsRead
<1>7. ASSUME m'.secure = m.secure PROVE SecureRead(s, b, j + 1)'
  <2>1. ~(j < b) /\ ~(j + 1 < b) /\ b <= j + 1
    OBVIOUS
  <2>2. QED
    BY <1>5, <1>7, <2>1 DEF SecureRead
<1>8. ASSUME m'.mail = m.mail PROVE MailRead(L, s, c, d, j + 1)'
  <2>1. \A i \in c + 2..d - 1 : j + 1 < i
    BY <1>1
  <2>2. QED
    BY <1>5, <1>8, <2>1 DEF MailRead
<1>a. ASSUME b < j, loop = "service", SkipLine
      PROVE  services' = services /\ InService(L, s, a, b, c, d, j + 1)'
  <2>1. UNCHANGED <<loop, uri, m, services>>
    BY <1>a DEF SkipLine
  <2>2. LoopAt(s, b, c, d, j + 1)'
    <3>1. ~(c < j + 1)
      OBVIOUS
    <3>2. QED
      BY <1>a, <2>1, <3>1 DEF LoopAt
  <2>3. FieldsRead(s, b, c, j + 1)'
    <3>1. Kept(m.fields, s.fields) /\ ~(j + 1 <= b)
      BY <1>5, <1>a DEF FieldsRead
    <3>2. QED
      BY <1>a, <2>1, <3>1 DEF FieldsRead
  <2>4. Shape'
    BY <1>5, <2>1 DEF Shape
  <2>5. QED
    BY <1>5, <1>6, <1>7, <1>8, <2>1, <2>2, <2>3, <2>4 DEF InService
<1>b. ASSUME NEW k \in Nat, k + 1 = j - b, k <= f, k < f => "]" \in Range(s.fields[k + 1].name),
             b < j, loop = "fields", EndFields
      PROVE  services' = services /\ InService(L, s, a, b, c, d, j + 1)'
  <2>1. loop' = "service" /\ m' = [m EXCEPT !.fields = params] /\ UNCHANGED <<uri, services>>
    BY <1>b DEF EndFields
  <2>2. /\ m'.texts = m.texts /\ m'.secure = m.secure /\ m'.fields = params /\ m'.mail = m.mail
        /\ m' = [texts |-> m'.texts, secure |-> m'.secure, fields |-> m'.fields, mail |-> m'.mail]
    BY <1>5, <2>1 DEF Shape
  <2>3. LoopAt(s, b, c, d, j + 1)'
    <3>1. ~(c < j + 1)
      OBVIOUS
    <3>2. QED
      BY <2>1, <3>1 DEF LoopAt
  <2>4. Kept(params, s.fields)
    <3>1. j - b - 1 = k /\ k \in 0..f
      BY <1>b
    <3>2. Agreed(params, s.fields, k)
      BY <1>5, <1>b, <3>1 DEF FieldsRead
    <3>3. QED
      BY <1>2, <1>b, <3>1, <3>2 DEF Kept
  <2>5. FieldsRead(s, b, c, j + 1)'
    <3>1. ~(j + 1 <= b)
      BY <1>b
    <3>2. QED
      BY <2>1, <2>2, <2>4, <3>1 DEF FieldsRead
  <2>6. Shape'
    BY <1>5, <2>2 DEF Shape
  <2>7. QED
    BY <1>5, <1>6, <1>7, <1>8, <2>1, <2>2, <2>3, <2>5, <2>6 DEF InService
<1>c. loop = "fields" \/ loop = "service"
  <2>1. ~(c < j)
    OBVIOUS
  <2>2. QED
    BY <1>5, <2>1 DEF LoopAt
<1>9. CASE j = b /\ Current = Mark("fields")
  <2>1. loop = "service"
    <3>1. ~(b < j) /\ ~(c < j)
      BY <1>9
    <3>2. QED
      BY <1>5, <3>1 DEF LoopAt
  <2>2. Current.is = "fields"
    BY <1>9, MarkLine
  <2>3. /\ loop' = "fields" /\ params' = <<>> /\ UNCHANGED <<uri, m, services>>
    BY <2>1, <2>2, LoopReads DEF EnterLoop
  <2>4. b < j + 1 /\ j + 1 < c /\ ~(c <= j + 1) /\ ~(j + 1 <= b) /\ (j + 1) - b - 1 = 0
    BY <1>3, <1>9
  <2>5. LoopAt(s, b, c, d, j + 1)'
    BY <2>3, <2>4 DEF LoopAt
  <2>6. FieldsRead(s, b, c, j + 1)'
    <3>1. Agreed(params', s.fields, 0)
      BY <2>3 DEF Agreed, IsSequence
    <3>2. QED
      BY <2>3, <2>4, <3>1 DEF FieldsRead
  <2>7. Shape'
    BY <1>5, <2>3 DEF Shape
  <2>8. QED
    BY <1>5, <1>6, <1>7, <1>8, <2>3, <2>5, <2>6, <2>7 DEF InService
<1>10. CASE b < j /\ j + 1 < c /\ j - b \in 1..f /\ Current = FieldLine(s.fields[j - b])
  <2>1. Current.is = "field" /\ Current.name = s.fields[j - b].name
    BY <1>10, FieldLineIs
  <2>2. PICK k \in Nat : k = j - b - 1 /\ k + 1 = j - b /\ k < f
    <3>1. j - b - 1 \in Nat /\ (j - b - 1) + 1 = j - b /\ j - b - 1 < f
      BY <1>10
    <3>2. QED
      BY <3>1
  <2>3. CASE loop = "service"
    <3>1. SkipLine
      BY <2>1, <2>3, LoopReads
    <3>2. QED
      BY <1>10, <1>a, <2>3, <3>1
  <2>4. CASE loop = "fields" /\ FieldsEnd
    <3>1. EndFields
      BY <2>4, LoopReads
    <3>2. "]" \in Range(s.fields[k + 1].name)
      BY <2>1, <2>2, <2>4 DEF FieldsEnd
    <3>3. k <= f
      BY <2>2
    <3>4. QED
      BY <1>10, <1>b, <2>2, <2>4, <3>1, <3>2, <3>3
  <2>5. CASE loop = "fields" /\ ~FieldsEnd /\ loop' = "aborted"
    <3>1. ReadField
      BY <2>5, LoopReads
    <3>2. QED
      BY <2>5, <3>1 DEF ReadField
  <2>6. CASE loop = "fields" /\ ~FieldsEnd /\ loop' # "aborted"
    <3>1. /\ Field.type \in Types /\ loop' = "fields" /\ UNCHANGED <<uri, m, services>>
          /\ params' = Append(params, [Field EXCEPT !.required = @ = "true"])
      BY <2>6, LoopReads DEF ReadField
    <3>2. Agreed(params, s.fields, k)
      BY <1>5, <2>2, <2>6 DEF FieldsRead
    <3> DEFINE e == [Field EXCEPT !.required = @ = "true"]
    <3>3. FieldAgrees(e, s.fields[k + 1])
      BY <1>10, <2>2, <2>6, <3>1, FieldRead
    <3> HIDE DEF e
    <3>4. Agreed(params', s.fields, k + 1)
      <4>1. Agreed(Append(params, e), s.fields, k + 1)
        BY <3>2, <3>3, AgreedAppend
      <4>2. QED
        BY <3>1, <4>1 DEF e
    <3>5. (j + 1) - b - 1 = k + 1 /\ b < j + 1 /\ ~(c <= j + 1) /\ ~(j + 1 <= b)
      BY <1>10, <2>2
    <3>6. LoopAt(s, b, c, d, j + 1)'
      BY <1>10, <3>1, <3>5 DEF LoopAt
    <3>7. FieldsRead(s, b, c, j + 1)'
      BY <3>1, <3>4, <3>5 DEF FieldsRead
    <3>8. Shape'
      BY <1>5, <3>1 DEF Shape
    <3>9. QED
      BY <1>5, <1>6, <1>7, <1>8, <3>1, <3>6, <3>7, <3>8 DEF InService
  <2>7. QED
    BY <1>c, <2>3, <2>4, <2>5, <2>6
<1>11. CASE b < j /\ j + 1 = c /\ Current = Mark("]")
  <2>1. Current.is = "]" /\ FieldsEnd
    BY <1>11, MarkLine DEF FieldsEnd
  <2>2. CASE loop = "service"
    <3>1. SkipLine
      BY <2>1, <2>2, LoopReads
    <3>2. QED
      BY <1>11, <1>a, <2>2, <3>1
  <2>3. CASE loop = "fields"
    <3>1. EndFields
      BY <2>1, <2>3, LoopReads
    <3>2. f + 1 = j - b /\ f <= f /\ ~(f < f)
      BY <1>3, <1>11
    <3>3. QED
      BY <1>11, <1>b, <2>3, <3>1, <3>2
  <2>4. QED
    BY <1>c, <2>2, <2>3
<1>12. QED
  BY <1>4, <1>9, <1>10, <1>11

\* The mail of a service.
LEMMA MailStep ==
  ASSUME NEW L, NEW s, NEW a \in Nat, NEW b \in Nat, NEW c \in Nat, NEW d \in Nat,
         Layout(L, s, a, b, c, d), NEW j \in 1..d, Len(s.fields) \in Nat, s.secure \in BOOLEAN,
         InService(L, s, a, b, c, d, j), todo # <<>>, Current = L[j + 1], Parse,
         c <= j, j < d
  PROVE  InService(L, s, a, b, c, d, j + 1)' /\ services' = services
<1>1. 2 <= a /\ a <= b /\ b <= c /\ c <= d
  BY DEF Layout
<1>2. \/ j = c /\ c + 2 <= d /\ Current = Mark("email")
      \/ c < j /\ j + 1 < d /\ \E k \in MailKeys : Current = Line("mail", k, s.mail[k])
      \/ c < j /\ j + 1 = d /\ Current = Mark("}}}")
  <2>1. /\ ~(j = 1 /\ L[j + 1] = Line("key", "uri", s.uri)) /\ ~(j < a) /\ ~(j = a /\ b = a + 1)
        /\ ~(j = b /\ b < c) /\ ~(j + 1 < c) /\ ~(j + 1 = c) /\ ~(j = d)
    BY <1>1
  <2>2. LineAfter(L, s, a, b, c, d, j)
    BY NextLine
  <2>3. QED
    BY <2>1, <2>2 DEF LineAfter
<1>3. Shape /\ TextsRead(L, s, a, j) /\ SecureRead(s, b, j) /\ FieldsRead(s, b, c, j)
      /\ MailRead(L, s, c, d, j) /\ LoopAt(s, b, c, d, j) /\ uri = s.uri
  <2>1. 2 <= j
    BY <1>1
  <2>2. QED
    BY <2>1 DEF InService
<1>4. ASSUME m'.texts = m.texts PROVE TextsRead(L, s, a, j + 1)'
  <2>1. \A i \in 3..a : ~(j < i)
    BY <1>1
  <2>2. QED
    BY <1>3, <1>4, <2>1 DEF TextsRead
<1>5. ASSUME m'.secure = m.secure PROVE SecureRead(s, b, j + 1)'
  <2>1. ~(j < b) /\ ~(j + 1 < b) /\ b <= j + 1 /\ b <= j
    BY <1>1
  <2>2. QED
    BY <1>3, <1>5, <2>1 DEF SecureRead
<1>6. ASSUME m'.fields = m.fields, loop' # "fields" PROVE FieldsRead(s, b, c, j + 1)'
  <2>1. ~(j + 1 <= b)
    BY <1>1
  <2>2. Kept(m.fields, s.fields)
    BY <1>3 DEF FieldsRead
  <2>3. QED
    BY <1>6, <2>1, <2>2 DEF FieldsRead
<1>a. loop = "service" \/ loop = "email"
  <2>1. ~(j < c)
    OBVIOUS
  <2>2. QED
    BY <1>3, <2>1 DEF LoopAt
<1>b. ASSUME c < j, loop = "service", SkipLine
      PROVE  InService(L, s, a, b, c, d, j + 1)' /\ services' = services
  <2>1. UNCHANGED <<loop, uri, m, services>>
    BY <1>b DEF SkipLine
  <2>2. Braced(s.mail)
    BY <1>3, <1>b DEF LoopAt
  <2>3. LoopAt(s, b, c, d, j + 1)'
    BY <1>b, <2>1, <2>2 DEF LoopAt
  <2>4. MailRead(L, s, c, d, j + 1)'
    BY <1>3, <2>1, <2>2 DEF MailRead
  <2>5. Shape'
    BY <1>3, <2>1 DEF Shape
  <2>6. loop' # "fields"
    BY <1>b, <2>1
  <2>7. QED
    BY <1>3, <1>4, <1>5, <1>6, <2>1, <2>3, <2>4, <2>5, <2>6 DEF InService
<1>7. CASE j = c /\ c + 2 <= d /\ Current = Mark("email")
  <2>1. loop = "service"
    <3>1. ~(j < c) /\ ~(c < j)
      BY <1>7
    <3>2. QED
      BY <1>3, <3>1 DEF LoopAt
  <2>2. Current.is = "email"
    BY <1>7, MarkLine
  <2>3. /\ loop' = "email" /\ UNCHANGED <<uri, m, services>>
    BY <2>1, <2>2, LoopReads DEF EnterLoop
  <2>4. c < j + 1 /\ j + 1 < d
    BY <1>7
  <2>5. LoopAt(s, b, c, d, j + 1)'
    BY <2>3, <2>4 DEF LoopAt
  <2>6. MailRead(L, s, c, d, j + 1)'
    <3>1. \A i \in c + 2..d - 1 : j + 1 < i
      BY <1>7
    <3>2. QED
      BY <1>3, <2>3, <3>1 DEF MailRead
  <2>7. Shape'
    BY <1>3, <2>3 DEF Shape
  <2>8. QED
    BY <1>3, <1>4, <1>5, <1>6, <2>3, <2>5, <2>6, <2>7 DEF InService
<1>8. CASE c < j /\ j + 1 < d /\ \E k \in MailKeys : Current = Line("mail", k, s.mail[k])
  <2>1. PICK k \in MailKeys : Current = Line("mail", k, s.mail[k])
    BY <1>8
  <2>2. Current.is = "mail" /\ Current.key = k /\ Current.text = s.mail[k]
    BY <2>1, KeyLine
  <2>3. CASE loop = "service"
    <3>1. SkipLine
      BY <2>2, <2>3, LoopReads
    <3>2. QED
      BY <1>8, <1>b, <2>3, <3>1
  <2>4. CASE loop = "email"
    <3>1. /\ m' = [m EXCEPT !.mail[k] = GetValue(s.mail[k])]
          /\ loop' = IF MailEnds THEN "service" ELSE "email"
          /\ UNCHANGED <<uri, services>>
      BY <2>2, <2>4, LoopReads DEF ReadMail
    <3>2. MailEnds => Braced(s.mail)
      BY <2>2 DEF MailEnds, Braced
    <3>3. /\ m'.mail = [m.mail EXCEPT ![k] = GetValue(s.mail[k])]
          /\ m'.secure = m.secure /\ m'.fields = m.fields /\ m'.texts = m.texts
          /\ m' = [texts |-> m'.texts, secure |-> m'.secure, fields |-> m'.fields, mail |-> m'.mail]
      BY <1>3, <3>1 DEF Shape
    <3>4. /\ m'.mail = [x \in MailKeys |-> m'.mail[x]] /\ m'.mail[k] = GetValue(s.mail[k])
          /\ \A x \in MailKeys : x # k => m'.mail[x] = m.mail[x]
      BY <1>3, <3>3 DEF Shape
    <3>5. Shape'
      BY <1>3, <3>3, <3>4 DEF Shape
    <3>6. MailRead(L, s, c, d, j + 1)'
      <4>1. ASSUME NEW x \in MailKeys, x # k
            PROVE  \/ m'.mail[x] = GetValue(s.mail[x])
                   \/ /\ m'.mail[x] = <<>>
                      /\ Braced(s.mail) \/ \E i \in c + 2..d - 1 : j + 1 < i /\ L[i].key = x
        <5>1. CASE m.mail[x] = <<>> /\ \E i \in c + 2..d - 1 : j < i /\ L[i].key = x
          <6>1. PICK i \in c + 2..d - 1 : j < i /\ L[i].key = x
            BY <5>1
          <6>2. i # j + 1
            BY <2>2, <4>1, <6>1
          <6>3. j + 1 < i
            BY <6>1, <6>2
          <6>4. QED
            BY <3>4, <4>1, <5>1, <6>1, <6>3
        <5>2. CASE ~(m.mail[x] = <<>> /\ \E i \in c + 2..d - 1 : j < i /\ L[i].key = x)
          BY <1>3, <3>4, <4>1, <5>2 DEF MailRead
        <5>3. QED
          BY <5>1, <5>2
      <4>2. QED
        BY <3>4, <4>1 DEF MailRead
    <3>7. LoopAt(s, b, c, d, j + 1)'
      <4>1. c < j + 1 /\ j + 1 < d
        BY <1>8
      <4>2. QED
        BY <3>1, <3>2, <4>1 DEF LoopAt
    <3>8. loop' # "fields"
      BY <3>1
    <3>9. QED
      BY <1>3, <1>4, <1>5, <1>6, <3>1, <3>3, <3>5, <3>6, <3>7, <3>8 DEF InService
  <2>5. QED
    BY <1>a, <2>3, <2>4
<1>9. CASE c < j /\ j + 1 = d /\ Current = Mark("}}}")
  <2>0. c < j /\ j + 1 = d
    BY <1>9
  <2>1. Current.is = "}}}" /\ Current.key \notin MailKeys
    BY <1>9, MarkLine, MailKeysAssumption DEF Unstated
  <2>2. CASE loop = "service"
    <3>1. SkipLine
      BY <2>1, <2>2, LoopReads
    <3>2. QED
      BY <1>b, <2>0, <2>2, <3>1
  <2>3. CASE loop = "email"
    <3>1. m' = m /\ loop' = "service" /\ UNCHANGED <<uri, services>>
      BY <2>1, <2>3, LoopReads DEF ReadMail, MailEnds
    <3>2. MailRead(L, s, c, d, j + 1)'
      <4>1. \A i \in c + 2..d - 1 : ~(j < i)
        BY <2>0
      <4>2. QED
        BY <1>3, <3>1, <4>1 DEF MailRead
    <3>3. LoopAt(s, b, c, d, j + 1)'
      <4>1. ~(j + 1 < d)
        BY <2>0
      <4>2. QED
        BY <3>1, <4>1 DEF LoopAt
    <3>4. Shape'
      BY <1>3, <3>1 DEF Shape
    <3>5. loop' # "fields"
      BY <3>1
    <3>6. QED
      BY <1>3, <1>4, <1>5, <1>6, <3>1, <3>2, <3>3, <3>4, <3>5 DEF InService
  <2>4. QED
    BY <1>a, <2>2, <2>3
<1>10. QED
  BY <1>2, <1>7, <1>8, <1>9

\* A service as the parser reads it: of its texts what get_value() and get_names()
\* make of them, of its fields and its mail what their loops do not lose.
AsRead(service, s) ==
  /\ \A k \in Keys : service.texts[k] = Read(k, s.texts[k])
  /\ \A k \in MailKeys :
       service.mail[k] = GetValue(s.mail[k]) \/ (service.mail[k] = <<>> /\ Braced(s.mail))
  /\ service.secure = s.secure
  /\ Kept(service.fields, s.fields)

LEMMA ServiceRead ==
  ASSUME NEW L, NEW s, NEW a \in Nat, NEW b \in Nat, NEW c \in Nat, NEW d \in Nat,
         Layout(L, s, a, b, c, d), WellFormed(s), InService(L, s, a, b, c, d, d)
  PROVE  loop = "service" /\ uri = s.uri /\ AsRead(m, s)
<1>0. 2 <= a /\ a <= b /\ b <= c /\ c <= d
  BY DEF Layout
<1>1. a <= d /\ c <= d /\ 2 <= d /\ b <= d /\ ~(d < d) /\ ~(d < c) /\ ~(d < b)
  BY <1>0
<1>2. Shape /\ TextsRead(L, s, a, d) /\ SecureRead(s, b, d) /\ FieldsRead(s, b, c, d)
      /\ MailRead(L, s, c, d, d) /\ LoopAt(s, b, c, d, d) /\ uri = s.uri
  BY <1>1 DEF InService
<1>3. loop = "service"
  BY <1>1, <1>2 DEF LoopAt
<1>4. \A k \in Keys : m.texts[k] = Read(k, s.texts[k])
  <2>1. \A i \in 3..a : ~(d < i)
    BY <1>1
  <2>2. QED
    BY <1>2, <2>1 DEF TextsRead
<1>5. \A k \in MailKeys : m.mail[k] = GetValue(s.mail[k]) \/ (m.mail[k] = <<>> /\ Braced(s.mail))
  <2>1. \A i \in c + 2..d - 1 : ~(d < i)
    BY <1>1
  <2>2. QED
    BY <1>2, <2>1 DEF MailRead
<1>6. m.secure = s.secure
  BY <1>1, <1>2 DEF SecureRead, WellFormed
<1>7. Kept(m.fields, s.fields)
  BY <1>1, <1>2 DEF FieldsRead
<1>8. QED
  BY <1>2, <1>3, <1>4, <1>5, <1>6, <1>7 DEF AsRead

-----------------------------------------------------------------------------
(* The services that are loaded. *)

\* The services of a document that are the first with their path.
FirstOnes(doc, n) == {i \in 1..n : \A j \in 1..i - 1 : doc[j].uri # doc[i].uri}

FieldsTyped(fields) == IsSequence(fields) /\ \A i \in DOMAIN fields : fields[i].type \in Types

LEMMA KeptTyped ==
  ASSUME NEW read, NEW said, Kept(read, said)
  PROVE  FieldsTyped(read)
<1>1. PICK k : Agreed(read, said, k)
  BY DEF Kept
<1>2. DOMAIN read = 1..k
  BY <1>1 DEF Agreed, IsSequence
<1>3. QED
  BY <1>1, <1>2 DEF FieldsTyped, Agreed

\* The first n services of the document are loaded.
Loaded(n) ==
  /\ DOMAIN services = {document[i].uri : i \in FirstOnes(document, n)}
  /\ \A i \in FirstOnes(document, n) : AsRead(services[document[i].uri], document[i])
  /\ \A i \in 1..n : document[i].uri \in DOMAIN services
  /\ \A u \in DOMAIN services : FieldsTyped(services[u].fields)

\* The parser has read n services and j lines of the next one.
Reading(n, place, j, last) ==
  /\ Placed(place, document) /\ last <= Len(File(document))
  /\ todo = SubSeq(File(document), place[n + 1] + j + 1, last)
  /\ \/ loop = "file" /\ (j = 0 \/ n = Len(document))
     \/ /\ n < Len(document)
        /\ \E a, b, c, d \in Nat :
             LET s == document[n + 1]
             IN  /\ Layout(ServiceLines(s), s, a, b, c, d) /\ j \in 1..d
                 /\ InService(ServiceLines(s), s, a, b, c, d, j)

ConfigInv ==
  /\ document \in Documents
  /\ \E n \in 0..Len(document) :
       /\ Loaded(n)
       /\ \/ loop \in {"done", "aborted"}
          \/ \E place : \E j, last \in Nat : Reading(n, place, j, last)

LEMMA FirstOnesNext ==
  ASSUME NEW doc, NEW n \in Nat
  PROVE  /\ (\A j \in 1..n : doc[j].uri # doc[n + 1].uri)
              => FirstOnes(doc, n + 1) = FirstOnes(doc, n) \cup {n + 1}
         /\ ~(\A j \in 1..n : doc[j].uri # doc[n + 1].uri)
              => FirstOnes(doc, n + 1) = FirstOnes(doc, n)
<1> DEFINE First(i) == \A j \in 1..i - 1 : doc[j].uri # doc[i].uri
<1>1. First(n + 1) <=> \A j \in 1..n : doc[j].uri # doc[n + 1].uri
  <2>1. (n + 1) - 1 = n
    OBVIOUS
  <2>2. QED
    BY <2>1
<1>2. FirstOnes(doc, n) = {i \in 1..n : First(i)} /\ FirstOnes(doc, n + 1) = {i \in 1..n + 1 : First(i)}
  BY DEF FirstOnes
<1> HIDE DEF First
<1>3. 1..n + 1 = 1..n \cup {n + 1}
  OBVIOUS
<1> DEFINE A == 1..n
           e == n + 1
<1>4. FirstOnes(doc, n + 1) = {i \in A \cup {e} : First(i)} /\ FirstOnes(doc, n) = {i \in A : First(i)}
  BY <1>2, <1>3
<1> HIDE DEF A, e
<1>5. /\ First(e) => FirstOnes(doc, n + 1) = FirstOnes(doc, n) \cup {e}
      /\ ~First(e) => FirstOnes(doc, n + 1) = FirstOnes(doc, n)
  BY <1>4
<1>6. QED
  BY <1>1, <1>5 DEF e

LEMMA LoadedNext ==
  ASSUME NEW n \in Nat, Loaded(n), EndService, uri = document[n + 1].uri,
         AsRead(m, document[n + 1]), FieldsTyped(m.fields)
  PROVE  Loaded(n + 1)'
<1> DEFINE s == document[n + 1]
           old == FirstOnes(document, n)
           new == FirstOnes(document, n + 1)
           fresh == \A j \in 1..n : document[j].uri # s.uri
<1>1. /\ document' = document
      /\ services' = IF uri \in DOMAIN services THEN services
                     ELSE [u \in DOMAIN services \cup {uri} |-> IF u = uri THEN m ELSE services[u]]
  BY DEF EndService
<1>2. (fresh => new = old \cup {n + 1}) /\ (~fresh => new = old)
  BY FirstOnesNext
<1>3. \A i \in old : i \in 1..n
  BY DEF FirstOnes
<1>4. /\ DOMAIN services = {document[i].uri : i \in old}
      /\ \A i \in old : AsRead(services[document[i].uri], document[i])
      /\ \A i \in 1..n : document[i].uri \in DOMAIN services
      /\ \A u \in DOMAIN services : FieldsTyped(services[u].fields)
  BY DEF Loaded
<1>5. fresh <=> uri \notin DOMAIN services
  BY <1>3, <1>4
<1>6. \A i \in 1..n + 1 : i \in 1..n \/ i = n + 1
  OBVIOUS
<1> HIDE DEF fresh, old, new
<1>7. CASE ~fresh
  <2>1. services' = services /\ new = old
    BY <1>1, <1>2, <1>5, <1>7
  <2>2. \A i \in 1..n + 1 : document[i].uri \in DOMAIN services
    BY <1>4, <1>5, <1>6, <1>7
  <2>3. /\ DOMAIN services' = {document[i].uri : i \in new}
        /\ \A i \in new : AsRead(services'[document[i].uri], document[i])
        /\ \A i \in 1..n + 1 : document[i].uri \in DOMAIN services'
        /\ \A u \in DOMAIN services' : FieldsTyped(services'[u].fields)
    BY <1>4, <2>1, <2>2
  <2>4. QED
    BY <1>1, <2>3 DEF Loaded, new
<1>8. CASE fresh
  <2>1. /\ services' = [u \in DOMAIN services \cup {uri} |-> IF u = uri THEN m ELSE services[u]]
        /\ new = old \cup {n + 1} /\ uri \notin DOMAIN services
    BY <1>1, <1>2, <1>5, <1>8
  <2>2. /\ DOMAIN services' = DOMAIN services \cup {uri} /\ services'[uri] = m
        /\ \A u \in DOMAIN services : services'[u] = services[u]
    BY <2>1
  <2>3. DOMAIN services' = {document[i].uri : i \in new}
    BY <1>4, <2>1, <2>2
  <2>4. \A i \in new : AsRead(services'[document[i].uri], document[i])
    <3>1. ASSUME NEW i \in old PROVE AsRead(services'[document[i].uri], document[i])
      <4>1. document[i].uri \in DOMAIN services
        BY <1>4
      <4>2. QED
        BY <1>4, <2>2, <4>1
    <3>2. AsRead(services'[s.uri], s)
      BY <2>2
    <3>3. QED
      BY <2>1, <3>1, <3>2
  <2>5. \A i \in 1..n + 1 : document[i].uri \in DOMAIN services'
    BY <1>4, <1>6, <2>2
  <2>6. \A u \in DOMAIN services' : FieldsTyped(services'[u].fields)
    BY <1>4, <2>2
  <2>7. QED
    BY <1>1, <2>3, <2>4, <2>5, <2>6 DEF Loaded, new
<1>9. QED
  BY <1>7, <1>8

LEMMA LoadedKept ==
  ASSUME NEW n, Loaded(n), UNCHANGED <<document, services>>
  PROVE  Loaded(n)'
BY DEF Loaded

\* The lines that are left: the first, and those behind it.
LEMMA LeftLines ==
  ASSUME NEW S, NEW F \in Seq(S), NEW p \in Nat \ {0}, NEW last \in Nat, last <= Len(F),
         NEW t, t = SubSeq(F, p, last), t # <<>>
  PROVE  /\ p <= Len(F) /\ Head(t) = F[p] /\ Tail(t) = SubSeq(F, p + 1, last)
<1>1. Len(F) \in Nat
  BY LenProperties
<1>2. p <= last
  <2>1. SUFFICES ASSUME last < p PROVE FALSE
    OBVIOUS
  <2>2. t = <<>>
    BY <2>1, SubSeqEmpty
  <2>3. QED
    BY <2>2
<1>3. p \in 1..Len(F) /\ last \in p..Len(F)
  BY <1>1, <1>2
<1>4. QED
  BY <1>3, HeadTailOfSubSeq

LEMMA ServiceBegins ==
  ASSUME NEW L, NEW s, NEW a \in Nat, NEW b \in Nat, NEW c \in Nat, NEW d \in Nat,
         Layout(L, s, a, b, c, d), loop' = "service", m' = NewService
  PROVE  1 \in 1..d /\ InService(L, s, a, b, c, d, 1)'
<1>0. 2 <= a /\ a <= b /\ b <= c /\ c <= d
  BY DEF Layout
<1>1. 1 <= b /\ 1 < b /\ ~(b <= 1) /\ ~(c < 1) /\ ~(c <= 1) /\ ~(b < 1) /\ ~(2 <= 1) /\ 1 \in 1..d
  BY <1>0
<1>2. /\ m'.texts = [k \in Keys |-> <<>>] /\ m'.mail = [k \in MailKeys |-> <<>>]
      /\ m'.secure = TRUE /\ m'.fields = <<>>
      /\ m' = [texts |-> m'.texts, secure |-> m'.secure, fields |-> m'.fields, mail |-> m'.mail]
  BY DEF NewService
<1>3. Shape'
  BY <1>2 DEF Shape
<1>4. LoopAt(s, b, c, d, 1)'
  BY <1>1 DEF LoopAt
<1>5. TextsRead(L, s, a, 1)'
  <2>1. \A i \in 3..a : 1 < i
    OBVIOUS
  <2>2. \A k \in Keys : s.texts[k] = <<>> \/ \E i \in 3..a : L[i].key = k
    BY DEF Layout
  <2>3. QED
    BY <1>2, <2>1, <2>2, ReadEmpty DEF TextsRead
<1>6. MailRead(L, s, c, d, 1)'
  <2>1. \A i \in c + 2..d - 1 : 1 < i
    OBVIOUS
  <2>2. \A k \in MailKeys : s.mail[k] = <<>> \/ \E i \in c + 2..d - 1 : L[i].key = k
    BY DEF Layout
  <2>3. QED
    BY <1>2, <2>1, <2>2, GetEmpty DEF MailRead
<1>7. SecureRead(s, b, 1)'
  BY <1>1, <1>2 DEF SecureRead
<1>8. FieldsRead(s, b, c, 1)'
  BY <1>1, <1>2 DEF FieldsRead
<1>9. QED
  BY <1>1, <1>3, <1>4, <1>5, <1>6, <1>7, <1>8 DEF InService

LEMMA ConfigInit == ParserInit => ConfigInv
<1> SUFFICES ASSUME ParserInit PROVE ConfigInv
  OBVIOUS
<1>1. document \in Documents /\ loop = "file" /\ services = <<>>
  BY DEF ParserInit
<1>2. PICK last \in 3..Len(File(document)) : todo = SubSeq(File(document), 4, last)
  BY DEF ParserInit
<1>3. /\ Len(document) \in Nat /\ \E S : File(document) \in Seq(S)
      /\ \E place : Placed(place, document)
  BY <1>1, FilePlaced
<1>4. PICK place : Placed(place, document)
  BY <1>3
<1>5. Len(File(document)) \in Nat
  BY <1>3, LenProperties
<1>6. last \in Nat /\ last <= Len(File(document))
  BY <1>5
<1>7. place[0 + 1] + 0 + 1 = 4
  <2>1. 0 + 1 = 1 /\ 3 + 0 + 1 = 4
    OBVIOUS
  <2>2. place[1] = 3
    BY <1>4 DEF Placed
  <2>3. QED
    BY <2>1, <2>2
<1>8. Reading(0, place, 0, last)
  BY <1>1, <1>2, <1>4, <1>6, <1>7 DEF Reading
<1>9. FirstOnes(document, 0) = {} /\ 1..0 = {}
  BY DEF FirstOnes
<1>10. DOMAIN services = {}
  BY <1>1
<1>11. Loaded(0)
  BY <1>9, <1>10 DEF Loaded
<1>12. 0 \in 0..Len(document) /\ 0 \in Nat
  BY <1>3
<1>13. QED
  BY <1>1, <1>6, <1>8, <1>11, <1>12 DEF ConfigInv

\* One line of a service.
LEMMA ServiceLineStep ==
  ASSUME NEW L, NEW s, NEW a \in Nat, NEW b \in Nat, NEW c \in Nat, NEW d \in Nat,
         Layout(L, s, a, b, c, d), NEW j \in 1..d, WellFormed(s),
         InService(L, s, a, b, c, d, j), todo # <<>>, Current = L[j + 1], Parse, j < d
  PROVE  /\ services' = services
         /\ loop' = "aborted" \/ InService(L, s, a, b, c, d, j + 1)'
<1>1. Len(s.fields) \in Nat /\ s.secure \in BOOLEAN /\ GetValue(s.uri) = s.uri
  BY LenProperties, GetPlain DEF WellFormed, PlainText
<1>2. j < b \/ (b <= j /\ j < c) \/ c <= j
  OBVIOUS
<1>3. CASE j < b
  BY <1>1, <1>3, KeyStep
<1>4. CASE b <= j /\ j < c
  BY <1>1, <1>4, FieldsStep
<1>5. CASE c <= j
  BY <1>1, <1>5, MailStep
<1>6. QED
  BY <1>2, <1>3, <1>4, <1>5

\* The last line of a service.
LEMMA ServiceEndStep ==
  ASSUME NEW n \in Nat, NEW L, NEW a \in Nat, NEW b \in Nat, NEW c \in Nat, NEW d \in Nat,
         Layout(L, document[n + 1], a, b, c, d), WellFormed(document[n + 1]),
         InService(L, document[n + 1], a, b, c, d, d), todo # <<>>, Current = L[d + 1], Parse,
         Loaded(n)
  PROVE  loop' = "file" /\ Loaded(n + 1)'
<1>1. Current = Mark("}")
  BY DEF Layout
<1>2. /\ loop = "service" /\ uri = document[n + 1].uri /\ AsRead(m, document[n + 1])
      /\ FieldsTyped(m.fields)
  BY ServiceRead, KeptTyped DEF AsRead
<1>3. EndService
  BY <1>1, <1>2, MarkLine, LoopReads
<1>4. QED
  BY <1>2, <1>3, LoadedNext DEF EndService

LEMMA ConfigStep == ASSUME ConfigInv, Parse PROVE ConfigInv'
<1>1. document \in Documents /\ document' = document
  BY DEF ConfigInv, Parse, ReadTop, ReadKey, SkipLine, EnterLoop, EndService, ReadField, EndFields,
         ReadMail, EndOfFile
<1>2. PICK n \in 0..Len(document) :
        /\ Loaded(n)
        /\ \/ loop \in {"done", "aborted"}
           \/ \E place : \E j, last \in Nat : Reading(n, place, j, last)
  BY DEF ConfigInv
<1>3. /\ Len(document) \in Nat /\ \E S : File(document) \in Seq(S)
      /\ \A i \in 1..Len(document) : WellFormed(document[i])
  BY <1>1, FilePlaced
<1>4. n \in Nat /\ n <= Len(document)
  BY <1>3
<1>5. ASSUME services' = services, loop' \in {"done", "aborted"} PROVE ConfigInv'
  <2>1. Loaded(n)'
    BY <1>1, <1>2, <1>5, LoadedKept
  <2>2. QED
    BY <1>1, <1>5, <2>1 DEF ConfigInv
<1>6. loop \notin {"done", "aborted"}
  <2>1. loop \in {"file", "service", "fields", "email"}
    <3>1. ReadTop \/ EndOfFile => loop \in {"file", "fields"}
      BY DEF GetLine, ReadTop, EndOfFile
    <3>2. ReadKey \/ SkipLine \/ EnterLoop \/ EndService => loop = "service"
      BY DEF GetLine, ReadKey, SkipLine, EnterLoop, EndService
    <3>3. ReadField \/ EndFields => loop = "fields"
      BY DEF GetLine, ReadField, EndFields
    <3>4. ReadMail => loop = "email"
      BY DEF GetLine, ReadMail
    <3>5. QED
      BY <3>1, <3>2, <3>3, <3>4 DEF Parse
  <2>2. QED
    BY <2>1
<1>a. PICK place : \E j, last \in Nat : Reading(n, place, j, last)
  BY <1>2, <1>6
<1>7. PICK j \in Nat, last \in Nat : Reading(n, place, j, last)
  BY <1>a
<1>8. CASE todo = <<>>
  <2>1. EndOfFile
    BY <1>8 DEF Parse, GetLine, ReadTop, ReadKey, SkipLine, EnterLoop, EndService, ReadField,
         EndFields, ReadMail
  <2>2. QED
    BY <1>5, <2>1 DEF EndOfFile
<1>9. CASE todo # <<>>
  <2> DEFINE F == File(document)
  <2>1. PICK S : F \in Seq(S)
    BY <1>3
  <2>2. /\ Placed(place, document) /\ last <= Len(F)
        /\ todo = SubSeq(F, place[n + 1] + j + 1, last)
        /\ \/ loop = "file" /\ (j = 0 \/ n = Len(document))
           \/ /\ n < Len(document)
              /\ \E a, b, c, d \in Nat :
                   LET s == document[n + 1]
                   IN  /\ Layout(ServiceLines(s), s, a, b, c, d) /\ j \in 1..d
                       /\ InService(ServiceLines(s), s, a, b, c, d, j)
    BY <1>7 DEF Reading
  <2>3. PICK q \in Nat : q = place[n + 1]
    <3>1. n + 1 \in 1..Len(document) + 1
      BY <1>3, <1>4
    <3>2. QED
      BY <2>2, <3>1 DEF Placed
  <2> HIDE DEF F
  <2>4. PICK p \in Nat \ {0} : p = q + j + 1
    <3>1. q + j + 1 \in Nat \ {0}
      OBVIOUS
    <3>2. QED
      BY <3>1
  <2>5. p <= Len(F) /\ Current = F[p] /\ Tail(todo) = SubSeq(F, p + 1, last)
    <3>1. todo = SubSeq(F, p, last)
      BY <2>2, <2>3, <2>4
    <3>2. last <= Len(F)
      BY <2>2
    <3>4. p <= Len(F) /\ Head(todo) = F[p] /\ Tail(todo) = SubSeq(F, p + 1, last)
      BY <1>9, <2>1, <3>1, <3>2, LeftLines
    <3>3. QED
      BY <3>4 DEF Current
  <2>6. todo' = SubSeq(F, p + 1, last)
    <3>1. todo' = Tail(todo)
      BY <1>9 DEF Parse, GetLine, ReadTop, ReadKey, SkipLine, EnterLoop, EndService, ReadField,
         EndFields, ReadMail, EndOfFile
    <3>2. QED
      BY <2>5, <3>1
  <2>7. p + 1 = q + (j + 1) + 1
    BY <2>4
  <2>8. F' = F
    BY <1>1 DEF F
  <2>9. ASSUME services' = services, loop' = "file", n = Len(document) \/ j + 1 = 0
        PROVE  ConfigInv'
    <3>1. Reading(n, place, j + 1, last)'
      BY <1>1, <2>2, <2>3, <2>6, <2>7, <2>9 DEF Reading, F
    <3>2. Loaded(n)'
      BY <1>1, <1>2, <2>9, LoadedKept
    <3>3. j + 1 \in Nat
      OBVIOUS
    <3>4. QED
      BY <1>1, <3>1, <3>2, <3>3 DEF ConfigInv
  <2>10. ASSUME NEW s, s = document[n + 1], n < Len(document), services' = services,
                NEW a \in Nat, NEW b \in Nat, NEW c \in Nat, NEW d \in Nat,
                Layout(ServiceLines(s), s, a, b, c, d), j + 1 \in 1..d,
                InService(ServiceLines(s), s, a, b, c, d, j + 1)'
         PROVE  ConfigInv'
    <3>1. Reading(n, place, j + 1, last)'
      BY <1>1, <2>2, <2>3, <2>6, <2>7, <2>10 DEF Reading, F
    <3>2. Loaded(n)'
      BY <1>1, <1>2, <2>10, LoadedKept
    <3>3. j + 1 \in Nat
      OBVIOUS
    <3>4. QED
      BY <1>1, <3>1, <3>2, <3>3 DEF ConfigInv
  <2>11. CASE loop = "file" /\ n = Len(document)
    <3>1. ReadTop
      BY <1>9, <2>11, LoopReads
    <3>2. Current = Mark("other")
      <4>1. Len(F) = q + 2 /\ \A i \in 1..2 : F[q + i] = Mark("other")
        BY <2>2, <2>3, <2>11 DEF Placed, F
      <4>2. j + 1 \in 1..2 /\ p = q + (j + 1)
        BY <2>4, <2>5, <4>1
      <4>3. QED
        BY <2>5, <4>1, <4>2
    <3>3. Current.is # "{"
      BY <3>2, MarkLine
    <3>4. services' = services /\ loop' = "file"
      BY <2>11, <3>1, <3>3 DEF ReadTop
    <3>5. QED
      BY <2>9, <2>11, <3>4
  <2>12. ASSUME n < Len(document)
         PROVE  /\ n + 1 \in 1..Len(document) /\ WellFormed(document[n + 1])
                /\ \A i \in 1..Len(ServiceLines(document[n + 1])) :
                     F[q + i] = ServiceLines(document[n + 1])[i]
    <3>1. n + 1 \in 1..Len(document)
      BY <1>3, <1>4, <2>12
    <3>2. QED
      BY <1>3, <2>2, <2>3, <3>1 DEF Placed, F
  <2>13. CASE loop = "file" /\ n < Len(document) /\ j = 0
    <3>1. PICK s : s = document[n + 1]
      OBVIOUS
    <3>2. WellFormed(s)
      BY <2>12, <2>13, <3>1
    <3>3. PICK a \in Nat, b \in Nat, c \in Nat, d \in Nat : Layout(ServiceLines(s), s, a, b, c, d)
      BY <3>2, ServiceLayout
    <3>4. Current = Mark("{")
      <4>1. Len(ServiceLines(s)) = d + 1 /\ ServiceLines(s)[1] = Mark("{")
        BY <3>3 DEF Layout
      <4>2. 1 \in 1..d + 1
        OBVIOUS
      <4>3. F[q + 1] = Mark("{")
        BY <2>12, <2>13, <3>1, <4>1, <4>2
      <4>4. p = q + 1
        BY <2>4, <2>13
      <4>5. QED
        BY <2>5, <4>3, <4>4
    <3>5. ReadTop /\ Current.is = "{"
      BY <1>9, <2>13, <3>4, LoopReads, MarkLine
    <3>6. services' = services /\ loop' = "service" /\ m' = NewService
      BY <3>5 DEF ReadTop
    <3>7. 1 \in 1..d /\ InService(ServiceLines(s), s, a, b, c, d, 1)'
      BY <3>3, <3>6, ServiceBegins
    <3>8. j + 1 = 1
      BY <2>13
    <3>9. QED
      BY <2>10, <2>13, <3>1, <3>3, <3>6, <3>7, <3>8
  <2>14. CASE /\ n < Len(document)
              /\ \E a, b, c, d \in Nat :
                   LET s == document[n + 1]
                   IN  /\ Layout(ServiceLines(s), s, a, b, c, d) /\ j \in 1..d
                       /\ InService(ServiceLines(s), s, a, b, c, d, j)
    <3>1. PICK s : s = document[n + 1]
      OBVIOUS
    <3>2. PICK a \in Nat, b \in Nat, c \in Nat, d \in Nat :
            /\ Layout(ServiceLines(s), s, a, b, c, d) /\ j \in 1..d
            /\ InService(ServiceLines(s), s, a, b, c, d, j)
      BY <2>14, <3>1
    <3>3. WellFormed(s)
      BY <2>12, <2>14, <3>1
    <3> DEFINE L == ServiceLines(s)
    <3>4. Len(L) = d + 1
      BY <3>2 DEF Layout
    <3>5. Current = L[j + 1]
      <4>1. j + 1 \in 1..d + 1 /\ p = q + (j + 1)
        BY <2>4, <3>2
      <4>2. F[q + (j + 1)] = L[j + 1]
        BY <2>12, <2>14, <3>1, <3>4, <4>1
      <4>3. QED
        BY <2>5, <4>1, <4>2
    <3>6. CASE j < d
      <4>1. services' = services /\ (loop' = "aborted" \/ InService(L, s, a, b, c, d, j + 1)')
        <5> HIDE DEF L
        <5>1. Layout(L, s, a, b, c, d) /\ InService(L, s, a, b, c, d, j) /\ j \in 1..d
          BY <3>2 DEF L
        <5>2. QED
          BY <1>9, <3>3, <3>5, <3>6, <5>1, ServiceLineStep
      <4>2. CASE loop' = "aborted"
        BY <1>5, <4>1, <4>2
      <4>3. CASE InService(L, s, a, b, c, d, j + 1)'
        <5>1. j + 1 \in 1..d
          BY <3>2, <3>6
        <5>2. QED
          BY <2>10, <2>14, <3>1, <3>2, <4>1, <4>3, <5>1
      <4>4. QED
        BY <4>1, <4>2, <4>3
    <3>7. CASE j = d
      <4>1. loop' = "file" /\ Loaded(n + 1)'
        <5> HIDE DEF L
        <5>1. Layout(L, s, a, b, c, d) /\ InService(L, s, a, b, c, d, d) /\ Current = L[d + 1]
          BY <3>2, <3>5, <3>7 DEF L
        <5>2. QED
          BY <1>2, <1>4, <1>9, <3>1, <3>3, <5>1, ServiceEndStep
      <4>2. place[(n + 1) + 1] = q + (d + 1)
        BY <2>2, <2>3, <2>12, <2>14, <3>1, <3>4 DEF Placed
      <4>3. p + 1 = q + (d + 1) + 0 + 1
        BY <2>4, <3>7
      <4>4. todo' = SubSeq(F, place[(n + 1) + 1] + 0 + 1, last)
        BY <2>6, <4>2, <4>3
      <4>5. Reading(n + 1, place, 0, last)'
        BY <1>1, <2>2, <4>1, <4>4 DEF Reading, F
      <4>6. n + 1 \in 0..Len(document) /\ 0 \in Nat
        BY <1>3, <1>4, <2>14
      <4>7. QED
        BY <1>1, <4>1, <4>5, <4>6 DEF ConfigInv
    <3>8. j < d \/ j = d
      BY <3>2
    <3>9. QED
      BY <3>6, <3>7, <3>8
  <2>15. (n < Len(document)) \/ n = Len(document)
    BY <1>3, <1>4
  <2>16. QED
    BY <2>2, <2>11, <2>13, <2>14, <2>15
<1>10. QED
  BY <1>8, <1>9

-----------------------------------------------------------------------------
(* From a form to the parameters of its request. *)

\* A form as the client fills it in for a service, and the tokens in it.
ClientForm(S, fields, s) ==
  /\ Tokens(S) /\ {"file1", "a.txt", "document"} \subseteq S
  /\ Len(fields) \in Nat /\ DOMAIN fields = 1..Len(fields)
  /\ \A i \in 1..Len(fields) :
       /\ fields[i].name # <<>> /\ fields[i].name \in Seq(S \ {"&", "=", Quote, "name=", "\n"})
       /\ \A j \in 1..Len(fields) : fields[i].name = fields[j].name => i = j
       /\ IF IsDocument(fields[i]) THEN s[i] # NotSent /\ s[i] \in Seq(S \ {Boundary})
          ELSE s[i] = NotSent \/ s[i] \in Seq(S \ {Boundary, "\n"})
Given(fields, s, k) == {i \in 1..k : s[i] # NotSent}
Entries(fields, s) == {Entry(fields[i], s[i]) : i \in Given(fields, s, Len(fields))}


LEMMA EntriesSent ==
  ASSUME NEW S, NEW fields, NEW s, ClientForm(S, fields, s), NEW f \in Entries(fields, s)
  PROVE  CanBeSent(S, f)
<1>1. PICK i \in Given(fields, s, Len(fields)) : f = Entry(fields[i], s[i])
  BY DEF Entries
<1>2. i \in 1..Len(fields) /\ s[i] # NotSent
  BY DEF Given
<1>3. /\ fields[i].name # <<>> /\ fields[i].name \in Seq(S \ {"&", "=", Quote, "name=", "\n"})
      /\ IF IsDocument(fields[i]) THEN s[i] \in Seq(S \ {Boundary})
         ELSE s[i] \in Seq(S \ {Boundary, "\n"})
  BY <1>2 DEF ClientForm
<1>4. CASE IsDocument(fields[i])
  <2> DEFINE a == <<"file1">>
             b == <<"a.txt">>
             N == S \ {Quote, "name=", "\n"}
             Q == S \ {Quote, "\n"}
             data == s[i]
  <2>1. f = [name |-> a, filename |-> b, data |-> data]
    BY <1>1, <1>4 DEF Entry
  <2>2. "file1" \in N /\ "a.txt" \in Q
    BY DEF ClientForm, Quote
  <2>3. a # <<>> /\ b # <<>>
    OBVIOUS
  <2>4. data \in Seq(S \ {Boundary})
    BY <1>3, <1>4
  <2>5. a \in Seq(N) /\ b \in Seq(Q)
    <3> HIDE DEF N, Q
    <3>1. QED
      BY <2>2
  <2> HIDE DEF a, b, data
  <2>6. f.name = a /\ f.filename = b /\ f.data = data
    BY <2>1
  <2>7. QED
    BY <2>1, <2>3, <2>4, <2>5, <2>6 DEF CanBeSent, N, Q
<1>5. CASE ~IsDocument(fields[i])
  <2> DEFINE a == fields[i].name
             b == <<>>
             N == S \ {Quote, "name=", "\n"}
             M == S \ {"&", "=", Quote, "name=", "\n"}
             O == S \ {Boundary}
             P == S \ {Boundary, "\n"}
             data == s[i]
  <2>1. f = [name |-> a, filename |-> b, data |-> data]
    BY <1>1, <1>5 DEF Entry
  <2>2. a # <<>> /\ a \in Seq(M) /\ M \subseteq N /\ data \in Seq(P) /\ P \subseteq O
    BY <1>3, <1>5
  <2>3. b \in Seq(S \ {Quote, "\n"}) /\ b = <<>>
    OBVIOUS
  <2>4. a \in Seq(N) /\ data \in Seq(O)
    <3> HIDE DEF N, M, O, P, a, data
    <3>1. QED
      BY <2>2, SeqMonotonic
  <2> HIDE DEF a, b, data
  <2>6. f.name = a /\ f.filename = b /\ f.data = data
    BY <2>1
  <2>7. QED
    BY <2>1, <2>2, <2>3, <2>4, <2>6 DEF CanBeSent, N, O, P
<1>6. QED
  BY <1>4, <1>5

\* The part that each field has in its form.
FormOf(fields, s, q) ==
  /\ Form(fields, s) = FlattenSeq(q) /\ Len(q) = Len(fields)
  /\ \A i \in 1..Len(fields) :
       q[i] = IF s[i] = NotSent THEN <<>> ELSE <<Entry(fields[i], s[i])>>
LEMMA FormParts ==
  ASSUME NEW S, NEW fields, NEW s, ClientForm(S, fields, s)
  PROVE  \E q \in Seq(Seq(Entries(fields, s))) : FormOf(fields, s, q)
<1> DEFINE q == [i \in DOMAIN fields |->
                   IF s[i] = NotSent THEN <<>> ELSE <<Entry(fields[i], s[i])>>]
           F == Entries(fields, s)
           n == Len(fields)
<1>1. n \in Nat /\ DOMAIN fields = 1..n
  BY DEF ClientForm
<1>2. \A i \in 1..n : q[i] = IF s[i] = NotSent THEN <<>> ELSE <<Entry(fields[i], s[i])>>
  BY <1>1
<1>3. \A i \in 1..n : q[i] \in Seq(F)
  <2>1. \A i \in 1..n : s[i] # NotSent => Entry(fields[i], s[i]) \in F
    BY DEF Entries, Given
  <2> HIDE DEF F
  <2>2. <<>> \in Seq(F) /\ \A x \in F : <<x>> \in Seq(F)
    OBVIOUS
  <2>3. QED
    BY <1>2, <2>1, <2>2
<1>4. Form(fields, s) = FlattenSeq(q)
  BY DEF Form
<1>5. q \in [1..n -> Seq(F)]
  <2>1. DOMAIN q = 1..n /\ q = [i \in 1..n |-> q[i]]
    BY <1>1
  <2> HIDE DEF q, F
  <2>2. QED
    BY <1>3, <2>1
<1>6. q \in Seq(Seq(F)) /\ Len(q) = n
  <2> HIDE DEF q, F, n
  <2>1. QED
    BY <1>1, <1>5
<1> HIDE DEF q
<1>7. FormOf(fields, s, q)
  BY <1>2, <1>4, <1>6 DEF FormOf
<1>8. QED
  BY <1>6, <1>7

LEMMA FormIs ==
  ASSUME NEW S, NEW fields, NEW s, ClientForm(S, fields, s)
  PROVE  /\ Form(fields, s) \in Seq(Entries(fields, s))
         /\ \A i \in Given(fields, s, Len(fields)) :
              \E p \in 1..Len(Form(fields, s)) : Form(fields, s)[p] = Entry(fields[i], s[i])
<1>0. PICK q \in Seq(Seq(Entries(fields, s))) : FormOf(fields, s, q)
  BY FormParts
<1>1. /\ Form(fields, s) = FlattenSeq(q) /\ Len(q) = Len(fields)
      /\ \A i \in 1..Len(fields) :
           q[i] = IF s[i] = NotSent THEN <<>> ELSE <<Entry(fields[i], s[i])>>
  BY <1>0 DEF FormOf
<1>2. FlattenSeq(q) \in Seq(Entries(fields, s))
  BY FlattenPoints
<1>3. PICK start :
        \A i \in 1..Len(q) : \A j \in 1..Len(q[i]) :
          /\ start[i] + j \in 1..Len(FlattenSeq(q))
          /\ FlattenSeq(q)[start[i] + j] = q[i][j]
  <2> DEFINE F == Entries(fields, s)
  <2>1. q \in Seq(Seq(F))
    OBVIOUS
  <2> HIDE DEF F
  <2>2. \E start :
          /\ Points(start, q)
          /\ Len(FlattenSeq(q)) = start[Len(q) + 1]
          /\ \A i \in 1..Len(q) : \A j \in 1..Len(q[i]) :
               /\ start[i] + j \in 1..Len(FlattenSeq(q))
               /\ FlattenSeq(q)[start[i] + j] = q[i][j]
    BY <2>1, FlattenPoints, Zenon
  <2>3. QED
    BY <2>2
<1>4. ASSUME NEW i \in Given(fields, s, Len(fields))
      PROVE  \E p \in 1..Len(FlattenSeq(q)) : FlattenSeq(q)[p] = Entry(fields[i], s[i])
  <2>1. i \in 1..Len(q) /\ q[i] = <<Entry(fields[i], s[i])>>
    BY <1>1 DEF Given
  <2>2. \A x : Len(<<x>>) = 1 /\ <<x>>[1] = x /\ 1 \in 1..1
    OBVIOUS
  <2>3. 1 \in 1..Len(q[i]) /\ q[i][1] = Entry(fields[i], s[i])
    BY <2>1, <2>2
  <2>4. QED
    BY <1>3, <2>1, <2>3
<1>5. QED
  BY <1>1, <1>2, <1>4

-----------------------------------------------------------------------------
(* What the loop of eof() makes of a form. *)

InTake(taken, save, files) == [params |-> taken, save |-> save, files |-> files]

StillSaves(left, save, f) == left <=> (save /\ ~(f.name = <<"title">> /\ f.data = <<>>))
LEMMA TakeText ==
  ASSUME NEW taken, NEW save \in BOOLEAN, NEW files, NEW f, f.filename = <<>>,
         NEW left \in BOOLEAN, StillSaves(left, save, f)
  PROVE  TakeField(InTake(taken, save, files), f)
         = InTake(Emplace(taken, f.name, f.data), left, files)
<1> DEFINE s == InTake(taken, save, files)
           x == Emplace(taken, f.name, f.data)
           y == save /\ ~(f.name = <<"title">> /\ f.data = <<>>)
<1>1. s.params = taken /\ s.save = save
  BY DEF InTake
<1>2. \A z : [s EXCEPT !.params = z] = InTake(z, save, files)
  BY DEF InTake
<1>3. \A z, v : [InTake(z, save, files) EXCEPT !.save = v] = InTake(z, v, files)
  BY DEF InTake
<1> HIDE DEF s
<1>4. TakeField(s, f)
      = [s EXCEPT !.params = Emplace(@, f.name, f.data),
                  !.save = @ /\ ~(f.name = <<"title">> /\ f.data = <<>>)]
  BY DEF TakeField
<1>5. [s EXCEPT !.params = Emplace(@, f.name, f.data),
                !.save = @ /\ ~(f.name = <<"title">> /\ f.data = <<>>)]
      = [[s EXCEPT !.params = Emplace(s.params, f.name, f.data)]
           EXCEPT !.save = @ /\ ~(f.name = <<"title">> /\ f.data = <<>>)]
  OBVIOUS
<1>6. [s EXCEPT !.params = Emplace(s.params, f.name, f.data)] = InTake(x, save, files)
  BY <1>1, <1>2
<1>7. InTake(x, save, files).save = save
  BY DEF InTake
<1> HIDE DEF x
<1>8. [InTake(x, save, files) EXCEPT !.save = @ /\ ~(f.name = <<"title">> /\ f.data = <<>>)]
      = [InTake(x, save, files) EXCEPT !.save = y]
  <2> DEFINE t == InTake(x, save, files)
  <2>1. t.save = save
    BY <1>7
  <2> HIDE DEF t
  <2>2. [t EXCEPT !.save = @ /\ ~(f.name = <<"title">> /\ f.data = <<>>)]
        = [t EXCEPT !.save = t.save /\ ~(f.name = <<"title">> /\ f.data = <<>>)]
    OBVIOUS
  <2>3. QED
    BY <2>1, <2>2 DEF t
<1>9. y = left
  BY DEF StillSaves
<1> HIDE DEF y
<1>10. TakeField(s, f) = InTake(x, left, files)
  BY <1>3, <1>4, <1>5, <1>6, <1>8, <1>9
<1>11. QED
  BY <1>10 DEF s, x

LEMMA TakeFile ==
  ASSUME NEW taken, NEW save, NEW files, NEW f, f.filename # <<>>
  PROVE  TakeField(InTake(taken, save, files), f)
         = InTake(Emplace(taken, <<"document">>, Uuid), save,
                  IF save THEN Append(files, f.data) ELSE files)
BY DEF TakeField, InTake

\* The parameters are those of the first k fields, and the next file is saved
\* unless a title among them was left empty.
Taken(i, fields, s) == IF IsDocument(fields[i]) THEN Uuid ELSE s[i]
TakenAre(fields, s, k, taken) ==
  /\ DOMAIN taken = {fields[i].name : i \in Given(fields, s, k)}
  /\ \A i \in Given(fields, s, k) : taken[fields[i].name] = Taken(i, fields, s)
TakenOf(fields, s, k, taken, save) ==
  /\ TakenAre(fields, s, k, taken)
  /\ save <=> \A i \in 1..k : fields[i].name = <<"title">> => s[i] # <<>>

LEMMA EmplaceTaken ==
  ASSUME NEW S, NEW fields, NEW s, ClientForm(S, fields, s), NEW k \in Nat, k + 1 <= Len(fields),
         NEW taken, TakenAre(fields, s, k, taken), s[k + 1] # NotSent
  PROVE  TakenAre(fields, s, k + 1,
                  Emplace(taken, fields[k + 1].name, Taken(k + 1, fields, s)))
<1> DEFINE name == fields[k + 1].name
           V(i) == Taken(i, fields, s)
           new == Emplace(taken, name, V(k + 1))
           G == Given(fields, s, k)
<1>1. k + 1 \in 1..Len(fields) /\ \A i \in 1..k : i \in 1..Len(fields) /\ i # k + 1
  BY DEF ClientForm
<1>2. \A i \in G : i \in 1..k /\ fields[i].name # name
  BY <1>1 DEF Given, ClientForm
<1>3. Given(fields, s, k + 1) = G \cup {k + 1}
  <2>1. 1..k + 1 = 1..k \cup {k + 1}
    OBVIOUS
  <2>2. QED
    BY <2>1 DEF Given
<1>4. name \notin DOMAIN taken
  BY <1>2 DEF TakenAre
<1> HIDE DEF name, V, G, new
<1>5. new = [n \in DOMAIN taken \cup {name} |-> IF n = name THEN V(k + 1) ELSE taken[n]]
  <2>1. new = Emplace(taken, name, V(k + 1))
    BY DEF new
  <2>2. QED
    BY <1>4, <2>1 DEF Emplace
<1>6. DOMAIN taken = {fields[i].name : i \in G} /\ \A i \in G : taken[fields[i].name] = V(i)
  BY DEF G, V, TakenAre
<1>7. DOMAIN new = {fields[i].name : i \in G \cup {k + 1}}
  <2>1. DOMAIN new = DOMAIN taken \cup {name}
    BY <1>5
  <2> DEFINE l == k + 1
  <2> HIDE DEF l
  <2>2. {fields[i].name : i \in G \cup {l}} = {fields[i].name : i \in G} \cup {fields[l].name}
    OBVIOUS
  <2>3. QED
    BY <1>6, <2>1, <2>2 DEF name, l
<1>8. ASSUME NEW i \in G \cup {k + 1} PROVE new[fields[i].name] = V(i)
  <2>1. CASE i = k + 1
    BY <1>5, <2>1 DEF name
  <2>2. CASE i \in G
    <3>1. fields[i].name # name /\ fields[i].name \in DOMAIN taken
      BY <1>2, <1>6, <2>2
    <3>2. QED
      BY <1>5, <1>6, <2>2, <3>1
  <2>3. QED
    BY <2>1, <2>2
<1>9. TakenAre(fields, s, k + 1, new)
  BY <1>3, <1>7, <1>8 DEF V, TakenAre
<1>10. QED
  BY <1>9 DEF new, name, V

SavedPart(fields, s, i) ==
  IF IsDocument(fields[i]) /\ \A j \in 1..i - 1 : fields[j].name = <<"title">> => s[j] # <<>>
    THEN <<s[i]>> ELSE <<>>
FormPart(fields, s, i) == IF s[i] = NotSent THEN <<>> ELSE <<Entry(fields[i], s[i])>>
Took(fields, s, k, files, t) ==
  \E taken : \E save \in BOOLEAN : t = InTake(taken, save, files) /\ TakenOf(fields, s, k, taken, save)

LEMMA FieldTaken ==
  ASSUME NEW S, NEW fields, NEW s, ClientForm(S, fields, s), NotSent # <<>>,
         NEW k \in Nat, k + 1 <= Len(fields), NEW files \in Seq(Seq(S)), NEW t,
         Took(fields, s, k, files, t)
  PROVE  \E u : /\ Runs("fields", t, FormPart(fields, s, k + 1), u)
                /\ Took(fields, s, k + 1, files \o SavedPart(fields, s, k + 1), u)
<1>1. PICK taken : \E save \in BOOLEAN :
        t = InTake(taken, save, files) /\ TakenOf(fields, s, k, taken, save)
  BY DEF Took
<1>2. PICK save \in BOOLEAN : t = InTake(taken, save, files) /\ TakenOf(fields, s, k, taken, save)
  BY <1>1
<1> DEFINE l == k + 1
           title == fields[l].name = <<"title">>
<1>3. l \in 1..Len(fields) /\ l - 1 = k /\ 1..l = 1..k \cup {l}
  BY DEF ClientForm
<1>4. /\ TakenAre(fields, s, k, taken)
      /\ save <=> \A i \in 1..k : fields[i].name = <<"title">> => s[i] # <<>>
  BY <1>2 DEF TakenOf
<1>5. files \o <<>> = files
  BY ConcatEmptySeq
<1>6. CASE s[l] = NotSent
  <2>1. FormPart(fields, s, l) = <<>>
    BY <1>6 DEF FormPart
  <2>2. ~IsDocument(fields[l])
    BY <1>3, <1>6 DEF ClientForm
  <2>3. SavedPart(fields, s, l) = <<>>
    BY <2>2 DEF SavedPart
  <2>4. Given(fields, s, l) = Given(fields, s, k)
    BY <1>3, <1>6 DEF Given
  <2>5. TakenOf(fields, s, l, taken, save)
    <3>1. TakenAre(fields, s, l, taken)
      BY <1>4, <2>4 DEF TakenAre
    <3>2. save <=> \A i \in 1..l : fields[i].name = <<"title">> => s[i] # <<>>
      BY <1>3, <1>4, <1>6
    <3>3. QED
      BY <3>1, <3>2 DEF TakenOf
  <2>6. Took(fields, s, l, files, t)
    BY <1>2, <2>5 DEF Took
  <2>7. Runs("fields", t, <<>>, t)
    BY RunsNothing, Zenon
  <2>8. QED
    BY <1>5, <2>1, <2>3, <2>6, <2>7
<1>7. CASE s[l] # NotSent
  <2> DEFINE f == Entry(fields[l], s[l])
             u == TakeField(t, f)
             V == Taken(l, fields, s)
             new == Emplace(taken, fields[l].name, V)
  <2>1. FormPart(fields, s, l) = <<f>>
    BY <1>7 DEF FormPart
  <2>2. Runs("fields", t, <<f>>, u)
    <3>1. Runs("fields", t, <<f>>, StepOf("fields", t, f))
      BY RunsOne, Zenon
    <3>2. StepOf("fields", t, f) = u
      BY DEF StepOf
    <3>3. QED
      BY <3>1, <3>2
  <2>3. TakenAre(fields, s, l, new)
    BY <1>4, <1>7, EmplaceTaken, Zenon
  <2>4. CASE IsDocument(fields[l])
    <3>1. f.filename # <<>> /\ f.data = s[l] /\ fields[l].name = <<"document">> /\ V = Uuid
      BY <2>4 DEF Entry, IsDocument, Taken
    <3> DEFINE saved == IF save THEN Append(files, f.data) ELSE files
    <3>2. u = InTake(Emplace(taken, <<"document">>, Uuid), save, saved)
      <4> HIDE DEF f
      <4>1. QED
        BY <1>2, <3>1, TakeFile
    <3>3. saved = files \o SavedPart(fields, s, l)
      <4>1. s[l] \in Seq(S)
        <5>1. s[l] \in Seq(S \ {Boundary}) /\ S \ {Boundary} \subseteq S
          BY <1>3, <2>4 DEF ClientForm
        <5> DEFINE N == S \ {Boundary}
        <5>2. s[l] \in Seq(N) /\ N \subseteq S
          BY <5>1
        <5> HIDE DEF N
        <5>3. QED
          BY <5>2, SeqMonotonic
      <4>2. Append(files, s[l]) = files \o <<s[l]>>
        BY <4>1, AppendIsConcat
      <4>3. SavedPart(fields, s, l) = IF save THEN <<s[l]>> ELSE <<>>
        BY <1>3, <1>4, <2>4 DEF SavedPart
      <4>4. QED
        BY <1>5, <3>1, <4>2, <4>3
    <3>4. new = Emplace(taken, <<"document">>, Uuid)
      BY <3>1
    <3>5. save <=> \A i \in 1..l : fields[i].name = <<"title">> => s[i] # <<>>
      <4>1. ~title
        BY <3>1
      <4>2. QED
        BY <1>3, <1>4, <4>1
    <3> HIDE DEF new, saved, u, l, f
    <3>6. TakenOf(fields, s, l, new, save)
      BY <2>3, <3>5 DEF TakenOf
    <3>7. Took(fields, s, l, saved, u)
      BY <3>2, <3>4, <3>6 DEF Took
    <3>8. QED
      BY <2>1, <2>2, <3>3, <3>7 DEF l
  <2>5. CASE ~IsDocument(fields[l])
    <3>1. f.filename = <<>> /\ f.data = s[l] /\ f.name = fields[l].name /\ V = s[l]
      BY <2>5 DEF Entry, Taken
    <3>0. PICK left \in BOOLEAN : left <=> (save /\ ~(f.name = <<"title">> /\ f.data = <<>>))
      OBVIOUS
    <3>2. u = InTake(Emplace(taken, f.name, f.data), left, files)
      <4>1. f.filename = <<>>
        BY <3>1
      <4> HIDE DEF f
      <4>2. TakeField(InTake(taken, save, files), f)
            = InTake(Emplace(taken, f.name, f.data), left, files)
        <5>1. StillSaves(left, save, f)
          BY <3>0 DEF StillSaves, f
        <5>2. ASSUME NEW g, g.filename = <<>>, StillSaves(left, save, g)
              PROVE  TakeField(InTake(taken, save, files), g)
                     = InTake(Emplace(taken, g.name, g.data), left, files)
          BY <5>2, TakeText
        <5>3. QED
          BY <4>1, <5>1, <5>2
      <4>3. QED
        BY <1>2, <4>2
    <3>3. new = Emplace(taken, f.name, f.data)
      BY <3>1
    <3>4. left <=> \A i \in 1..l : fields[i].name = <<"title">> => s[i] # <<>>
      BY <1>3, <1>4, <3>0, <3>1
    <3>6. SavedPart(fields, s, l) = <<>>
      BY <2>5 DEF SavedPart
    <3> HIDE DEF new, u, l, f
    <3>7. TakenOf(fields, s, l, new, left)
      BY <2>3, <3>4 DEF TakenOf
    <3>8. Took(fields, s, l, files, u)
      BY <3>2, <3>3, <3>7 DEF Took
    <3>9. QED
      BY <1>5, <2>1, <2>2, <3>6, <3>8 DEF l
  <2>6. QED
    BY <2>4, <2>5
<1>8. QED
  BY <1>6, <1>7

SavedParts(fields, s) == [i \in DOMAIN fields |-> SavedPart(fields, s, i)]

LEMMA SavedPartsAre ==
  ASSUME NEW S, NEW fields, NEW s, ClientForm(S, fields, s)
  PROVE  /\ SavedParts(fields, s) \in Seq(Seq(Seq(S))) /\ Len(SavedParts(fields, s)) = Len(fields)
         /\ \A i \in 1..Len(fields) : SavedParts(fields, s)[i] = SavedPart(fields, s, i)
<1> DEFINE n == Len(fields)
           y == SavedParts(fields, s)
           T == Seq(S)
<1>1. n \in Nat /\ DOMAIN fields = 1..n
  BY DEF ClientForm
<1>2. \A i \in 1..n : y[i] = SavedPart(fields, s, i)
  BY <1>1 DEF SavedParts
<1>3. ASSUME NEW i \in 1..n PROVE SavedPart(fields, s, i) \in Seq(T)
  <2>1. CASE IsDocument(fields[i])
    <3> DEFINE N == S \ {Boundary}
    <3>1. s[i] \in Seq(N) /\ N \subseteq S
      BY <2>1 DEF ClientForm
    <3> HIDE DEF N
    <3>2. s[i] \in T
      BY <3>1, SeqMonotonic
    <3> HIDE DEF T
    <3>3. <<s[i]>> \in Seq(T) /\ <<>> \in Seq(T)
      BY <3>2
    <3>4. QED
      BY <3>3 DEF SavedPart
  <2>2. CASE ~IsDocument(fields[i])
    BY <2>2 DEF SavedPart
  <2>3. QED
    BY <2>1, <2>2
<1>4. y \in [1..n -> Seq(T)]
  <2>1. DOMAIN y = 1..n /\ y = [i \in 1..n |-> y[i]]
    BY <1>1 DEF SavedParts
  <2> HIDE DEF y, T
  <2>2. QED
    BY <1>2, <1>3, <2>1
<1>5. y \in Seq(Seq(T)) /\ Len(y) = n
  <2> HIDE DEF y, T, n
  <2>1. QED
    BY <1>1, <1>4
<1>6. QED
  BY <1>2, <1>5

LEMMA PostTaken ==
  ASSUME NEW S, NEW fields, NEW s, ClientForm(S, fields, s), NotSent # <<>>
  PROVE  /\ TakenAre(fields, s, Len(fields), EofParams(Form(fields, s)).params)
         /\ EofParams(Form(fields, s)).files = FlattenSeq(SavedParts(fields, s))
<1>0. PICK q \in Seq(Seq(Entries(fields, s))) : FormOf(fields, s, q)
  BY FormParts
<1> DEFINE n == Len(fields)
           F == Entries(fields, s)
           y == SavedParts(fields, s)
           T == Seq(S)
<1>1. /\ q \in Seq(Seq(F)) /\ Form(fields, s) = FlattenSeq(q) /\ Len(q) = n
      /\ \A i \in 1..n : q[i] = IF s[i] = NotSent THEN <<>> ELSE <<Entry(fields[i], s[i])>>
  BY <1>0 DEF FormOf
<1>2. y \in Seq(Seq(T)) /\ Len(y) = n /\ \A i \in 1..n : y[i] = SavedPart(fields, s, i)
  BY SavedPartsAre
<1>3. n \in Nat
  BY DEF ClientForm
<1>4. \A i \in 1..n : q[i] = FormPart(fields, s, i)
  BY <1>1 DEF FormPart
<1> HIDE DEF y, F, n
<1>5. PICK g \in [0..Len(q) -> Seq(F)] :
        /\ g[0] = <<>> /\ \A i \in 1..Len(q) : g[i] = g[i - 1] \o q[i]
        /\ FlattenSeq(q) = g[Len(q)]
  BY <1>1, FlattenFcn
<1>6. PICK h \in [0..Len(y) -> Seq(T)] :
        /\ h[0] = <<>> /\ \A i \in 1..Len(y) : h[i] = h[i - 1] \o y[i]
        /\ FlattenSeq(y) = h[Len(y)]
  <2> HIDE DEF T
  <2>1. QED
    BY <1>2, FlattenFcn
<1>7. /\ g[0] = <<>> /\ h[0] = <<>>
      /\ \A i \in 1..n : g[i] = g[i - 1] \o FormPart(fields, s, i)
      /\ \A i \in 1..n : h[i] = h[i - 1] \o SavedPart(fields, s, i)
      /\ \A i \in 0..n : g[i] \in Seq(F) /\ h[i] \in Seq(Seq(S))
      /\ \A i \in 1..n : FormPart(fields, s, i) \in Seq(F)
      /\ Form(fields, s) = g[n] /\ FlattenSeq(y) = h[n]
  <2> HIDE DEF T
  <2>1. \A i \in 1..n : q[i] \in Seq(F)
    BY <1>1, ElementOfSeq
  <2>2. \A i \in 0..n : h[i] \in Seq(T)
    BY <1>2, <1>6
  <2>3. QED
    BY <1>1, <1>2, <1>4, <1>5, <1>6, <2>1, <2>2 DEF T
<1> DEFINE Done(k) == \E t : Runs("fields", NoneTaken, g[k], t) /\ Took(fields, s, k, h[k], t)
           K == {k \in Nat : k <= n => Done(k)}
<1>8. 0 \in K
  <2>1. Runs("fields", NoneTaken, <<>>, NoneTaken)
    BY RunsNothing, Zenon
  <2>2. NoneTaken = InTake(NoParams, TRUE, <<>>)
    BY DEF NoneTaken, InTake
  <2>3. Given(fields, s, 0) = {} /\ 1..0 = {}
    BY DEF Given
  <2>4. TakenAre(fields, s, 0, NoParams)
    BY <2>3 DEF TakenAre, NoParams
  <2>5. TakenOf(fields, s, 0, NoParams, TRUE)
    BY <2>3, <2>4 DEF TakenOf
  <2>6. Took(fields, s, 0, <<>>, NoneTaken)
    BY <2>2, <2>5 DEF Took
  <2>7. Done(0)
    BY <1>7, <2>1, <2>6
  <2>8. QED
    BY <2>7
<1>9. ASSUME NEW k \in Nat, k \in K PROVE k + 1 \in K
  <2>1. SUFFICES ASSUME k + 1 <= n PROVE Done(k + 1)
    <3> HIDE DEF Done
    <3>1. QED
      OBVIOUS
  <2>2. k <= n /\ k + 1 \in 1..n /\ (k + 1) - 1 = k /\ k \in 0..n
    BY <1>3, <2>1
  <2>3. PICK t : Runs("fields", NoneTaken, g[k], t) /\ Took(fields, s, k, h[k], t)
    BY <1>9, <2>2
  <2>4. PICK files \in Seq(Seq(S)) : files = h[k]
    BY <1>7, <2>2
  <2>5. PICK u : /\ Runs("fields", t, FormPart(fields, s, k + 1), u)
                 /\ Took(fields, s, k + 1, files \o SavedPart(fields, s, k + 1), u)
    <3>1. k + 1 <= Len(fields) /\ Took(fields, s, k, files, t)
      BY <2>1, <2>3, <2>4 DEF n
    <3>2. QED
      BY <3>1, FieldTaken
  <2>6. Runs("fields", NoneTaken, g[k] \o FormPart(fields, s, k + 1), u)
    <3>1. g[k] \in Seq(F) /\ FormPart(fields, s, k + 1) \in Seq(F)
      BY <1>7, <2>2
    <3>2. QED
      BY <2>3, <2>5, <3>1, RunsThrough
  <2>7. g[k + 1] = g[k] \o FormPart(fields, s, k + 1)
        /\ h[k + 1] = files \o SavedPart(fields, s, k + 1)
    BY <1>7, <2>2, <2>4
  <2>8. QED
    BY <2>5, <2>6, <2>7
<1>10. Done(n)
  <2> HIDE DEF Done
  <2>1. n \in K
    <3> HIDE DEF K
    <3>1. QED
      BY <1>3, <1>8, <1>9, Induction
  <2>2. n <= n
    BY <1>3
  <2>3. QED
    BY <2>1, <2>2
<1>11. PICK t : Runs("fields", NoneTaken, g[n], t) /\ Took(fields, s, n, h[n], t)
  BY <1>10
<1>12. g[n] \in Seq(F)
  BY <1>3, <1>7
<1>13. EofParams(g[n]) = [params |-> t.params, files |-> t.files]
  BY <1>11, <1>12, EofParamsRuns
<1>14. TakenAre(fields, s, n, t.params) /\ t.files = h[n]
  BY <1>11 DEF Took, InTake, TakenOf
<1>15. EofParams(g[n]).params = t.params /\ EofParams(g[n]).files = t.files
  BY <1>13
<1>16. QED
  BY <1>7, <1>14, <1>15 DEF n, y

LEMMA NothingFlattened ==
  ASSUME NEW S, NEW y \in Seq(Seq(S)), \A i \in 1..Len(y) : y[i] = <<>>
  PROVE  FlattenSeq(y) = <<>>
<1>1. PICK h \in [0..Len(y) -> Seq(S)] :
        /\ h[0] = <<>> /\ \A i \in 1..Len(y) : h[i] = h[i - 1] \o y[i]
        /\ FlattenSeq(y) = h[Len(y)]
  BY FlattenFcn
<1> DEFINE n == Len(y)
           K == {k \in Nat : k <= n => h[k] = <<>>}
<1>2. n \in Nat
  BY LenProperties
<1>3. <<>> \o <<>> = <<>>
  OBVIOUS
<1>4. 0 \in K
  BY <1>1
<1>5. ASSUME NEW k \in Nat, k \in K PROVE k + 1 \in K
  <2>1. SUFFICES ASSUME k + 1 <= n PROVE h[k + 1] = <<>>
    OBVIOUS
  <2>2. k <= n /\ k + 1 \in 1..n /\ (k + 1) - 1 = k
    BY <1>2, <2>1
  <2>3. h[k] = <<>> /\ y[k + 1] = <<>> /\ h[k + 1] = h[k] \o y[k + 1]
    BY <1>1, <1>5, <2>2
  <2>4. QED
    BY <1>3, <2>3
<1>6. n \in K
  <2> HIDE DEF K
  <2>1. QED
    BY <1>2, <1>4, <1>5, Induction
<1>7. QED
  BY <1>1, <1>2, <1>6

LEMMA GetTaken ==
  ASSUME NEW S, NEW fields, NEW s, ClientForm(S, fields, s),
         \A i \in 1..Len(fields) : ~IsDocument(fields[i])
  PROVE  /\ TakenAre(fields, s, Len(fields), ParseQueryString(QueryString(Form(fields, s))))
         /\ FlattenSeq(SavedParts(fields, s)) = <<>>
<1> DEFINE n == Len(fields)
           F == Entries(fields, s)
           y == SavedParts(fields, s)
           form == Form(fields, s)
           taken == ParseQueryString(QueryString(form))
           G == Given(fields, s, n)
<1>1. ASSUME NEW i \in G
      PROVE  /\ Entry(fields[i], s[i]).name = fields[i].name
             /\ Entry(fields[i], s[i]).data = s[i] /\ i \in 1..n
             /\ fields[i].name \in Seq(S \ {"&", "="}) /\ fields[i].name # <<>>
             /\ s[i] \in Seq(S)
  <2>1. i \in 1..n /\ s[i] # NotSent /\ ~IsDocument(fields[i])
    BY DEF Given
  <2> DEFINE M == S \ {"&", "=", Quote, "name=", "\n"}
             N == S \ {"&", "="}
             P == S \ {Boundary, "\n"}
             name == fields[i].name
             data == s[i]
  <2>2. name # <<>> /\ name \in Seq(M) /\ data \in Seq(P) /\ M \subseteq N /\ P \subseteq S
    BY <2>1 DEF ClientForm
  <2>3. name \in Seq(N) /\ data \in Seq(S)
    <3> HIDE DEF M, N, P, name, data
    <3>1. QED
      BY <2>2, SeqMonotonic
  <2>4. Entry(fields[i], s[i]).name = name /\ Entry(fields[i], s[i]).data = data
    BY <2>1 DEF Entry
  <2>5. QED
    BY <2>1, <2>2, <2>3, <2>4
<1>2. F = {Entry(fields[i], s[i]) : i \in G}
  BY DEF Entries
<1>3. \A i, j \in G : fields[i].name = fields[j].name => i = j
  BY <1>1 DEF ClientForm
<1> HIDE DEF G
<1>4. \A f \in F : /\ f.name \in Seq(S \ {"&", "="}) /\ f.name # <<>>
                   /\ f.data \in Seq(S)
  <2> HIDE DEF F
  <2>1. QED
    BY <1>1, <1>2
<1>5. ASSUME NEW f \in F, NEW g \in F, f.name = g.name PROVE f.data = g.data
  <2> HIDE DEF F
  <2>1. PICK i \in G : f = Entry(fields[i], s[i])
    BY <1>2
  <2>2. PICK j \in G : g = Entry(fields[j], s[j])
    BY <1>2
  <2>3. i = j
    BY <1>1, <1>3, <1>5, <2>1, <2>2
  <2>4. QED
    BY <2>1, <2>2, <2>3
<1>6. form \in Seq(F)
  BY FormIs
<1>7. \A i \in G : \E p \in 1..Len(form) : form[p] = Entry(fields[i], s[i])
  BY FormIs DEF G
<1>8. Holds(taken, form, Len(form))
  <2> HIDE DEF form, F
  <2>1. QED
    BY <1>4, <1>5, <1>6, QueryRead
<1>9. \A p \in 1..Len(form) : form[p] \in F
  BY <1>6, ElementOfSeq
<1> HIDE DEF taken, form, F
<1>10. /\ DOMAIN taken = {form[p].name : p \in 1..Len(form)}
       /\ \A p \in 1..Len(form) : taken[form[p].name] = form[p].data
  BY <1>8 DEF Holds
<1>11. ASSUME NEW i \in G
       PROVE  fields[i].name \in DOMAIN taken /\ taken[fields[i].name] = Taken(i, fields, s)
  <2>1. PICK p \in 1..Len(form) : form[p] = Entry(fields[i], s[i])
    BY <1>7
  <2>2. form[p].name = fields[i].name /\ form[p].data = s[i]
    BY <1>1, <2>1
  <2>3. Taken(i, fields, s) = s[i]
    BY <1>1 DEF Taken
  <2>4. QED
    BY <1>10, <2>2, <2>3
<1>12. ASSUME NEW x \in DOMAIN taken PROVE \E i \in G : x = fields[i].name
  <2>1. PICK p \in 1..Len(form) : x = form[p].name
    BY <1>10
  <2>2. PICK i \in G : form[p] = Entry(fields[i], s[i])
    BY <1>2, <1>9
  <2>3. QED
    BY <1>1, <2>1, <2>2
<1>13. TakenAre(fields, s, n, taken)
  <2>1. DOMAIN taken = {fields[i].name : i \in G}
    BY <1>11, <1>12
  <2>2. QED
    BY <1>11, <2>1 DEF TakenAre, G
<1>14. FlattenSeq(y) = <<>>
  <2>1. y \in Seq(Seq(Seq(S))) /\ Len(y) = n /\ \A i \in 1..n : y[i] = SavedPart(fields, s, i)
    BY SavedPartsAre
  <2>2. \A i \in 1..n : SavedPart(fields, s, i) = <<>>
    BY DEF SavedPart
  <2> HIDE DEF y, n
  <2>3. QED
    BY <2>1, <2>2, NothingFlattened
<1>15. QED
  BY <1>13, <1>14 DEF taken, form

\* Whichever way a form comes, it is received as it was filled in.
AsSent(fields, s, got) ==
  /\ TakenAre(fields, s, Len(fields), got.params)
  /\ got.files = FlattenSeq(SavedParts(fields, s))

LEMMA FormReceived ==
  ASSUME NEW S, NEW fields, NEW s, ClientForm(S, fields, s), NotSent # <<>>, NEW got,
         \/ got = EofParams(ParseMultipart(MultipartBody(Form(fields, s))))
         \/ /\ \A i \in DOMAIN fields : ~IsDocument(fields[i])
            /\ got = [params |-> ParseQueryString(QueryString(Form(fields, s))), files |-> <<>>]
  PROVE  AsSent(fields, s, got)
<1> DEFINE form == Form(fields, s)
           F == Entries(fields, s)
<1>1. ParseMultipart(MultipartBody(form)) = form
  <2>1. form \in Seq(F)
    BY FormIs
  <2>2. \A f \in F : CanBeSent(S, f)
    BY EntriesSent
  <2>3. Tokens(S)
    BY DEF ClientForm
  <2> HIDE DEF F, form
  <2>4. QED
    BY <2>1, <2>2, <2>3, MultipartRead
<1>2. CASE got = EofParams(ParseMultipart(MultipartBody(form)))
  <2>1. got = EofParams(form)
    BY <1>1, <1>2
  <2>2. /\ TakenAre(fields, s, Len(fields), EofParams(form).params)
        /\ EofParams(form).files = FlattenSeq(SavedParts(fields, s))
    BY PostTaken
  <2>3. QED
    BY <2>1, <2>2 DEF AsSent
<1>3. CASE /\ \A i \in DOMAIN fields : ~IsDocument(fields[i])
           /\ got = [params |-> ParseQueryString(QueryString(form)), files |-> <<>>]
  <2>1. \A i \in 1..Len(fields) : ~IsDocument(fields[i])
    BY <1>3 DEF ClientForm
  <2>2. /\ TakenAre(fields, s, Len(fields), ParseQueryString(QueryString(form)))
        /\ FlattenSeq(SavedParts(fields, s)) = <<>>
    BY <2>1, GetTaken
  <2>3. got.params = ParseQueryString(QueryString(form)) /\ got.files = <<>>
    BY <1>3
  <2>4. QED
    BY <2>2, <2>3 DEF AsSent
<1>4. QED
  BY <1>2, <1>3

\* Each field of a form has a name and a value that can be sent.
LEMMA FormFilled ==
  ASSUME NEW doc \in Documents, NEW d \in DOMAIN doc, NEW fields,
         Len(fields) \in Nat, DOMAIN fields = 1..Len(fields),
         DOMAIN fields \subseteq DOMAIN doc[d].fields,
         \A i \in DOMAIN fields : doc[d].fields[i].name # <<>> => fields[i].name = doc[d].fields[i].name,
         NEW s \in Filled(fields)
  PROVE  \E S : ClientForm(S, fields, s)
<1> DEFINE n == Len(fields)
           AllNames == UNION {Range(fields[i].name) : i \in 1..n}
           AllData == UNION {Range(s[i]) : i \in 1..n}
           Words == {"form-data", "name=", "file", Quote, "\r", "\n", Boundary, "-", "Content-Type: ",
                     "file1", "a.txt", "document"}
           S == Words \cup AllNames \cup AllData
<1>1. ASSUME NEW i \in 1..n
      PROVE  /\ fields[i].name # <<>>
             /\ fields[i].name \in Seq(Range(fields[i].name) \ {"&", "=", Quote, "name=", "\n"})
             /\ \A j \in 1..n : fields[i].name = fields[j].name => i = j
  <2>1. \A j \in 1..n : /\ doc[d].fields[j].name # <<>>
                        /\ fields[j].name = doc[d].fields[j].name
    BY NamesAssumption
  <2>2. /\ doc[d].fields[i].name \in Seq(Range(doc[d].fields[i].name) \ {"&", "=", Quote, "name=", "\n"})
        /\ \A j \in 1..n : doc[d].fields[j].name = doc[d].fields[i].name => j = i
    BY NamesAssumption
  <2>3. QED
    BY <2>1, <2>2
<1>2. /\ s \in [DOMAIN fields -> Values \cup {NotSent} \cup Contents]
      /\ \A i \in 1..n : s[i] \in IF IsDocument(fields[i]) THEN Contents ELSE Values \cup {NotSent}
  BY DEF Filled
<1>3. \A i \in 1..n : Range(fields[i].name) \subseteq AllNames /\ Range(s[i]) \subseteq AllData
  OBVIOUS
<1>4. Words \subseteq S /\ AllNames \subseteq S /\ AllData \subseteq S
  OBVIOUS
<1> HIDE DEF S, AllNames, AllData
<1>5. Tokens(S) /\ {"file1", "a.txt", "document"} \subseteq S
  BY <1>4 DEF Tokens
<1> HIDE DEF n, Words
<1>6. ASSUME NEW i \in 1..n
      PROVE  fields[i].name \in Seq(S \ {"&", "=", Quote, "name=", "\n"})
  <2> DEFINE X == {"&", "=", Quote, "name=", "\n"}
             name == fields[i].name
             N == Range(name) \ X
             M == S \ X
  <2>1. name \in Seq(N)
    BY <1>1
  <2>2. N \subseteq M
    BY <1>3, <1>4
  <2> HIDE DEF N, M, name
  <2>3. name \in Seq(M)
    BY <2>1, <2>2, SeqMonotonic
  <2>4. QED
    BY <2>3 DEF M, name
<1>7. ASSUME NEW i \in 1..n
      PROVE  IF IsDocument(fields[i]) THEN s[i] # NotSent /\ s[i] \in Seq(S \ {Boundary})
             ELSE s[i] = NotSent \/ s[i] \in Seq(S \ {Boundary, "\n"})
  <2> DEFINE data == s[i]
  <2>1. Range(data) \subseteq S
    BY <1>3, <1>4
  <2>2. CASE IsDocument(fields[i])
    <3> DEFINE N == Range(data) \ {Boundary}
               M == S \ {Boundary}
    <3>1. data \in Contents
      BY <1>2, <2>2
    <3>2. data \in Seq(N) /\ data # NotSent
      <4> HIDE DEF data
      <4>1. QED
        BY <3>1, SentAssumption
    <3>3. N \subseteq M
      BY <2>1
    <3> HIDE DEF N, M, data
    <3>4. data \in Seq(M)
      BY <3>2, <3>3, SeqMonotonic
    <3>5. QED
      BY <2>2, <3>2, <3>4 DEF M, data
  <2>3. CASE ~IsDocument(fields[i]) /\ data # NotSent
    <3> DEFINE N == Range(data) \ {Boundary, "\n"}
               M == S \ {Boundary, "\n"}
    <3>1. data \in Values
      BY <1>2, <2>3
    <3>2. data \in Seq(N)
      <4> HIDE DEF data
      <4>1. QED
        BY <3>1, SentAssumption
    <3>3. N \subseteq M
      BY <2>1
    <3> HIDE DEF N, M, data
    <3>4. data \in Seq(M)
      BY <3>2, <3>3, SeqMonotonic
    <3>5. QED
      BY <2>3, <3>4 DEF M, data
  <2>4. QED
    BY <2>2, <2>3
<1>8. ClientForm(S, fields, s)
  BY <1>1, <1>5, <1>6, <1>7 DEF ClientForm, n
<1>9. QED
  BY <1>8

\* A value that is received belongs to its own field only.
LEMMA SentApart ==
  ASSUME NEW S, NEW fields, NEW s, ClientForm(S, fields, s), NEW got, AsSent(fields, s, got),
         NEW i \in 1..Len(fields)
  PROVE  IF s[i] = NotSent THEN fields[i].name \notin DOMAIN got.params
         ELSE /\ fields[i].name \in DOMAIN got.params
              /\ got.params[fields[i].name] = Taken(i, fields, s)
<1> DEFINE G == Given(fields, s, Len(fields))
           taken == got.params
<1>1. /\ DOMAIN taken = {fields[j].name : j \in G}
      /\ \A j \in G : taken[fields[j].name] = Taken(j, fields, s)
  BY DEF AsSent, TakenAre
<1>2. CASE s[i] = NotSent
  <2>1. ASSUME NEW j \in G PROVE fields[j].name # fields[i].name
    BY <1>2 DEF Given, ClientForm
  <2> HIDE DEF G, taken
  <2>2. fields[i].name \notin DOMAIN taken
    BY <1>1, <2>1
  <2>3. QED
    BY <1>2, <2>2 DEF taken
<1>3. CASE s[i] # NotSent
  <2>1. i \in G
    BY <1>3 DEF Given
  <2> HIDE DEF G, taken
  <2>2. fields[i].name \in DOMAIN taken /\ taken[fields[i].name] = Taken(i, fields, s)
    BY <1>1, <2>1
  <2>3. QED
    BY <1>3, <2>2 DEF taken
<1>4. QED
  BY <1>2, <1>3

\* The form of the request in service, and what was found of it.
FormInv ==
  stage # "none" =>
    /\ \E S : ClientForm(S, Fields, sent)
    /\ AsSent(Fields, sent, received)
    /\ stage = "refused" => \E i \in DOMAIN Fields : BadField(i)
    /\ stage \in {"substitute", "done"} => \A i \in DOMAIN Fields : ~BadField(i)

LEMMA InvForm == FormInv => ParamsAsSent
<1> SUFFICES ASSUME FormInv, stage # "none" PROVE
      /\ \A i \in DOMAIN Fields :
           \/ IsDocument(Fields[i])
           \/ IF sent[i] = NotSent THEN Fields[i].name \notin DOMAIN received.params
              ELSE /\ Fields[i].name \in DOMAIN received.params
                   /\ received.params[Fields[i].name] = sent[i]
      /\ received.files =
           FlattenSeq([f \in DOMAIN Fields |->
             IF /\ IsDocument(Fields[f])
                /\ \A i \in 1..f - 1 : Fields[i].name = <<"title">> => sent[i] # <<>>
               THEN <<sent[f]>> ELSE <<>>])
  BY DEF ParamsAsSent
<1>1. PICK S : ClientForm(S, Fields, sent)
  BY DEF FormInv
<1>2. AsSent(Fields, sent, received)
  BY DEF FormInv
<1>3. DOMAIN Fields = 1..Len(Fields)
  BY <1>1 DEF ClientForm
<1>4. ASSUME NEW i \in DOMAIN Fields
      PROVE  \/ IsDocument(Fields[i])
             \/ IF sent[i] = NotSent THEN Fields[i].name \notin DOMAIN received.params
                ELSE /\ Fields[i].name \in DOMAIN received.params
                     /\ received.params[Fields[i].name] = sent[i]
  <2>1. IF sent[i] = NotSent THEN Fields[i].name \notin DOMAIN received.params
         ELSE /\ Fields[i].name \in DOMAIN received.params
              /\ received.params[Fields[i].name] = Taken(i, Fields, sent)
    BY <1>1, <1>2, <1>3, SentApart
  <2>2. ~IsDocument(Fields[i]) => Taken(i, Fields, sent) = sent[i]
    BY DEF Taken
  <2>3. QED
    BY <2>1, <2>2
<1>5. received.files = FlattenSeq(SavedParts(Fields, sent))
  BY <1>2 DEF AsSent
<1>6. QED
  BY <1>4, <1>5 DEF SavedParts, SavedPart

LEMMA TrimmedIsText ==
  ASSUME NEW S, NEW value \in Seq(S)
  PROVE  Trim(value) \in Seq(S)
<1>1. CASE Trim(value) = <<>>
  BY <1>1
<1>2. CASE \E a, b \in DOMAIN value : a <= b /\ Trim(value) = SubSeq(value, a, b)
  <2>1. PICK a \in DOMAIN value, b \in DOMAIN value : a <= b /\ Trim(value) = SubSeq(value, a, b)
    BY <1>2
  <2>2. a \in 1..Len(value) /\ b \in 1..Len(value) /\ Len(value) \in Nat
    OBVIOUS
  <2>3. SubSeq(value, a, b) \in Seq(S)
    BY <2>2, SubSeqProperties
  <2>4. QED
    BY <2>1, <2>3
<1>3. QED
  BY <1>1, <1>2, TrimTakesOffBlanks

\* What is taken of a text is a text.
LEMMA ValueIsText ==
  ASSUME NEW S, NEW value \in Seq(S)
  PROVE  GetValue(value) \in Seq(S)
<1> DEFINE quotes == {i \in DOMAIN value : value[i] = "\""}
           first == CHOOSE i \in quotes : \A j \in quotes : i <= j
<1>1. GetAttribute(value) \in Seq(S)
  <2>1. CASE quotes = {}
    BY <2>1 DEF GetAttribute
  <2>2. CASE quotes # {}
    <3>1. Len(value) \in Nat /\ DOMAIN value = 1..Len(value)
      BY LenProperties
    <3>2. quotes \in SUBSET Nat /\ quotes \subseteq 1..Len(value)
      <4>1. quotes \subseteq DOMAIN value
        OBVIOUS
      <4> HIDE DEF quotes
      <4>2. QED
        BY <3>1, <4>1
    <3>3. GetAttribute(value) = SubSeq(value, 1, first - 1)
      BY <2>2 DEF GetAttribute
    <3> HIDE DEF quotes
    <3>4. first \in quotes
      BY <2>2, <3>2, FirstPosition
    <3> HIDE DEF first
    <3>5. 1 \in 1..Len(value) + 1 /\ first - 1 \in 1 - 1..Len(value)
      BY <3>1, <3>2, <3>4
    <3>6. SubSeq(value, 1, first - 1) \in Seq(S)
      BY <3>5, SubSeqProperties
    <3>7. QED
      BY <3>3, <3>6
  <2>3. QED
    BY <2>1, <2>2
<1>2. QED
  BY <1>1, TrimmedIsText DEF GetValue

LEMMA UuidHasNoBlanks == Trim(Uuid) = Uuid
<1>1. "uuid" # " "
  OBVIOUS
<1>2. QED
  BY <1>1, OneWord DEF Uuid

\* The value that is validated is the one the field is meant to have.
LEMMA InputMeant ==
  ASSUME FormInv, stage # "none", NEW i \in DOMAIN Fields
  PROVE  \E S : Input(i) \in Seq(S) /\ Input(i) = Meant(i)
<1>1. PICK S : ClientForm(S, Fields, sent)
  BY DEF FormInv
<1>2. AsSent(Fields, sent, received)
  BY DEF FormInv
<1>3. i \in 1..Len(Fields)
  BY <1>1 DEF ClientForm
<1>4. IF sent[i] = NotSent THEN Fields[i].name \notin DOMAIN received.params
      ELSE /\ Fields[i].name \in DOMAIN received.params
           /\ received.params[Fields[i].name] = Taken(i, Fields, sent)
  BY <1>1, <1>2, <1>3, SentApart
<1>5. CASE IsDocument(Fields[i])
  <2>1. sent[i] # NotSent
    BY <1>1, <1>3, <1>5 DEF ClientForm
  <2>2. Input(i) = Trim(Uuid)
    BY <1>4, <1>5, <2>1 DEF Input, Taken
  <2>3. Meant(i) = Uuid
    BY <1>5 DEF Meant
  <2>4. Uuid \in Seq({"uuid"})
    BY DEF Uuid
  <2>5. QED
    BY <2>2, <2>3, <2>4, UuidHasNoBlanks
<1>6. CASE ~IsDocument(Fields[i]) /\ sent[i] = NotSent
  <2>1. Input(i) = <<>> /\ Meant(i) = <<>>
    BY <1>4, <1>6 DEF Input, Meant
  <2>2. <<>> \in Seq(S)
    OBVIOUS
  <2>3. QED
    BY <2>1, <2>2
<1>7. CASE ~IsDocument(Fields[i]) /\ sent[i] # NotSent
  <2>1. Input(i) = Trim(sent[i]) /\ Meant(i) = Trim(sent[i])
    BY <1>4, <1>7 DEF Input, Meant, Taken
  <2>2. sent[i] \in Seq(S \ {Boundary, "\n"})
    BY <1>1, <1>3, <1>7 DEF ClientForm
  <2>3. Trim(sent[i]) \in Seq(S \ {Boundary, "\n"})
    BY <2>2, TrimmedIsText
  <2>4. QED
    BY <2>1, <2>3
<1>8. QED
  BY <1>5, <1>6, <1>7

-----------------------------------------------------------------------------
(* Searching a text that is put together from the template and literals. *)

Threefold(s, a, b) ==
  FlattenSeq(s) = Cut(s, 1, a) \o (Cut(s, a + 1, b) \o Cut(s, b + 1, Len(s)))

LEMMA CutThree ==
  ASSUME NEW S, NEW s \in Seq(Seq(S)), NEW a \in Nat, NEW b \in Nat, a <= b, b <= Len(s)
  PROVE  Threefold(s, a, b)
<1>1. Len(s) \in Nat /\ 1 \in Nat /\ a + 1 \in Nat
  BY LenProperties
<1>2. Cut(s, 1, Len(s)) = Cut(s, 1, a) \o Cut(s, a + 1, Len(s))
  <2>1. 1 <= a + 1 /\ a <= Len(s)
    BY <1>1
  <2>2. SplitAt(s, 1, a, Len(s))
    BY <1>1, <2>1, CutSplit, Zenon
  <2>3. QED
    BY <2>2 DEF SplitAt
<1>3. Cut(s, a + 1, Len(s)) = Cut(s, a + 1, b) \o Cut(s, b + 1, Len(s))
  <2>1. a + 1 <= b + 1
    BY <1>1
  <2>2. SplitAt(s, a + 1, b, Len(s))
    BY <1>1, <2>1, CutSplit, Zenon
  <2>3. QED
    BY <2>2 DEF SplitAt
<1>4. Cut(s, 1, Len(s)) = FlattenSeq(s)
  BY CutWhole
<1>5. QED
  BY <1>2, <1>3, <1>4 DEF Threefold

LEMMA CutEqual ==
  ASSUME NEW s, NEW t, Len(s) = Len(t), NEW a, NEW b,
         \A i \in 1..Len(s) : a <= i /\ i <= b => s[i] = t[i]
  PROVE  Cut(s, a, b) = Cut(t, a, b)
<1>1. Masked(s, a, b) = Masked(t, a, b)
  BY DEF Masked
<1>2. QED
  BY <1>1 DEF Cut

LEMMA PrefixAt ==
  ASSUME NEW S, NEW t \in Seq(S), NEW a \in Seq(S), NEW b \in Seq(S), NEW p,
         IsAt(t, a, p), IsAt(t, b, p), Len(a) <= Len(b)
  PROVE  IsPrefix(a, b)
<1> DEFINE n == Len(a)
           sub == SubSeq(b, 1, n)
<1>1. n \in Nat /\ Len(b) \in Nat
  BY LenProperties
<1>2. SubSeq(a, 1, n) = a
  BY SubSeqFull
<1>3. \A i \in 1..Len(b) : b[i] \in S
  BY ElementOfSeq
<1> HIDE DEF n
<1>4. n \in Int /\ 1 \in Int /\ \A i \in 1..n : i \in 1..Len(b) /\ b[i] \in S
  BY <1>1, <1>3 DEF n
<1>5. /\ sub \in Seq(S) /\ Len(sub) = IF 1 <= n THEN n - 1 + 1 ELSE 0
      /\ \A i \in 1..n - 1 + 1 : sub[i] = b[1 + i - 1]
  BY <1>4, SubSeqProperties
<1> HIDE DEF sub
<1>6. Len(sub) = n /\ \A i \in 1..n : sub[i] = b[i]
  <2>1. n - 1 + 1 = n /\ \A i \in 1..n : 1 + i - 1 = i
    BY <1>1
  <2>2. QED
    BY <1>1, <1>5, <2>1
<1>7. \A i \in 1..n : b[i] = t[p + i - 1] /\ a[i] = t[p + i - 1]
  BY <1>4 DEF IsAt, n
<1>8. sub = a
  BY <1>5, <1>6, <1>7, SeqEqual DEF n
<1>9. QED
  BY <1>2, <1>8 DEF IsPrefix, sub, n

-----------------------------------------------------------------------------
(* Templates. *)

\* What Apart() says of a template and its placeholders.
Template(S, t, marks, k) ==
  /\ k \in Nat /\ DOMAIN marks = 0..k /\ t \in Seq(S)
  /\ \A i \in 0..k :
       /\ marks[i] \in Seq(S) /\ Len(marks[i]) \in Nat /\ 1 <= Len(marks[i]) /\ marks[i][1] = "$"
       /\ \A j \in 1..Len(marks[i]) : marks[i][j] = "$" => j = 1
  /\ \A i, j \in 0..k : i < j => ~IsPrefix(marks[i], marks[j])
  /\ \A p, q \in 1..Len(t), i \in 0..k :
       p < q /\ t[p] = "$" /\ t[q] = "$" => ~IsStrictPrefix(SubSeq(t, p, q - 1), marks[i])

MarkIs(t, marks, k, p) ==
  \A i : i \in MarksAt(t, marks, p) <=> i \in 0..k /\ IsAt(t, marks[i], p)

LEMMA MarksAre ==
  ASSUME NEW S, NEW t, NEW marks, NEW k, Template(S, t, marks, k), NEW p
  PROVE  MarkIs(t, marks, k, p)
<1>1. ASSUME NEW i \in 0..k PROVE p \in Occurrences(t, marks[i]) <=> IsAt(t, marks[i], p)
  <2>1. t \in Seq(S) /\ marks[i] \in Seq(S) /\ marks[i] # <<>>
    BY DEF Template
  <2>2. Occurs(t, marks[i], p)
    BY <2>1, OccurrenceIs, Zenon
  <2>3. QED
    BY <2>2 DEF Occurs
<1>2. \A i : i \in MarksAt(t, marks, p) <=> i \in 0..k /\ p \in Occurrences(t, marks[i])
  BY DEF MarksAt, Template
<1>3. QED
  BY <1>1, <1>2 DEF MarkIs

\* Of the placeholders that begin at a position, sql() looks for the longest first.
FirstMark(t, marks, p, f) ==
  /\ f = Longest(t, marks, p) /\ f \in MarksAt(t, marks, p)
  /\ \A j \in MarksAt(t, marks, p) : f <= j

LEMMA LongestIsFirst ==
  ASSUME NEW S, NEW t, NEW marks, NEW k, Template(S, t, marks, k), NEW p, MarksAt(t, marks, p) # {}
  PROVE  FirstMark(t, marks, p, Longest(t, marks, p))
<1> DEFINE A == MarksAt(t, marks, p)
           Most(i) == i \in A /\ \A j \in A : Len(marks[j]) <= Len(marks[i])
           c == CHOOSE i : Most(i)
<1>1. \A i : i \in A <=> i \in 0..k /\ IsAt(t, marks[i], p)
  BY MarksAre DEF MarkIs
<1>2. c = Longest(t, marks, p)
  BY DEF Longest
<1>3. A \in SUBSET Nat /\ A \subseteq 0..k
  BY <1>1 DEF Template
<1> HIDE DEF A
<1>4. PICK low \in A : \A j \in A : low <= j
  BY <1>3, FirstPosition DEF A
<1>5. ASSUME NEW j \in A, j # low PROVE Len(marks[j]) < Len(marks[low])
  <2>0. low \in Nat /\ j \in Nat /\ low <= j /\ low \in 0..k /\ j \in 0..k
    BY <1>3, <1>4
  <2>1. low < j /\ low \in 0..k /\ j \in 0..k
    BY <1>5, <2>0
  <2>2. t \in Seq(S) /\ marks[low] \in Seq(S) /\ marks[j] \in Seq(S)
        /\ Len(marks[low]) \in Nat /\ Len(marks[j]) \in Nat /\ ~IsPrefix(marks[low], marks[j])
    BY <2>1 DEF Template
  <2>3. IsAt(t, marks[low], p) /\ IsAt(t, marks[j], p)
    BY <1>1, <1>4, <1>5
  <2>4. ~(Len(marks[low]) <= Len(marks[j]))
    BY <2>2, <2>3, PrefixAt
  <2>5. QED
    BY <2>2, <2>4
<1>6. \A j \in A : Len(marks[j]) \in Nat
  BY <1>3 DEF Template
<1>7. Most(low)
  BY <1>4, <1>5, <1>6
<1>8. Most(c)
  <2> HIDE DEF Most
  <2>1. QED
    BY <1>7, Zenon
<1>9. c = low
  <2>1. c \in A /\ Len(marks[low]) <= Len(marks[c])
    BY <1>4, <1>8
  <2> HIDE DEF c
  <2>2. QED
    BY <1>4, <1>5, <1>6, <2>1
<1>10. QED
  BY <1>2, <1>4, <1>9 DEF FirstMark, A

\* Where placeholders begin; they are replaced at the positions of R.
Starts(t, marks) == {p \in 1..Len(t) : MarksAt(t, marks, p) # {}}
Covered(t, marks, R, p) == \E q \in R : q < p /\ p < q + Len(marks[Longest(t, marks, q)])
Pieces(t, marks, lits, R) ==
  [p \in 1..Len(t) |->
     IF p \in R THEN lits[Longest(t, marks, p)]
     ELSE IF Covered(t, marks, R, p) THEN <<>> ELSE <<t[p]>>]

\* A placeholder is there and has one $, its first character.
StartAt(t, marks, k, p, f) ==
  /\ f = Longest(t, marks, p) /\ f \in 0..k /\ IsAt(t, marks[f], p)
  /\ p \in 1..Len(t) /\ p + Len(marks[f]) <= Len(t) + 1 /\ Len(marks[f]) \in Nat /\ 1 <= Len(marks[f])
  /\ t[p] = "$"
  /\ \A i \in 1..Len(t) : p < i /\ i < p + Len(marks[f]) => t[i] # "$"
  /\ \A j \in 0..k : IsAt(t, marks[j], p) => f <= j

LEMMA StartIs ==
  ASSUME NEW S, NEW t, NEW marks, NEW k, Template(S, t, marks, k), NEW p \in Starts(t, marks)
  PROVE  StartAt(t, marks, k, p, Longest(t, marks, p))
<1>1. p \in 1..Len(t) /\ MarksAt(t, marks, p) # {}
  BY DEF Starts
<1>2. PICK f : f = Longest(t, marks, p) /\ FirstMark(t, marks, p, f)
  BY <1>1, LongestIsFirst
<1>3. MarkIs(t, marks, k, p)
  BY MarksAre
<1>4. f \in 0..k /\ IsAt(t, marks[f], p) /\ \A j \in 0..k : IsAt(t, marks[j], p) => f <= j
  BY <1>2, <1>3 DEF FirstMark, MarkIs
<1>5. PICK mark : mark = marks[f]
  OBVIOUS
<1>6. /\ mark \in Seq(S) /\ Len(mark) \in Nat /\ 1 <= Len(mark) /\ mark[1] = "$"
      /\ \A j \in 1..Len(mark) : mark[j] = "$" => j = 1
      /\ Len(t) \in Nat
  <2>1. t \in Seq(S)
    BY DEF Template
  <2>2. Len(t) \in Nat
    BY <2>1, LenProperties
  <2>3. QED
    BY <1>4, <1>5, <2>2 DEF Template
<1>7. p \in 1..Len(t) - Len(mark) + 1 /\ \A j \in 1..Len(mark) : t[p + j - 1] = mark[j]
  BY <1>4, <1>5 DEF IsAt
<1>8. t[p] = "$"
  <2>1. 1 \in 1..Len(mark) /\ p + 1 - 1 = p
    BY <1>1, <1>6
  <2>2. QED
    BY <1>6, <1>7, <2>1
<1>9. ASSUME NEW i \in 1..Len(t), p < i, i < p + Len(mark) PROVE t[i] # "$"
  <2>1. PICK j \in 1..Len(mark) : i = p + j - 1 /\ j # 1
    <3>1. i - p + 1 \in 1..Len(mark) /\ i = p + (i - p + 1) - 1 /\ i - p + 1 # 1
      BY <1>1, <1>6, <1>9
    <3>2. QED
      BY <3>1
  <2>2. QED
    BY <1>6, <1>7, <2>1
<1>10. p + Len(mark) <= Len(t) + 1
  BY <1>1, <1>6, <1>7
<1>11. QED
  BY <1>1, <1>2, <1>4, <1>5, <1>6, <1>8, <1>9, <1>10 DEF StartAt

LEMMA DollarUncovered ==
  ASSUME NEW S, NEW t, NEW marks, NEW k, Template(S, t, marks, k),
         NEW R, R \subseteq Starts(t, marks), NEW i \in 1..Len(t), t[i] = "$"
  PROVE  ~Covered(t, marks, R, i)
<1>1. ASSUME NEW q \in R, q < i, i < q + Len(marks[Longest(t, marks, q)]) PROVE FALSE
  <2>1. PICK f : f = Longest(t, marks, q)
    OBVIOUS
  <2>2. StartAt(t, marks, k, q, f)
    BY <2>1, StartIs
  <2>3. QED
    BY <1>1, <2>1, <2>2 DEF StartAt
<1>2. QED
  BY <1>1 DEF Covered

\* From a $ that was not replaced to the next one, the text is that of the template.
LEMMA CopiedUntil ==
  ASSUME NEW S, NEW t, NEW marks, NEW k, Template(S, t, marks, k), NEW lits,
         NEW R, R \subseteq Starts(t, marks), NEW i \in 1..Len(t), t[i] = "$", i \notin R,
         NEW q \in Nat, \A x \in 1..Len(t) : i < x /\ x < q => t[x] # "$",
         NEW x \in 1..Len(t), i <= x, x < q
  PROVE  Pieces(t, marks, lits, R)[x] = <<t[x]>>
<1>0. Len(t) \in Nat
  <2>1. t \in Seq(S)
    BY DEF Template
  <2>2. QED
    BY <2>1, LenProperties
<1>1. \A r \in R : r \in 1..Len(t) /\ t[r] = "$"
  <2>1. ASSUME NEW r \in R PROVE r \in 1..Len(t) /\ t[r] = "$"
    <3>1. StartAt(t, marks, k, r, Longest(t, marks, r))
      BY StartIs
    <3>2. QED
      BY <3>1 DEF StartAt
  <2>2. QED
    BY <2>1
<1>2. x \notin R
  BY <1>0, <1>1
<1>3. ASSUME NEW r \in R, r < x, x < r + Len(marks[Longest(t, marks, r)]) PROVE FALSE
  <2>1. PICK len \in Nat : len = Len(marks[Longest(t, marks, r)])
    <3>1. StartAt(t, marks, k, r, Longest(t, marks, r))
      BY StartIs
    <3>2. QED
      BY <3>1 DEF StartAt
  <2>2. r \in 1..Len(t) /\ t[r] = "$"
    BY <1>1
  <2>3. ~(i < r)
    BY <1>0, <1>3, <2>2
  <2>4. i # r
    BY <1>3
  <2>5. r < i /\ i < r + len
    BY <1>0, <1>3, <2>1, <2>2, <2>3, <2>4
  <2>6. Covered(t, marks, R, i)
    BY <2>1, <2>5 DEF Covered
  <2>7. QED
    BY <2>6, DollarUncovered
<1>4. ~Covered(t, marks, R, x)
  BY <1>3 DEF Covered
<1>5. QED
  BY <1>2, <1>4 DEF Pieces

\* The literals bring no $.
Literals(S, lits, k) ==
  \A i \in 0..k : lits[i] \in Seq(S) /\ \A j \in 1..Len(lits[i]) : lits[i][j] # "$"

LEMMA PiecesAre ==
  ASSUME NEW S, NEW t, NEW marks, NEW k, Template(S, t, marks, k),
         NEW lits, Literals(S, lits, k), NEW R, R \subseteq Starts(t, marks)
  PROVE  /\ Pieces(t, marks, lits, R) \in Seq(Seq(S)) /\ Len(Pieces(t, marks, lits, R)) = Len(t)
         /\ Len(t) \in Nat
<1> DEFINE n == Len(t)
           V == Seq(S)
           P == Pieces(t, marks, lits, R)
<1>1. n \in Nat /\ \A p \in 1..n : t[p] \in S
  <2>1. t \in Seq(S)
    BY DEF Template
  <2>2. QED
    BY <2>1, LenProperties, ElementOfSeq
<1>2. ASSUME NEW p \in R PROVE lits[Longest(t, marks, p)] \in V
  <2>1. PICK f : f = Longest(t, marks, p)
    OBVIOUS
  <2>2. StartAt(t, marks, k, p, f)
    BY <2>1, StartIs
  <2>3. QED
    BY <2>1, <2>2 DEF StartAt, Literals
<1>3. \A p \in 1..n : <<t[p]>> \in V
  BY <1>1
<1>4. <<>> \in V
  OBVIOUS
<1> HIDE DEF n, V
<1>5. P \in [1..n -> V]
  BY <1>2, <1>3, <1>4 DEF Pieces, n
<1> HIDE DEF P
<1>6. P \in Seq(V) /\ Len(P) = n
  BY <1>1, <1>5
<1>7. QED
  BY <1>1, <1>6 DEF V, P, n

\* A $ of the text is one of the template that was not replaced.
DollarOf(t, P, R, j, i) ==
  /\ i \notin R /\ t[i] = "$" /\ j = Len(Cut(P, 1, i - 1)) + 1

LEMMA DollarFound ==
  ASSUME NEW S, NEW t, NEW marks, NEW k, Template(S, t, marks, k),
         NEW lits, Literals(S, lits, k), NEW R, R \subseteq Starts(t, marks),
         NEW P, P = Pieces(t, marks, lits, R),
         NEW j \in 1..Len(FlattenSeq(P)), FlattenSeq(P)[j] = "$"
  PROVE  \E i \in 1..Len(t) : DollarOf(t, P, R, j, i)
<1>1. P \in Seq(Seq(S)) /\ Len(P) = Len(t)
  BY PiecesAre
<1>0. PICK i \in 1..Len(P) : \E o \in 1..Len(P[i]) : Located(P, j, i, o)
  BY <1>1, PositionLocated
<1>2. PICK o \in 1..Len(P[i]) : Located(P, j, i, o)
  BY <1>0
<1>3. j = Len(Cut(P, 1, i - 1)) + o /\ P[i][o] = "$" /\ i \in 1..Len(t)
  BY <1>1, <1>2 DEF Located
<1>4. i \notin R
  <2>1. ASSUME i \in R PROVE FALSE
    <3>1. PICK f : f = Longest(t, marks, i)
      OBVIOUS
    <3>2. f \in 0..k
      <4>1. StartAt(t, marks, k, i, f)
        BY <2>1, <3>1, StartIs
      <4>2. QED
        BY <4>1 DEF StartAt
    <3>3. P[i] = lits[f]
      BY <1>3, <2>1, <3>1 DEF Pieces
    <3>4. QED
      BY <1>2, <1>3, <3>2, <3>3 DEF Literals
  <2>2. QED
    BY <2>1
<1>5. P[i] = IF Covered(t, marks, R, i) THEN <<>> ELSE <<t[i]>>
  BY <1>3, <1>4 DEF Pieces
<1>6. ~Covered(t, marks, R, i)
  <2>1. Len(<<>>) = 0 /\ ~\E x \in 1..0 : TRUE
    OBVIOUS
  <2>2. QED
    BY <1>2, <1>5, <2>1
<1>7. P[i] = <<t[i]>> /\ o = 1
  BY <1>2, <1>5, <1>6
<1>8. t[i] = "$"
  BY <1>3, <1>7
<1>9. QED
  BY <1>3, <1>4, <1>7, <1>8 DEF DollarOf

NextDollar(t, i, q) ==
  /\ i < q /\ q <= Len(t) + 1
  /\ \A x \in 1..Len(t) : i < x /\ x < q => t[x] # "$"
  /\ q = Len(t) + 1 \/ t[q] = "$"

LEMMA NextDollarIs ==
  ASSUME NEW S, NEW t \in Seq(S), NEW i \in 1..Len(t)
  PROVE  \E q \in Nat : NextDollar(t, i, q)
<1> DEFINE n == Len(t)
           P == {x \in 1..n + 1 : i < x /\ (x = n + 1 \/ t[x] = "$")}
<1>1. n \in Nat
  BY LenProperties
<1> HIDE DEF n
<1>2. P \in SUBSET Nat /\ n + 1 \in P
  BY <1>1 DEF n
<1>3. PICK q \in P : \A x \in P : q <= x
  <2> HIDE DEF P
  <2>1. QED
    BY <1>2, FirstPosition
<1>4. ASSUME NEW x \in 1..n, i < x, x < q PROVE t[x] # "$"
  <2>1. ASSUME t[x] = "$" PROVE FALSE
    <3>1. x \in P
      BY <1>1, <1>4, <2>1
    <3>2. q <= x /\ q \in Nat
      BY <1>2, <1>3, <3>1
    <3>3. QED
      BY <1>1, <1>4, <3>2
  <2>2. QED
    BY <2>1
<1>5. q \in Nat /\ i < q /\ q <= n + 1 /\ (q = n + 1 \/ t[q] = "$")
  BY <1>1, <1>3
<1>6. QED
  BY <1>4, <1>5 DEF NextDollar, n

\* From such a $ to the next, the text is the template's.
AsInTemplate(t, P, i, b) ==
  /\ FlattenSeq(P) = Cut(P, 1, i - 1) \o (SubSeq(t, i, b) \o Cut(P, b + 1, Len(P)))
  /\ Cut(P, i, b) = SubSeq(t, i, b)

LEMMA CopiedPart ==
  ASSUME NEW S, NEW t, NEW marks, NEW k, Template(S, t, marks, k),
         NEW lits, Literals(S, lits, k), NEW R, R \subseteq Starts(t, marks),
         NEW P, P = Pieces(t, marks, lits, R),
         NEW i \in 1..Len(t), t[i] = "$", i \notin R,
         NEW b \in Nat, i <= b, b <= Len(t), \A x \in 1..Len(t) : i < x /\ x <= b => t[x] # "$"
  PROVE  AsInTemplate(t, P, i, b)
<1>0. t \in Seq(S)
  BY DEF Template
<1>1. P \in Seq(Seq(S)) /\ Len(P) = Len(t) /\ Len(t) \in Nat
  BY PiecesAre
<1>2. PICK q \in Nat : q = b + 1
  OBVIOUS
<1>3. \A x \in 1..Len(t) : i < x /\ x < q => t[x] # "$"
  BY <1>2
<1>4. ASSUME NEW x \in 1..Len(t), i <= x, x <= b PROVE P[x] = <<t[x]>>
  <2>1. x < q
    BY <1>2, <1>4
  <2>2. Pieces(t, marks, lits, R)[x] = <<t[x]>>
    BY <1>3, <1>4, <2>1, CopiedUntil
  <2>3. QED
    BY <2>2
<1>5. PICK c \in Nat : c + 1 = i /\ c = i - 1 /\ c <= b
  <2>1. i - 1 \in Nat /\ (i - 1) + 1 = i /\ i - 1 <= b
    BY <1>1
  <2>2. QED
    BY <2>1
<1>6. Threefold(P, c, b)
  BY <1>1, <1>5, CutThree, Zenon
<1>7. Cut(P, i, b) = SubSeq(t, i, b)
  <2>1. i \in Nat /\ 1 <= i /\ i <= b + 1
    BY <1>1
  <2>2. IsCopy(P, t, i, b)
    BY <1>1, <1>4, <2>1 DEF IsCopy
  <2>3. Copied(P, t, i, b)
    BY <1>0, <1>1, <2>1, <2>2, CutSingles, Zenon
  <2>4. QED
    BY <2>3 DEF Copied
<1>8. QED
  BY <1>5, <1>6, <1>7 DEF Threefold, AsInTemplate

\* Every placeholder of an earlier parameter was replaced.
UpTo(t, marks, R, f) ==
  /\ R \subseteq Starts(t, marks)
  /\ \A p \in Starts(t, marks) : Longest(t, marks, p) < f => p \in R
  /\ \A p \in R : Longest(t, marks, p) <= f

\* The text has the placeholder of a start that was not replaced.
MarkIn(t, marks, P, p, f) ==
  FlattenSeq(P) = Cut(P, 1, p - 1) \o (marks[f] \o Cut(P, p + Len(marks[f]), Len(P)))

LEMMA StartInText ==
  ASSUME NEW S, NEW t, NEW marks, NEW k, Template(S, t, marks, k),
         NEW lits, Literals(S, lits, k), NEW R, R \subseteq Starts(t, marks),
         NEW P, P = Pieces(t, marks, lits, R),
         NEW p \in Starts(t, marks), p \notin R, NEW f, f = Longest(t, marks, p)
  PROVE  MarkIn(t, marks, P, p, f)
<1>1. /\ f \in 0..k /\ IsAt(t, marks[f], p) /\ p \in 1..Len(t) /\ p + Len(marks[f]) <= Len(t) + 1
      /\ Len(marks[f]) \in Nat /\ 1 <= Len(marks[f]) /\ t[p] = "$"
      /\ \A i \in 1..Len(t) : p < i /\ i < p + Len(marks[f]) => t[i] # "$"
  BY StartIs DEF StartAt
<1>2. t \in Seq(S) /\ marks[f] \in Seq(S) /\ Len(t) \in Nat
  <2>1. t \in Seq(S) /\ marks[f] \in Seq(S)
    BY <1>1 DEF Template
  <2>2. QED
    BY <2>1, LenProperties
<1>3. PICK len : len = Len(marks[f])
  OBVIOUS
<1>4. PICK b \in Nat : b + 1 = p + len /\ b = p + len - 1 /\ p <= b /\ b <= Len(t)
  <2>1. p + len - 1 \in Nat /\ (p + len - 1) + 1 = p + len /\ p <= p + len - 1 /\ p + len - 1 <= Len(t)
    BY <1>1, <1>2, <1>3
  <2>2. QED
    BY <2>1
<1>5. \A x \in 1..Len(t) : p < x /\ x <= b => t[x] # "$"
  <2>1. \A x \in 1..Len(t) : x <= b => x < p + len
    BY <1>1, <1>2, <1>3, <1>4
  <2>2. QED
    BY <1>1, <1>3, <2>1
<1>6. AsInTemplate(t, P, p, b)
  BY <1>1, <1>4, <1>5, CopiedPart, Zenon
<1>7. p \in Occurrences(t, marks[f])
  <2>1. Occurs(t, marks[f], p)
    <3>1. marks[f] # <<>>
      BY <1>1, <1>2
    <3>2. QED
      BY <1>2, <3>1, OccurrenceIs, Zenon
  <2>2. QED
    BY <1>1, <2>1 DEF Occurs
<1>8. SubSeq(t, p, p + Len(marks[f]) - 1) = marks[f]
  BY <1>7 DEF Occurrences
<1>9. SubSeq(t, p, b) = marks[f]
  BY <1>3, <1>4, <1>8
<1>10. QED
  BY <1>3, <1>4, <1>6, <1>9 DEF AsInTemplate, MarkIn

\* What is found behind x when u and z follow it.
LEMMA FoundBehind ==
  ASSUME NEW S, NEW x \in Seq(S), NEW u \in Seq(S), NEW z \in Seq(S), NEW mark \in Seq(S),
         IsAt(x \o (u \o z), mark, Len(x) + 1)
  PROVE  /\ Len(mark) <= Len(u) + Len(z)
         /\ \A o \in 1..Len(mark) : o <= Len(u) => mark[o] = u[o]
<1>1. /\ u \o z \in Seq(S) /\ Len(u) \in Nat /\ Len(z) \in Nat /\ Len(u \o z) = Len(u) + Len(z)
      /\ \A o \in 1..Len(u) : (u \o z)[o] = u[o]
  BY Joined
<1>2. PICK w \in Seq(S) : w = u \o z
  BY <1>1
<1>3. /\ Len(x) \in Nat /\ Len(x \o w) = Len(x) + Len(w)
      /\ \A o \in 1..Len(w) : (x \o w)[Len(x) + o] = w[o]
  BY Joined
<1>4. Len(mark) \in Nat
  BY LenProperties
<1>5. /\ Len(x) + 1 \in 1..Len(x \o w) - Len(mark) + 1
      /\ \A o \in 1..Len(mark) : (x \o w)[Len(x) + 1 + o - 1] = mark[o]
  BY <1>2 DEF IsAt
<1>6. Len(mark) <= Len(w)
  BY <1>1, <1>2, <1>3, <1>4, <1>5
<1>7. ASSUME NEW o \in 1..Len(mark), o <= Len(u) PROVE mark[o] = u[o]
  <2>1. o \in 1..Len(u) /\ o \in 1..Len(w) /\ Len(x) + 1 + o - 1 = Len(x) + o
    BY <1>1, <1>2, <1>3, <1>4, <1>7
  <2>2. QED
    BY <1>1, <1>2, <1>3, <1>5, <2>1
<1>8. QED
  BY <1>1, <1>2, <1>6, <1>7

\* What sql() finds is a placeholder of the template that was not replaced yet.
FoundStart(t, marks, P, R, f, j, p) ==
  /\ p \in Starts(t, marks) /\ p \notin R /\ Longest(t, marks, p) = f
  /\ j = Len(Cut(P, 1, p - 1)) + 1

LEMMA FoundInTemplate ==
  ASSUME NEW S, NEW t, NEW marks, NEW k, Template(S, t, marks, k),
         NEW lits, Literals(S, lits, k), NEW f \in 0..k, NEW R, UpTo(t, marks, R, f),
         NEW P, P = Pieces(t, marks, lits, R),
         NEW j \in Occurrences(FlattenSeq(P), marks[f])
  PROVE  \E p : FoundStart(t, marks, P, R, f, j, p)
<1> DEFINE X == FlattenSeq(P)
           n == Len(t)
<1>1. R \subseteq Starts(t, marks)
  BY DEF UpTo
<1>2. P \in Seq(Seq(S)) /\ Len(P) = n /\ n \in Nat
  BY <1>1, PiecesAre
<1>3. X \in Seq(S)
  BY <1>2, FlattenPoints
<1>4. PICK mark : mark = marks[f]
  OBVIOUS
<1>5. t \in Seq(S) /\ mark \in Seq(S) /\ Len(mark) \in Nat /\ 1 <= Len(mark) /\ mark[1] = "$"
  BY <1>4 DEF Template
<1> HIDE DEF X, n
<1>6. IsAt(X, mark, j)
  <2>1. mark # <<>>
    BY <1>5
  <2>2. Occurs(X, mark, j)
    BY <1>3, <1>5, <2>1, OccurrenceIs, Zenon
  <2>3. QED
    BY <1>4, <2>2 DEF Occurs, X
<1>7. j \in 1..Len(X) /\ X[j] = "$"
  <2>1. Len(X) \in Nat
    BY <1>3, LenProperties
  <2>2. j \in 1..Len(X) - Len(mark) + 1 /\ \A o \in 1..Len(mark) : X[j + o - 1] = mark[o]
    BY <1>6 DEF IsAt
  <2>3. 1 \in 1..Len(mark) /\ j + 1 - 1 = j /\ j \in 1..Len(X)
    BY <1>5, <2>1, <2>2
  <2>4. QED
    BY <1>5, <2>2, <2>3
<1>8. PICK i \in 1..n : DollarOf(t, P, R, j, i)
  BY <1>1, <1>7, DollarFound DEF X, n
<1>9. i \notin R /\ t[i] = "$" /\ j = Len(Cut(P, 1, i - 1)) + 1
  BY <1>8 DEF DollarOf
<1>10. PICK q \in Nat : NextDollar(t, i, q)
  BY <1>5, NextDollarIs DEF n
<1>11. /\ i < q /\ q <= n + 1 /\ \A x \in 1..n : i < x /\ x < q => t[x] # "$"
       /\ q = n + 1 \/ t[q] = "$"
  BY <1>10 DEF NextDollar, n
<1>12. PICK b \in Nat : q = b + 1 /\ b = q - 1 /\ i <= b /\ b <= n
  <2>1. q - 1 \in Nat /\ q = (q - 1) + 1 /\ i <= q - 1 /\ q - 1 <= n
    BY <1>2, <1>11
  <2>2. QED
    BY <2>1
<1>13. AsInTemplate(t, P, i, b)
  <2>1. \A x \in 1..n : i < x /\ x <= b => t[x] # "$"
    <3>1. \A x \in 1..n : x <= b => x < q
      BY <1>2, <1>12
    <3>2. QED
      BY <1>11, <3>1
  <2>2. QED
    BY <1>1, <1>9, <1>12, <2>1, CopiedPart, Zenon DEF n
<1>14. PICK x \in Seq(S), u \in Seq(S), z \in Seq(S) :
         /\ x = Cut(P, 1, i - 1) /\ u = Cut(P, i, b) /\ z = Cut(P, b + 1, Len(P))
  BY <1>2, CutIs
<1>15. X = x \o (u \o z) /\ u = SubSeq(t, i, b)
  BY <1>13, <1>14 DEF AsInTemplate, X
<1>16. /\ Len(mark) <= Len(u) + Len(z)
       /\ \A o \in 1..Len(mark) : o <= Len(u) => mark[o] = u[o]
  <2>1. IsAt(x \o (u \o z), mark, Len(x) + 1)
    BY <1>6, <1>9, <1>14, <1>15
  <2>2. QED
    BY <1>5, <2>1, FoundBehind
<1>17. Len(u) = b - i + 1 /\ \A o \in 1..Len(u) : u[o] = t[i + o - 1]
  <2>1. i \in Int /\ b \in Int /\ \A y \in i..b : t[y] \in S
    <3>1. \A y \in i..b : y \in 1..n
      BY <1>2, <1>12
    <3>2. QED
      BY <1>5, <3>1, ElementOfSeq DEF n
  <2>2. /\ Len(SubSeq(t, i, b)) = IF i <= b THEN b - i + 1 ELSE 0
        /\ \A o \in 1..b - i + 1 : SubSeq(t, i, b)[o] = t[i + o - 1]
    BY <2>1, SubSeqProperties
  <2>3. QED
    BY <1>12, <1>15, <2>2
<1>18. CASE Len(mark) <= Len(u)
  <2>1. IsAt(t, mark, i)
    <3>1. i \in 1..n - Len(mark) + 1
      BY <1>2, <1>5, <1>12, <1>17, <1>18
    <3>2. \A o \in 1..Len(mark) : t[i + o - 1] = mark[o]
      <4>1. \A o \in 1..Len(mark) : o \in 1..Len(u) /\ o <= Len(u)
        BY <1>5, <1>12, <1>17, <1>18
      <4>2. QED
        BY <1>16, <1>17, <4>1
    <3>3. QED
      BY <3>1, <3>2 DEF IsAt, n
  <2>2. f \in MarksAt(t, marks, i)
    <3>1. MarkIs(t, marks, k, i)
      BY MarksAre
    <3>2. QED
      BY <1>4, <2>1, <3>1 DEF MarkIs
  <2>3. i \in Starts(t, marks)
    BY <2>2 DEF Starts, n
  <2>4. PICK g : g = Longest(t, marks, i)
    OBVIOUS
  <2>5. g \in 0..k /\ g <= f
    <3>1. StartAt(t, marks, k, i, g)
      BY <2>3, <2>4, StartIs
    <3>2. QED
      BY <1>4, <2>1, <3>1 DEF StartAt
  <2>6. ~(g < f)
    BY <1>9, <2>3, <2>4 DEF UpTo
  <2>7. g = f
    BY <2>5, <2>6
  <2>8. QED
    BY <1>9, <2>3, <2>4, <2>7 DEF FoundStart
<1>19. CASE ~(Len(mark) <= Len(u))
  <2>1. CASE q = n + 1
    <3>1. \A y \in 1..Len(P) : ~(b + 1 <= y /\ y <= Len(P))
      BY <1>2, <1>12, <2>1
    <3>2. z = <<>>
      BY <1>2, <1>14, <3>1, CutNothing
    <3>3. Len(z) = 0 /\ Len(u) \in Nat
      BY <1>14, <3>2, LenProperties
    <3>4. QED
      BY <1>5, <1>16, <1>19, <3>3
  <2>2. CASE q # n + 1
    <3>1. q \in 1..n /\ i < q /\ t[q] = "$" /\ b = q - 1
      BY <1>2, <1>11, <1>12, <2>2
    <3>2. ~IsStrictPrefix(u, mark)
      BY <1>4, <1>9, <1>15, <3>1 DEF Template, n
    <3>3. u # mark /\ Len(u) <= Len(mark)
      BY <1>5, <1>12, <1>17, <1>19
    <3>4. IsPrefix(u, mark)
      <4>1. IsAt(u, u, 1) /\ IsAt(mark, u, 1)
        <5>1. Len(u) \in Nat /\ \A o \in 1..Len(u) : 1 + o - 1 = o /\ o \in 1..Len(mark) /\ o <= Len(u)
          BY <1>5, <1>14, <3>3, LenProperties
        <5>2. 1 \in 1..Len(u) - Len(u) + 1 /\ 1 \in 1..Len(mark) - Len(u) + 1
          BY <1>5, <3>3, <5>1
        <5>3. QED
          BY <1>16, <5>1, <5>2 DEF IsAt
      <4>3. u # <<>>
        BY <1>12, <1>17
      <4>4. Occurs(mark, u, 1)
        BY <1>5, <1>14, <4>3, OccurrenceIs, Zenon
      <4>5. SubSeq(mark, 1, 1 + Len(u) - 1) = u
        BY <4>1, <4>4 DEF Occurs, Occurrences
      <4>6. 1 + Len(u) - 1 = Len(u)
        BY <1>12, <1>17
      <4>7. SubSeq(u, 1, Len(u)) = u
        BY <1>14, SubSeqFull
      <4>8. QED
        BY <3>3, <4>5, <4>6, <4>7 DEF IsPrefix
    <3>5. QED
      BY <3>2, <3>3, <3>4 DEF IsStrictPrefix
  <2>3. QED
    BY <2>1, <2>2
<1>20. QED
  BY <1>18, <1>19

\* The pieces when the placeholder at p is replaced too.
OnePieceMore(P, Q, p, len, literal) ==
  /\ Len(P) = Len(Q) /\ Q[p] = literal
  /\ \A i \in 1..Len(P) :
       /\ i < p \/ p + len <= i => Q[i] = P[i]
       /\ p < i /\ i < p + len => Q[i] = <<>>

LEMMA PieceReplaced ==
  ASSUME NEW S, NEW t, NEW marks, NEW k, Template(S, t, marks, k),
         NEW lits, Literals(S, lits, k), NEW R, R \subseteq Starts(t, marks),
         NEW p \in Starts(t, marks), NEW f, f = Longest(t, marks, p)
  PROVE  OnePieceMore(Pieces(t, marks, lits, R), Pieces(t, marks, lits, R \cup {p}), p,
                      Len(marks[f]), lits[f])
<1> DEFINE P == Pieces(t, marks, lits, R)
           Q == Pieces(t, marks, lits, R \cup {p})
           n == Len(t)
<1>1. PICK len : len = Len(marks[f])
  OBVIOUS
<1>2. /\ p \in 1..n /\ len \in Nat /\ 1 <= len
      /\ \A i \in 1..n : p < i /\ i < p + len => t[i] # "$"
  BY <1>1, StartIs DEF StartAt
<1>3. Len(P) = n /\ Len(Q) = n /\ n \in Nat
  <2>1. R \cup {p} \subseteq Starts(t, marks)
    OBVIOUS
  <2>2. QED
    BY <2>1, PiecesAre
<1>4. \A i : Covered(t, marks, R \cup {p}, i) <=> Covered(t, marks, R, i) \/ (p < i /\ i < p + len)
  BY <1>1 DEF Covered
<1>5. \A r \in R \cup {p} : t[r] = "$"
  BY StartIs DEF StartAt
<1> HIDE DEF n
<1>6. /\ \A i \in 1..n : P[i] = IF i \in R THEN lits[Longest(t, marks, i)]
                                ELSE IF Covered(t, marks, R, i) THEN <<>> ELSE <<t[i]>>
      /\ \A i \in 1..n : Q[i] = IF i \in R \cup {p} THEN lits[Longest(t, marks, i)]
                                ELSE IF Covered(t, marks, R \cup {p}, i) THEN <<>> ELSE <<t[i]>>
  BY DEF Pieces, n
<1> HIDE DEF P, Q
<1>7. Q[p] = lits[f]
  BY <1>2, <1>6
<1>8. ASSUME NEW i \in 1..n, i < p \/ p + len <= i PROVE Q[i] = P[i]
  <2>1. i # p /\ ~(p < i /\ i < p + len)
    BY <1>2, <1>3, <1>8
  <2>2. (i \in R \cup {p} <=> i \in R) /\ (Covered(t, marks, R \cup {p}, i) <=> Covered(t, marks, R, i))
    BY <1>4, <2>1
  <2>3. QED
    BY <1>6, <2>2
<1>9. ASSUME NEW i \in 1..n, p < i, i < p + len PROVE Q[i] = <<>>
  <2>1. i \notin R \cup {p}
    BY <1>2, <1>5, <1>9
  <2>2. Covered(t, marks, R \cup {p}, i)
    BY <1>4, <1>9
  <2>3. QED
    BY <1>6, <2>1, <2>2
<1>10. QED
  BY <1>1, <1>3, <1>7, <1>8, <1>9 DEF OnePieceMore, P, Q

\* Then the text has the literal in its place.
LiteralIn(P, Q, p, len, literal) ==
  FlattenSeq(Q) = Cut(P, 1, p - 1) \o (literal \o Cut(P, p + len, Len(P)))

LEMMA TextReplaced ==
  ASSUME NEW S, NEW P \in Seq(Seq(S)), NEW Q \in Seq(Seq(S)), NEW p \in 1..Len(P), NEW len \in Nat,
         1 <= len, p + len <= Len(P) + 1, NEW literal, OnePieceMore(P, Q, p, len, literal)
  PROVE  LiteralIn(P, Q, p, len, literal)
<1>1. /\ Len(P) = Len(Q) /\ Q[p] = literal
      /\ \A i \in 1..Len(P) : /\ i < p \/ p + len <= i => Q[i] = P[i]
                              /\ p < i /\ i < p + len => Q[i] = <<>>
  BY DEF OnePieceMore
<1>2. Len(P) \in Nat
  BY LenProperties
<1>3. PICK c \in Nat, b \in Nat : /\ c + 1 = p /\ c = p - 1 /\ b + 1 = p + len /\ c <= b
                                  /\ p <= b /\ b <= Len(P)
  <2>1. /\ p - 1 \in Nat /\ p + len - 1 \in Nat /\ (p - 1) + 1 = p /\ (p + len - 1) + 1 = p + len
        /\ p - 1 <= p + len - 1 /\ p <= p + len - 1 /\ p + len - 1 <= Len(P)
    BY <1>2
  <2>2. QED
    BY <2>1
<1>4. Threefold(Q, c, b)
  <2>1. b <= Len(Q)
    BY <1>1, <1>3
  <2>2. QED
    BY <1>3, <2>1, CutThree, Zenon
<1>5. Cut(Q, 1, c) = Cut(P, 1, c)
  <2>1. \A i \in 1..Len(P) : 1 <= i /\ i <= c => P[i] = Q[i]
    <3>1. \A i \in 1..Len(P) : i <= c => i < p
      BY <1>2, <1>3
    <3>2. QED
      BY <1>1, <3>1
  <2>2. QED
    BY <1>1, <2>1, CutEqual
<1>6. Cut(Q, b + 1, Len(Q)) = Cut(P, b + 1, Len(P))
  <2>1. PICK d : d = b + 1 /\ d = p + len
    BY <1>3
  <2>2. \A i \in 1..Len(P) : d <= i /\ i <= Len(P) => P[i] = Q[i]
    BY <1>1, <2>1
  <2>3. Cut(P, d, Len(P)) = Cut(Q, d, Len(P))
    BY <1>1, <2>2, CutEqual
  <2>4. QED
    BY <1>1, <2>1, <2>3
<1>7. Cut(Q, c + 1, b) = literal
  <2>1. \A i \in 1..Len(Q) : p < i /\ i <= b => Q[i] = <<>>
    <3>1. \A i \in 1..Len(P) : i <= b => i < p + len
      BY <1>2, <1>3
    <3>2. QED
      BY <1>1, <3>1
  <2>2. Cut(Q, p, b) = Q[p]
    BY <1>1, <1>3, <2>1, CutFirst
  <2>3. QED
    BY <1>1, <1>3, <2>2
<1>8. QED
  BY <1>3, <1>4, <1>5, <1>6, <1>7 DEF Threefold, LiteralIn

\* One turn of the inner loop of sql() replaces one more placeholder of the template.
Turn(t, marks, lits, R, f, p) ==
  /\ p \in Starts(t, marks) /\ Longest(t, marks, p) = f
  /\ ReplaceFirst(FlattenSeq(Pieces(t, marks, lits, R)), marks[f], lits[f])
       = FlattenSeq(Pieces(t, marks, lits, R \cup {p}))

LEMMA TurnReplaces ==
  ASSUME NEW S, NEW t, NEW marks, NEW k, Template(S, t, marks, k),
         NEW lits, Literals(S, lits, k), NEW f \in 0..k, NEW R, UpTo(t, marks, R, f),
         Occurrences(FlattenSeq(Pieces(t, marks, lits, R)), marks[f]) # {}
  PROVE  \E p : Turn(t, marks, lits, R, f, p)
<1>1. PICK P : P = Pieces(t, marks, lits, R)
  OBVIOUS
<1> DEFINE X == FlattenSeq(P)
           O == Occurrences(X, marks[f])
           j == FirstOf(O)
<1>2. R \subseteq Starts(t, marks)
  BY DEF UpTo
<1>3. P \in Seq(Seq(S)) /\ Len(P) = Len(t) /\ Len(t) \in Nat
  BY <1>1, <1>2, PiecesAre
<1>4. j \in O
  <2>1. O \in SUBSET Nat /\ O # {}
    <3>1. Occurrences(X, marks[f]) \subseteq 1..Len(X) - Len(marks[f]) + 1
      BY DEF Occurrences
    <3>2. Len(X) \in Nat /\ Len(marks[f]) \in Nat
      <4>1. X \in Seq(S)
        BY <1>3, FlattenPoints
      <4>2. Len(X) \in Nat
        BY <4>1, LenProperties
      <4>3. QED
        BY <4>2 DEF Template
    <3>3. O \in SUBSET Nat
      <4>1. PICK N \in Nat, M \in Nat : N = Len(X) /\ M = Len(marks[f])
        BY <3>2
      <4>2. O \subseteq 1..N - M + 1
        BY <3>1, <4>1
      <4>3. 1..N - M + 1 \subseteq Nat
        OBVIOUS
      <4> HIDE DEF O
      <4>4. QED
        BY <4>2, <4>3
    <3>4. O # {}
      BY <1>1
    <3>5. QED
      BY <3>3, <3>4
  <2> HIDE DEF O
  <2>2. QED
    BY <2>1, FirstPosition DEF FirstOf
<1>5. PICK p : FoundStart(t, marks, P, R, f, j, p)
  BY <1>1, <1>4, FoundInTemplate, Zenon
<1>6. p \in Starts(t, marks) /\ p \notin R /\ Longest(t, marks, p) = f /\ j = Len(Cut(P, 1, p - 1)) + 1
  BY <1>5 DEF FoundStart
<1>7. MarkIn(t, marks, P, p, f)
  <2>1. f = Longest(t, marks, p)
    BY <1>6
  <2>2. QED
    BY <1>1, <1>2, <1>6, <2>1, StartInText, Zenon
<1>8. PICK Q : Q = Pieces(t, marks, lits, R \cup {p})
  OBVIOUS
<1>9. Q \in Seq(Seq(S))
  <2>1. R \cup {p} \subseteq Starts(t, marks)
    BY <1>2, <1>6
  <2>2. QED
    BY <1>8, <2>1, PiecesAre
<1>10. PICK len : len = Len(marks[f])
  OBVIOUS
<1>11. p \in 1..Len(P) /\ len \in Nat /\ 1 <= len /\ p + len <= Len(P) + 1
  BY <1>3, <1>6, <1>10, StartIs DEF StartAt
<1>12. LiteralIn(P, Q, p, len, lits[f])
  <2>1. OnePieceMore(P, Q, p, len, lits[f])
    <3>1. f = Longest(t, marks, p)
      BY <1>6
    <3>2. OnePieceMore(Pieces(t, marks, lits, R), Pieces(t, marks, lits, R \cup {p}), p,
                       Len(marks[f]), lits[f])
      BY <1>2, <1>6, <3>1, PieceReplaced, Zenon
    <3>3. QED
      BY <1>1, <1>8, <1>10, <3>2
  <2>2. QED
    BY <1>3, <1>9, <1>11, <2>1, TextReplaced, Zenon
<1>13. PICK x \in Seq(S), mark \in Seq(S), z \in Seq(S), by \in Seq(S) :
         x = Cut(P, 1, p - 1) /\ mark = marks[f] /\ z = Cut(P, p + len, Len(P)) /\ by = lits[f]
  <2>1. marks[f] \in Seq(S) /\ lits[f] \in Seq(S)
    BY DEF Template, Literals
  <2>2. QED
    BY <1>3, <2>1, CutIs
<1>14. X = x \o (mark \o z) /\ FlattenSeq(Q) = x \o (by \o z)
  BY <1>7, <1>10, <1>12, <1>13 DEF MarkIn, LiteralIn
<1>15. X = x \o mark \o z /\ FlattenSeq(Q) = x \o by \o z
  <2>1. Associated(x, mark, z) /\ Associated(x, by, z)
    BY Associativity, Zenon
  <2>2. QED
    BY <1>14, <2>1 DEF Associated
<1> HIDE DEF X
<1>16. ReplaceSubSeqAt(j, by, mark, X) = x \o by \o z
  <2>1. j = Len(x) + 1
    BY <1>6, <1>13
  <2>2. PICK h : h = j
    OBVIOUS
  <2>3. h = Len(x) + 1
    BY <2>1, <2>2
  <2>4. Replaced(h, x, mark, z, by)
    BY <2>3, ReplacedIs, Zenon
  <2> HIDE DEF j
  <2>5. QED
    BY <1>15, <2>2, <2>4 DEF Replaced
<1>17. ReplaceFirst(X, mark, by) = FlattenSeq(Q)
  <2>1. ReplaceFirst(X, mark, by) = ReplaceSubSeqAt(j, by, mark, X)
    BY <1>4, <1>13 DEF ReplaceFirst
  <2>2. QED
    BY <1>15, <1>16, <2>1
<1>18. QED
  BY <1>1, <1>6, <1>8, <1>13, <1>17 DEF Turn, X

\* The inner loop is left when no placeholder of its parameter is.
LEMMA NoneLeft ==
  ASSUME NEW S, NEW t, NEW marks, NEW k, Template(S, t, marks, k),
         NEW lits, Literals(S, lits, k), NEW f \in 0..k, NEW R, UpTo(t, marks, R, f),
         Occurrences(FlattenSeq(Pieces(t, marks, lits, R)), marks[f]) = {},
         NEW p \in Starts(t, marks), Longest(t, marks, p) <= f
  PROVE  p \in R
<1>1. PICK P : P = Pieces(t, marks, lits, R)
  OBVIOUS
<1>2. R \subseteq Starts(t, marks)
  BY DEF UpTo
<1>3. P \in Seq(Seq(S))
  BY <1>1, <1>2, PiecesAre
<1>4. PICK g : g = Longest(t, marks, p)
  OBVIOUS
<1>5. g \in 0..k /\ g \in Nat /\ f \in Nat
  <2>1. StartAt(t, marks, k, p, g)
    BY <1>4, StartIs
  <2>2. QED
    BY <2>1 DEF StartAt, Template
<1>6. CASE g < f
  BY <1>4, <1>6 DEF UpTo
<1>7. CASE g = f
  <2>1. ASSUME p \notin R PROVE FALSE
    <3>1. MarkIn(t, marks, P, p, g)
      BY <1>1, <1>2, <1>4, <2>1, StartInText, Zenon
    <3>2. PICK x \in Seq(S), mark \in Seq(S), z \in Seq(S) :
            x = Cut(P, 1, p - 1) /\ mark = marks[f] /\ z = Cut(P, p + Len(marks[f]), Len(P))
      <4>1. marks[f] \in Seq(S)
        BY DEF Template
      <4>2. QED
        BY <1>3, <4>1, CutIs
    <3>3. PICK w \in Seq(S) : w = mark \o z
      BY ConcatProperties
    <3>4. PICK X \in Seq(S) : X = FlattenSeq(P) /\ X = x \o w
      <4>1. x \o w \in Seq(S)
        BY ConcatProperties
      <4>2. FlattenSeq(P) = x \o w
        BY <1>7, <3>1, <3>2, <3>3 DEF MarkIn
      <4>3. QED
        BY <4>1, <4>2
    <3>5. /\ Len(mark) \in Nat /\ Len(z) \in Nat /\ Len(w) = Len(mark) + Len(z)
          /\ \A o \in 1..Len(mark) : w[o] = mark[o]
      BY <3>3, Joined
    <3>6. /\ Len(x) \in Nat /\ Len(X) = Len(x) + Len(w)
          /\ \A o \in 1..Len(w) : X[Len(x) + o] = w[o]
      BY <3>4, Joined
    <3>7. IsAt(X, mark, Len(x) + 1)
      <4>1. Len(x) + 1 \in 1..Len(X) - Len(mark) + 1
        BY <3>5, <3>6
      <4>2. \A o \in 1..Len(mark) : o \in 1..Len(w) /\ Len(x) + 1 + o - 1 = Len(x) + o
        BY <3>5, <3>6
      <4>3. QED
        BY <3>5, <3>6, <4>1, <4>2 DEF IsAt
    <3>8. mark # <<>>
      <4>1. 1 <= Len(mark)
        BY <3>2 DEF Template
      <4>2. Len(<<>>) = 0
        OBVIOUS
      <4>3. QED
        BY <4>1, <4>2
    <3>9. PICK j : j = Len(x) + 1
      OBVIOUS
    <3>10. Occurs(X, mark, j)
      BY <3>8, OccurrenceIs, Zenon
    <3>11. j \in Occurrences(FlattenSeq(P), marks[f])
      BY <3>2, <3>4, <3>7, <3>9, <3>10 DEF Occurs
    <3>12. QED
      BY <1>1, <3>11
  <2>2. QED
    BY <2>1
<1>8. QED
  BY <1>4, <1>5, <1>6, <1>7

LEMMA NothingReplaced ==
  ASSUME NEW S, NEW t, NEW marks, NEW k, Template(S, t, marks, k), NEW lits, Literals(S, lits, k)
  PROVE  FlattenSeq(Pieces(t, marks, lits, {})) = t
<1>1. PICK P : P = Pieces(t, marks, lits, {})
  OBVIOUS
<1>2. P \in Seq(Seq(S)) /\ Len(P) = Len(t) /\ Len(t) \in Nat
  BY <1>1, PiecesAre
<1>3. t \in Seq(S)
  BY DEF Template
<1>4. \A i \in 1..Len(t) : P[i] = <<t[i]>>
  BY <1>1 DEF Pieces, Covered
<1>5. IsCopy(P, t, 1, Len(t))
  BY <1>2, <1>4 DEF IsCopy
<1>6. Copied(P, t, 1, Len(t))
  <2>1. 1 \in Nat
    OBVIOUS
  <2>2. QED
    BY <1>2, <1>3, <1>5, <2>1, CutSingles, Zenon
<1>7. Cut(P, 1, Len(P)) = FlattenSeq(P)
  BY <1>2, CutWhole
<1>8. SubSeq(t, 1, Len(t)) = t
  BY <1>3, SubSeqFull
<1>9. QED
  BY <1>1, <1>2, <1>6, <1>7, <1>8 DEF Copied

\* What the text is after the turns for the parameters before f, and some for f.
Replacing(t, marks, lits, f, got) ==
  \E R : UpTo(t, marks, R, f) /\ got = FlattenSeq(Pieces(t, marks, lits, R))

LEMMA NextTurn ==
  ASSUME NEW S, NEW t, NEW marks, NEW k, Template(S, t, marks, k),
         NEW lits, Literals(S, lits, k), NEW f \in 0..k, NEW got, Replacing(t, marks, lits, f, got),
         Occurrences(got, marks[f]) # {}
  PROVE  Replacing(t, marks, lits, f, ReplaceFirst(got, marks[f], lits[f]))
<1>1. PICK R : UpTo(t, marks, R, f) /\ got = FlattenSeq(Pieces(t, marks, lits, R))
  BY DEF Replacing
<1>2. Occurrences(FlattenSeq(Pieces(t, marks, lits, R)), marks[f]) # {}
  BY <1>1
<1>3. PICK p : Turn(t, marks, lits, R, f, p)
  BY <1>1, <1>2, TurnReplaces, Zenon
<1>4. /\ p \in Starts(t, marks) /\ Longest(t, marks, p) = f
      /\ ReplaceFirst(got, marks[f], lits[f]) = FlattenSeq(Pieces(t, marks, lits, R \cup {p}))
  BY <1>1, <1>3 DEF Turn
<1>5. UpTo(t, marks, R \cup {p}, f)
  <2>1. f <= f
    BY DEF Template
  <2>2. QED
    BY <1>1, <1>4, <2>1 DEF UpTo
<1>6. QED
  BY <1>4, <1>5 DEF Replacing

LEMMA NoTurn ==
  ASSUME NEW S, NEW t, NEW marks, NEW k, Template(S, t, marks, k),
         NEW lits, Literals(S, lits, k), NEW f \in 0..k, NEW got, Replacing(t, marks, lits, f, got),
         Occurrences(got, marks[f]) = {}
  PROVE  Replacing(t, marks, lits, f + 1, got)
<1>1. PICK R : UpTo(t, marks, R, f) /\ got = FlattenSeq(Pieces(t, marks, lits, R))
  BY DEF Replacing
<1>2. Occurrences(FlattenSeq(Pieces(t, marks, lits, R)), marks[f]) = {}
  BY <1>1
<1>3. ASSUME NEW p \in Starts(t, marks) PROVE Longest(t, marks, p) \in Nat /\ f \in Nat
  <2>1. StartAt(t, marks, k, p, Longest(t, marks, p))
    BY StartIs
  <2>2. QED
    BY <2>1 DEF StartAt, Template
<1>4. ASSUME NEW p \in Starts(t, marks), Longest(t, marks, p) < f + 1 PROVE p \in R
  <2>1. Longest(t, marks, p) <= f
    BY <1>3, <1>4
  <2>2. QED
    BY <1>1, <1>2, <2>1, NoneLeft, Zenon
<1>5. R \subseteq Starts(t, marks) /\ \A p \in R : Longest(t, marks, p) <= f
  BY <1>1 DEF UpTo
<1>6. \A p \in R : Longest(t, marks, p) <= f + 1
  <2>1. ASSUME NEW p \in R PROVE Longest(t, marks, p) <= f + 1
    <3>1. PICK g : g = Longest(t, marks, p)
      OBVIOUS
    <3>2. g \in Nat /\ f \in Nat /\ g <= f
      BY <1>3, <1>5, <3>1
    <3>3. QED
      BY <3>1, <3>2
  <2>2. QED
    BY <2>1
<1>7. UpTo(t, marks, R, f + 1)
  BY <1>4, <1>5, <1>6 DEF UpTo
<1>8. QED
  BY <1>1, <1>7 DEF Replacing

\* The first turn, for a placeholder that is in the template once at most.
LEMMA FirstTurn ==
  ASSUME NEW S, NEW t, NEW marks, NEW k, Template(S, t, marks, k),
         NEW lits, Literals(S, lits, k), \A p, q \in Occurrences(t, marks[0]) : p = q
  PROVE  Replacing(t, marks, lits, 1, ReplaceFirst(t, marks[0], lits[0]))
<1>1. 0 \in 0..k /\ k \in Nat
  BY DEF Template
<1>2. ASSUME NEW p \in Starts(t, marks)
      PROVE  /\ Longest(t, marks, p) \in Nat
             /\ Longest(t, marks, p) < 1 => p \in Occurrences(t, marks[0])
  <2>1. PICK g : g = Longest(t, marks, p)
    OBVIOUS
  <2>2. FirstMark(t, marks, p, g)
    <3>1. MarksAt(t, marks, p) # {}
      BY DEF Starts
    <3>2. QED
      BY <2>1, <3>1, LongestIsFirst
  <2>3. g \in MarksAt(t, marks, p)
    BY <2>2 DEF FirstMark
  <2>4. g \in 0..k /\ p \in Occurrences(t, marks[g])
    BY <2>3 DEF MarksAt, Template
  <2>5. g < 1 => g = 0
    BY <1>1, <2>4
  <2>6. QED
    BY <1>1, <2>1, <2>4, <2>5
<1>3. UpTo(t, marks, {}, 0)
  <2>1. \A p \in Starts(t, marks) : ~(Longest(t, marks, p) < 0)
    <3>1. ASSUME NEW p \in Starts(t, marks) PROVE ~(Longest(t, marks, p) < 0)
      <4>1. PICK g \in Nat : g = Longest(t, marks, p)
        BY <1>2
      <4>2. QED
        BY <4>1
    <3>2. QED
      BY <3>1
  <2>2. QED
    BY <2>1 DEF UpTo
<1>4. FlattenSeq(Pieces(t, marks, lits, {})) = t
  BY NothingReplaced
<1>5. Replacing(t, marks, lits, 0, t)
  BY <1>3, <1>4 DEF Replacing
<1>6. CASE Occurrences(t, marks[0]) = {}
  <2>1. Replacing(t, marks, lits, 0 + 1, t)
    BY <1>1, <1>5, <1>6, NoTurn, Zenon
  <2>2. ReplaceFirst(t, marks[0], lits[0]) = t
    BY <1>6 DEF ReplaceFirst
  <2>3. 0 + 1 = 1
    OBVIOUS
  <2>4. QED
    BY <2>1, <2>2, <2>3
<1>7. CASE Occurrences(t, marks[0]) # {}
  <2>1. PICK p : Turn(t, marks, lits, {}, 0, p)
    <3>1. Occurrences(FlattenSeq(Pieces(t, marks, lits, {})), marks[0]) # {}
      BY <1>4, <1>7
    <3>2. QED
      BY <1>1, <1>3, <3>1, TurnReplaces, Zenon
  <2>2. /\ p \in Starts(t, marks) /\ Longest(t, marks, p) = 0
        /\ ReplaceFirst(t, marks[0], lits[0]) = FlattenSeq(Pieces(t, marks, lits, {} \cup {p}))
    BY <1>4, <2>1 DEF Turn
  <2>3. PICK R : R = {} \cup {p}
    OBVIOUS
  <2>4. p \in Occurrences(t, marks[0])
    <3>1. 0 < 1
      OBVIOUS
    <3>2. QED
      BY <1>2, <2>2, <3>1
  <2>5. \A q \in Starts(t, marks) : Longest(t, marks, q) < 1 => q \in R
    BY <1>2, <2>3, <2>4
  <2>6. \A q \in R : Longest(t, marks, q) <= 1
    BY <2>2, <2>3
  <2>7. UpTo(t, marks, R, 1)
    BY <2>2, <2>3, <2>5, <2>6 DEF UpTo
  <2>8. QED
    BY <2>2, <2>3, <2>7 DEF Replacing
<1>8. QED
  BY <1>6, <1>7

\* After the last parameter every placeholder of the template was replaced.
LEMMA LastTurn ==
  ASSUME NEW S, NEW t, NEW marks, NEW k, Template(S, t, marks, k),
         NEW lits, NEW got, Replacing(t, marks, lits, k + 1, got)
  PROVE  got = FlattenSeq(Pieces(t, marks, lits, Starts(t, marks)))
<1>1. PICK R : UpTo(t, marks, R, k + 1) /\ got = FlattenSeq(Pieces(t, marks, lits, R))
  BY DEF Replacing
<1>2. ASSUME NEW p \in Starts(t, marks) PROVE p \in R
  <2>1. PICK g : g = Longest(t, marks, p)
    OBVIOUS
  <2>2. g \in 0..k /\ k \in Nat
    <3>1. StartAt(t, marks, k, p, g)
      BY <2>1, StartIs
    <3>2. QED
      BY <3>1 DEF StartAt, Template
  <2>3. g < k + 1
    BY <2>2
  <2>4. QED
    BY <1>1, <2>1, <2>3 DEF UpTo
<1>3. R = Starts(t, marks)
  BY <1>1, <1>2 DEF UpTo
<1>4. QED
  BY <1>1, <1>3

-----------------------------------------------------------------------------
(* Literals and placeholders. *)

LEMMA OwnRange ==
  ASSUME NEW S, NEW q \in Seq(S)
  PROVE  q \in Seq(Range(q)) /\ Range(q) = {q[i] : i \in 1..Len(q)}
<1>1. Len(q) \in Nat /\ DOMAIN q = 1..Len(q) /\ q = [i \in 1..Len(q) |-> q[i]]
  OBVIOUS
<1>2. Range(q) = {q[i] : i \in 1..Len(q)}
  BY <1>1 DEF Range
<1>3. q \in [1..Len(q) -> Range(q)]
  BY <1>1, <1>2
<1>4. q \in Seq(Range(q))
  BY <1>1, <1>3
<1>5. QED
  BY <1>2, <1>4

\* A text without a character.
Without(q, c) == \A i \in 1..Len(q) : q[i] # c

OneToken(q, c) == \A p : p \in Occurrences(q, <<c>>) <=> p \in 1..Len(q) /\ q[p] = c
LEMMA TokenFound ==
  ASSUME NEW S, NEW q \in Seq(S), NEW c
  PROVE  OneToken(q, c)
<1> DEFINE T == S \cup {c}
<1>1. q \in Seq(T) /\ <<c>> \in Seq(T) /\ Len(<<c>>) = 1 /\ <<c>>[1] = c /\ <<c>> # <<>>
  <2>1. S \subseteq T
    OBVIOUS
  <2> HIDE DEF T
  <2>2. q \in Seq(T)
    BY <2>1, SeqMonotonic
  <2>3. c \in T
    BY DEF T
  <2>4. QED
    BY <2>2, <2>3
<1> HIDE DEF T
<1>2. PICK w \in Seq(T) : w = <<c>>
  BY <1>1
<1>3. ASSUME NEW p PROVE p \in Occurrences(q, w) <=> p \in 1..Len(q) /\ q[p] = c
  <2>1. Occurs(q, w, p)
    BY <1>1, <1>2, OccurrenceIs, Zenon
  <2>2. IsAt(q, w, p) <=> p \in 1..Len(q) /\ q[p] = c
    <3>1. Len(q) \in Nat /\ Len(w) = 1 /\ w[1] = c
      BY <1>1, <1>2, LenProperties
    <3>2. Len(q) - Len(w) + 1 = Len(q)
      BY <3>1
    <3>3. IsAt(q, w, p) <=> p \in 1..Len(q) /\ \A i \in 1..1 : q[p + i - 1] = w[i]
      BY <3>1, <3>2 DEF IsAt
    <3>4. p \in 1..Len(q) => p + 1 - 1 = p
      BY <3>1
    <3>5. (\A i \in 1..1 : q[p + i - 1] = w[i]) <=> q[p + 1 - 1] = w[1]
      OBVIOUS
    <3>6. QED
      BY <3>1, <3>3, <3>4, <3>5
  <2>3. QED
    BY <2>1, <2>2 DEF Occurs
<1>4. QED
  BY <1>2, <1>3 DEF OneToken

\* A text between quotes.
Quotes(q) == <<"'">> \o q \o <<"'">>
LEMMA QuotedText ==
  ASSUME NEW S, NEW q \in Seq(S), Without(q, "$")
  PROVE  Quotes(q) \in Seq(S \cup {"'"}) /\ Without(Quotes(q), "$")
<1> DEFINE T == S \cup {"'"}
<1>1. S \subseteq T /\ "'" \in T
  OBVIOUS
<1> HIDE DEF T
<1>2. q \in Seq(T)
  BY <1>1, SeqMonotonic
<1>3. PICK w \in Seq(T) : w = <<"'">>
  <2>1. PICK c \in T : c = "'"
    BY <1>1
  <2>2. <<c>> \in Seq(T)
    OBVIOUS
  <2>3. QED
    BY <2>1, <2>2
<1>4. Len(w) = 1 /\ w[1] = "'"
  BY <1>3
<1>5. PICK x \in Seq(T) : x = w \o q
  BY <1>2, ConcatProperties
<1>6. /\ Len(q) \in Nat /\ Len(x) = Len(w) + Len(q)
      /\ \A i \in 1..Len(w) : x[i] = w[i]
      /\ \A i \in 1..Len(q) : x[Len(w) + i] = q[i]
  BY <1>2, <1>5, Joined
<1>7. Without(x, "$")
  <2>1. ASSUME NEW i \in 1..Len(x) PROVE x[i] # "$"
    <3>1. CASE i = 1
      BY <1>4, <1>6, <3>1
    <3>2. CASE i # 1
      <4>1. i - 1 \in 1..Len(q) /\ Len(w) + (i - 1) = i
        BY <1>4, <1>6, <3>2
      <4>2. QED
        BY <1>6, <4>1 DEF Without
    <3>3. QED
      BY <3>1, <3>2
  <2>2. QED
    BY <2>1 DEF Without
<1>8. PICK y \in Seq(T) : y = x \o w
  BY ConcatProperties
<1>9. /\ Len(x) \in Nat /\ Len(y) = Len(x) + Len(w)
      /\ \A i \in 1..Len(x) : y[i] = x[i]
      /\ \A i \in 1..Len(w) : y[Len(x) + i] = w[i]
  BY <1>8, Joined
<1>10. Without(y, "$")
  <2>1. ASSUME NEW i \in 1..Len(y) PROVE y[i] # "$"
    <3>1. CASE i <= Len(x)
      <4>1. i \in 1..Len(x)
        BY <1>4, <1>9, <3>1
      <4>2. QED
        BY <1>7, <1>9, <4>1 DEF Without
    <3>2. CASE ~(i <= Len(x))
      <4>1. i = Len(x) + 1 /\ 1 \in 1..Len(w)
        BY <1>4, <1>9, <3>2
      <4>2. QED
        BY <1>4, <1>9, <4>1
    <3>3. QED
      BY <3>1, <3>2
  <2>2. QED
    BY <2>1 DEF Without
<1>11. y = Quotes(q)
  BY <1>3, <1>5, <1>8 DEF Quotes
<1>12. QED
  BY <1>10, <1>11 DEF T

\* A placeholder begins with its only $.
IsMark(S, mark) ==
  /\ mark \in Seq(S) /\ Len(mark) \in Nat /\ 1 <= Len(mark) /\ mark[1] = "$"
  /\ \A j \in 1..Len(mark) : mark[j] = "$" => j = 1
LEMMA PlaceholderIs ==
  ASSUME NEW S, NEW name \in Seq(S), Without(name, "$")
  PROVE  IsMark(S \cup {"$"}, Placeholder(name))
<1> DEFINE T == S \cup {"$"}
<1>1. S \subseteq T /\ "$" \in T
  OBVIOUS
<1> HIDE DEF T
<1>2. name \in Seq(T)
  BY <1>1, SeqMonotonic
<1>3. PICK w \in Seq(T) : w = <<"$">>
  <2>1. PICK c \in T : c = "$"
    BY <1>1
  <2>2. <<c>> \in Seq(T)
    OBVIOUS
  <2>3. QED
    BY <2>1, <2>2
<1>4. Len(w) = 1 /\ w[1] = "$"
  BY <1>3
<1>5. PICK x \in Seq(T) : x = w \o name
  BY <1>2, ConcatProperties
<1>6. /\ Len(name) \in Nat /\ Len(x) = Len(w) + Len(name)
      /\ \A i \in 1..Len(w) : x[i] = w[i]
      /\ \A i \in 1..Len(name) : x[Len(w) + i] = name[i]
  BY <1>2, <1>5, Joined
<1>7. ASSUME NEW i \in 1..Len(x), i # 1 PROVE x[i] # "$"
  <2>1. i - 1 \in 1..Len(name) /\ Len(w) + (i - 1) = i
    BY <1>4, <1>6, <1>7
  <2>2. QED
    BY <1>6, <2>1 DEF Without
<1>8. Len(x) \in Nat /\ 1 <= Len(x) /\ 1 \in 1..Len(w)
  BY <1>4, <1>6
<1>9. x = Placeholder(name)
  BY <1>3, <1>5 DEF Placeholder
<1>10. x[1] = "$"
  BY <1>4, <1>6, <1>8
<1>11. QED
  BY <1>7, <1>8, <1>9, <1>10 DEF IsMark, T

\* Doubled() of MeantLiteral.
DoubledPieces(value) ==
  [c \in DOMAIN value |-> IF value[c] = "'" THEN <<"'", "'">> ELSE <<value[c]>>]
DoubledQuotes(value) == FlattenSeq(DoubledPieces(value))

LEMMA DoubledIs ==
  ASSUME NEW S, NEW value \in Seq(S)
  PROVE  /\ DoubledQuotes(value) \in Seq(S \cup {"'"})
         /\ DoubledQuotes(value) = <<>> <=> value = <<>>
         /\ Stored(value, "string") = DoubledQuotes(value)
<1> DEFINE n == Len(value)
           T == S \cup {"'"}
           V == Seq(T)
           P == DoubledPieces(value)
<1>1. n \in Nat /\ DOMAIN value = 1..n /\ \A c \in 1..n : value[c] \in T
  BY LenProperties, ElementOfSeq
<1>2. <<"'", "'">> \in V /\ \A x \in T : <<x>> \in V
  <2>1. PICK x \in T : x = "'"
    OBVIOUS
  <2> HIDE DEF T
  <2>2. <<x, x>> \in Seq(T)
    OBVIOUS
  <2>3. QED
    BY <2>1, <2>2
<1>3. P = [c \in 1..n |-> IF value[c] = "'" THEN <<"'", "'">> ELSE <<value[c]>>]
  BY <1>1 DEF DoubledPieces
<1> HIDE DEF V, n, P
<1>4. P \in [1..n -> V]
  BY <1>1, <1>2, <1>3
<1>5. P \in Seq(V) /\ Len(P) = n
  BY <1>1, <1>4
<1>6. FlattenSeq(P) \in Seq(T)
  BY <1>5, FlattenPoints DEF V
<1>7. ASSUME n = 0 PROVE FlattenSeq(P) = <<>>
  <2>1. P = <<>>
    BY <1>5, <1>7
  <2>2. \A i \in 1..Len(P) : P[i] = <<>>
    BY <2>1
  <2>3. Cut(P, 1, Len(P)) = <<>>
    <3>1. P \in Seq(Seq(T))
      BY <1>5 DEF V
    <3>2. QED
      BY <2>2, <3>1, CutNothing
  <2>4. QED
    BY <1>5, <2>3, CutWhole DEF V
<1>8. ASSUME n # 0 PROVE FlattenSeq(P) # <<>>
  <2>1. P \in Seq(Seq(T))
    BY <1>5 DEF V
  <2>2. PICK x \in Seq(T), y \in Seq(T) : x = P[1] /\ y = Cut(P, 1 + 1, Len(P)) /\ FlattenSeq(P) = x \o y
    <3>1. 1 \in 1..Len(P) /\ 1 <= Len(P) /\ Len(P) \in Nat /\ 1 <= 1 + 1 /\ 1 \in Nat
      BY <1>1, <1>5, <1>8
    <3>2. SplitAt(P, 1, 1, Len(P))
      BY <2>1, <3>1, CutSplit, Zenon
    <3>3. Cut(P, 1, 1) = P[1]
      BY <2>1, <3>1, CutOne
    <3>4. Cut(P, 1, Len(P)) = FlattenSeq(P)
      BY <2>1, CutWhole
    <3>5. Cut(P, 1 + 1, Len(P)) \in Seq(T) /\ Cut(P, 1, 1) \in Seq(T)
      BY <2>1, CutIs
    <3>6. QED
      BY <3>2, <3>3, <3>4, <3>5 DEF SplitAt
  <2>3. Len(x) # 0
    <3>1. P[1] = <<"'", "'">> \/ P[1] = <<value[1]>>
      BY <1>1, <1>3, <1>8
    <3>2. CASE P[1] = <<"'", "'">>
      <4>1. Len(<<"'", "'">>) = 2
        OBVIOUS
      <4>2. QED
        BY <2>2, <3>2, <4>1
    <3>3. CASE P[1] = <<value[1]>>
      <4>1. PICK e : e = value[1]
        OBVIOUS
      <4>2. Len(<<e>>) = 1
        OBVIOUS
      <4>3. QED
        BY <2>2, <3>3, <4>1, <4>2
    <3>4. QED
      BY <3>1, <3>2, <3>3
  <2>4. Len(x \o y) = Len(x) + Len(y) /\ Len(x) \in Nat /\ Len(y) \in Nat
    BY Joined
  <2>5. Len(x \o y) # 0
    BY <2>3, <2>4
  <2>6. Len(<<>>) = 0
    OBVIOUS
  <2>7. QED
    BY <2>2, <2>5, <2>6
<1>9. value = <<>> <=> n = 0
  BY DEF n
<1>10. Stored(value, "string") = FlattenSeq(P)
  <2>1. ReplaceToken(value, "'", <<"'", "'">>) = FlattenSeq(P)
    <3>1. <<"'", "'">> # <<>>
      OBVIOUS
    <3>2. QED
      BY <3>1 DEF ReplaceToken, P, DoubledPieces
  <2>2. \A q : ReplaceToken(q, "\\", <<>>) = q
    BY DEF ReplaceToken
  <2>3. QED
    BY <2>1, <2>2 DEF Stored
<1>11. QED
  BY <1>6, <1>7, <1>8, <1>9, <1>10 DEF DoubledQuotes, P, T

\* A text without quotes is not changed.
LEMMA NothingDoubled ==
  ASSUME NEW S, NEW value \in Seq(S), Without(value, "'")
  PROVE  DoubledQuotes(value) = value
<1> DEFINE P == DoubledPieces(value)
<1>1. /\ Len(value) \in Nat /\ DOMAIN value = 1..Len(value)
      /\ \A c \in 1..Len(value) : value[c] \in S /\ <<value[c]>> \in Seq(S)
  BY LenProperties, ElementOfSeq
<1>2. P = [c \in 1..Len(value) |-> <<value[c]>>]
  BY <1>1 DEF Without, DoubledPieces
<1> HIDE DEF P
<1>3. P \in Seq(Seq(S)) /\ Len(P) = Len(value) /\ \A c \in 1..Len(value) : P[c] = <<value[c]>>
  <2> DEFINE V == Seq(S)
  <2>1. \A c \in 1..Len(value) : <<value[c]>> \in V
    BY <1>1
  <2> HIDE DEF V
  <2>2. P \in [1..Len(value) -> V]
    BY <1>2, <2>1
  <2>3. P \in Seq(V) /\ Len(P) = Len(value)
    BY <1>1, <2>2
  <2>4. QED
    BY <1>2, <2>3 DEF V
<1>4. Copied(P, value, 1, Len(value))
  <2>1. IsCopy(P, value, 1, Len(value))
    BY <1>1, <1>3 DEF IsCopy
  <2>2. 1 \in Nat
    OBVIOUS
  <2>3. QED
    BY <1>1, <1>3, <2>1, <2>2, CutSingles, Zenon
<1>5. SubSeq(value, 1, Len(value)) = value
  BY SubSeqFull
<1>6. Cut(P, 1, Len(P)) = FlattenSeq(P)
  BY <1>3, CutWhole
<1>7. QED
  BY <1>3, <1>4, <1>5, <1>6 DEF Copied, P, DoubledQuotes

\* The literal of a value of a type.
LiteralOf(value, type) ==
  CASE value = <<>> -> <<"NULL">>
    [] value # <<>> /\ type \in {"int", "integer", "double"} -> value
    [] OTHER -> Quotes(DoubledQuotes(value))

NoDollar(q) == \E T : q \in Seq(T) /\ Without(q, "$")
LEMMA OneCharacter ==
  ASSUME NEW c, c # "$"
  PROVE  NoDollar(<<c>>)
<1>0. PICK T : c \in T
  <2>1. c \in {c}
    OBVIOUS
  <2>2. QED
    BY <2>1
<1>1. PICK q \in Seq(T) : q = <<c>>
  <2>1. <<c>> \in Seq(T)
    BY <1>0
  <2>2. QED
    BY <2>1
<1>2. Len(q) = 1 /\ q[1] = c
  BY <1>1
<1>3. Without(q, "$")
  BY <1>2 DEF Without
<1>4. QED
  BY <1>1, <1>3 DEF NoDollar

GoodLiteral(value, type) ==
  /\ Literal(Stored(value, type), type) = LiteralOf(value, type)
  /\ NoDollar(LiteralOf(value, type))

LEMMA LiteralMeant ==
  ASSUME NEW S, NEW value \in Seq(S), NEW type \in Types, value # <<>> => HasType(value, type),
         Occurrences(Stored(value, type), <<"$">>) = {},
         type = "date" => "'" \notin Range(Stored(value, type))
  PROVE  GoodLiteral(value, type)
<1>1. CASE value = <<>>
  <2>1. Stored(value, type) = <<>>
    <3>1. DoubledQuotes(value) = <<>> /\ Stored(value, "string") = DoubledQuotes(value)
      BY <1>1, DoubledIs
    <3>2. CASE type = "string"
      BY <3>1, <3>2
    <3>3. CASE type # "string"
      BY <1>1, <3>3 DEF Stored
    <3>4. QED
      BY <3>2, <3>3
  <2>2. Literal(Stored(value, type), type) = <<"NULL">> /\ LiteralOf(value, type) = <<"NULL">>
    BY <1>1, <2>1 DEF Literal, LiteralOf
  <2>3. NoDollar(<<"NULL">>)
    <3>1. "NULL" # "$"
      OBVIOUS
    <3>2. QED
      BY <3>1, OneCharacter
  <2>4. QED
    BY <2>2, <2>3 DEF GoodLiteral
<1>2. CASE value # <<>> /\ type \in {"int", "integer", "double"}
  <2>1. Stored(value, type) = value
    BY <1>2 DEF Stored
  <2>2. Literal(Stored(value, type), type) = value /\ LiteralOf(value, type) = value
    BY <1>2, <2>1 DEF Literal, LiteralOf
  <2>3. Without(value, "$")
    <3>1. OneToken(value, "$")
      BY TokenFound
    <3>2. Occurrences(value, <<"$">>) = {}
      BY <2>1
    <3>3. QED
      BY <3>1, <3>2 DEF OneToken, Without
  <2>4. QED
    BY <2>2, <2>3 DEF GoodLiteral, NoDollar
<1>3. CASE value # <<>> /\ type \in {"date", "string"}
  <2>1. PICK T : DoubledQuotes(value) \in Seq(T)
    BY DoubledIs
  <2>2. Stored(value, type) = DoubledQuotes(value)
    <3>1. CASE type = "string"
      BY <3>1, DoubledIs
    <3>2. CASE type = "date"
      <4>1. Stored(value, type) = value
        BY <3>2 DEF Stored
      <4>2. Range(value) = {value[i] : i \in 1..Len(value)}
        BY OwnRange
      <4>3. Without(value, "'")
        BY <3>2, <4>1, <4>2 DEF Without
      <4>4. QED
        BY <4>1, <4>3, NothingDoubled
    <3>3. QED
      BY <1>3, <3>1, <3>2
  <2>3. DoubledQuotes(value) # <<>>
    BY <1>3, DoubledIs
  <2>4. type \notin {"int", "integer", "double"}
    BY <1>3
  <2>5. /\ Literal(Stored(value, type), type) = Quotes(DoubledQuotes(value))
        /\ LiteralOf(value, type) = Quotes(DoubledQuotes(value))
    BY <1>3, <2>2, <2>3, <2>4 DEF Literal, LiteralOf, Quotes
  <2>6. Without(DoubledQuotes(value), "$")
    <3>1. OneToken(DoubledQuotes(value), "$")
      BY <2>1, TokenFound
    <3>2. Occurrences(DoubledQuotes(value), <<"$">>) = {}
      BY <2>2
    <3>3. QED
      BY <3>1, <3>2 DEF OneToken, Without
  <2>7. NoDollar(Quotes(DoubledQuotes(value)))
    BY <2>1, <2>6, QuotedText DEF NoDollar
  <2>8. QED
    BY <2>5, <2>7 DEF GoodLiteral
<1>4. QED
  BY <1>1, <1>2, <1>3 DEF Types

-----------------------------------------------------------------------------
(* The inductive invariant. *)

\* The parser: the fields of the service that is being read, and those of the
\* services read, are sequences.
ParserInv ==
  /\ loop \in {"file", "service", "fields", "email", "done", "aborted"}
  /\ IsSequence(params)
  /\ DOMAIN m = {"texts", "secure", "fields", "mail"}
  /\ IsSequence(m.fields)
  /\ \A u \in DOMAIN services : IsSequence(services[u].fields)

\* The request: there is none before the configuration is loaded, and then it
\* is for a service that was loaded.
RequestInv ==
  /\ stage \in {"none", "received", "refused", "substitute", "done"}
  /\ IF stage = "none" THEN path = <<>> ELSE loop = "done" /\ path \in DOMAIN services
  /\ IF stage \in {"substitute", "done"}
       THEN field \in 1..Len(Fields) + 1 /\ DOMAIN values = DOMAIN Fields
       ELSE field = 0 /\ values = <<>>

\* The template of the service, the literals that its placeholders stand for,
\* and the values as they are stored.
Sql == services[path].texts["sql"]
Lits == [i \in DOMAIN Marks |-> MeantLiteral(i)]
AsStored == [i \in DOMAIN Fields |-> Stored(Input(i), Fields[i].type)]

\* While sql() works on the text, the placeholders of the parameters before the
\* field are replaced, and as many of the field's as there were turns.
TextInv ==
  stage \in {"substitute", "done"} =>
    /\ stage = "done" => field = Len(Fields) + 1
    /\ values = AsStored
    /\ Apart(AsStored, Sql) => Replacing(Sql, Marks, Lits, field, text)

IInv == ParserInv /\ ConfigInv /\ RequestInv /\ FormInv /\ TextInv

-----------------------------------------------------------------------------
LEMMA NoFieldsIsSequence == IsSequence(<<>>)
BY DEF IsSequence

\* The steps of the parser keep its part; once it is done there is none.
LEMMA ParseStep ==
  ASSUME ParserInv, Parse
  PROVE  ParserInv' /\ loop # "done"
<1> USE DEF ParserInv, GetLine
<1>1. CASE ReadTop
  <2>1. /\ loop = "file" /\ loop' \in {"file", "service"} /\ UNCHANGED <<params, services>>
        /\ m' = m \/ m' = NewService
    BY <1>1 DEF ReadTop
  <2>2. DOMAIN NewService = {"texts", "secure", "fields", "mail"}
        /\ IsSequence(NewService.fields)
    BY NoFieldsIsSequence DEF NewService
  <2>3. QED
    BY <2>1, <2>2
<1>2. CASE ReadKey
  <2>1. /\ loop = "service" /\ UNCHANGED <<loop, params, services>>
        /\ DOMAIN m' = DOMAIN m /\ m'.fields = m.fields
    BY <1>2 DEF ReadKey
  <2>2. QED
    BY <2>1
<1>a. CASE SkipLine
  BY <1>a DEF SkipLine
<1>3. CASE EnterLoop
  BY <1>3, NoFieldsIsSequence DEF EnterLoop
<1>4. CASE EndService
  <2>1. loop = "service" /\ loop' = "file" /\ UNCHANGED <<m, params>>
    BY <1>4 DEF EndService
  <2>2. \A u \in DOMAIN services' : IsSequence(services'[u].fields)
    BY <1>4 DEF EndService
  <2>3. QED
    BY <2>1, <2>2
<1>5. CASE ReadField
  <2>1. /\ loop = "fields" /\ loop' \in {loop, "aborted"} /\ UNCHANGED <<m, services>>
        /\ params' = params \/ \E e : params' = Append(params, e)
    BY <1>5 DEF ReadField
  <2>2. \A e : IsSequence(Append(params, e))
    BY AppendIsSequence
  <2>3. IsSequence(params')
    BY <2>1, <2>2
  <2>4. QED
    BY <2>1, <2>3
<1>6. CASE EndFields
  BY <1>6 DEF EndFields
<1>7. CASE ReadMail
  <2>1. /\ loop = "email" /\ loop' \in {loop, "service"} /\ UNCHANGED <<params, services>>
        /\ DOMAIN m' = DOMAIN m /\ m'.fields = m.fields
    BY <1>7 DEF ReadMail
  <2>2. QED
    BY <2>1
<1>8. CASE EndOfFile
  BY <1>8 DEF EndOfFile
<1>9. QED
  BY <1>1, <1>2, <1>a, <1>3, <1>4, <1>5, <1>6, <1>7, <1>8 DEF Parse

LEMMA InitInv == Init => IInv
<1>1. Init => ParserInv /\ RequestInv
  BY NoFieldsIsSequence DEF Init, ParserInit, ParserInv, RequestInv, NewService
<1>2. Init => ConfigInv
  BY ConfigInit DEF Init
<1>3. Init => FormInv /\ TextInv
  BY DEF Init, FormInv, TextInv
<1>4. QED
  BY <1>1, <1>2, <1>3 DEF IInv

\* A request changes nothing of what was loaded.
LEMMA ConfigKept ==
  ASSUME ConfigInv, UNCHANGED parserVars
  PROVE  ConfigInv'
<1>1. UNCHANGED <<document, todo, loop, uri, m, params, services>>
  BY DEF parserVars
<1>2. \A L, s, a, b, c, d, j : InService(L, s, a, b, c, d, j) => InService(L, s, a, b, c, d, j)'
  BY <1>1 DEF InService, Shape, LoopAt, TextsRead, SecureRead, FieldsRead, MailRead
<1>3. ASSUME NEW n, NEW place, NEW j, NEW last, Reading(n, place, j, last)
      PROVE  Reading(n, place, j, last)'
  BY <1>1, <1>2, <1>3 DEF Reading
<1>4. PICK n \in 0..Len(document) :
        /\ Loaded(n)
        /\ \/ loop \in {"done", "aborted"}
           \/ \E place : \E j, last \in Nat : Reading(n, place, j, last)
  BY DEF ConfigInv
<1>5. Loaded(n)'
  BY <1>1, <1>4, LoadedKept
<1>6. loop' \in {"done", "aborted"} \/ \E place : \E j, last \in Nat : Reading(n, place, j, last)'
  BY <1>1, <1>3, <1>4
<1>7. document' \in Documents /\ n \in 0..Len(document')
  BY <1>1, <1>4 DEF ConfigInv
<1>8. QED
  BY <1>5, <1>6, <1>7 DEF ConfigInv

LEMMA RequestStep ==
  ASSUME ParserInv, RequestInv, [Next]_vars
  PROVE  ParserInv' /\ RequestInv'
<1> USE DEF parserVars, requestVars
<1>1. CASE Load
  <2>1. ParserInv' /\ loop # "done"
    BY <1>1, ParseStep DEF Load
  <2>2. stage = "none"
    BY <2>1 DEF RequestInv
  <2>3. RequestInv'
    BY <1>1, <2>2 DEF Load, RequestInv
  <2>4. QED
    BY <2>1, <2>3
<1>2. CASE Receive
  <2>1. /\ loop = "done" /\ stage = "none" /\ stage' = "received"
        /\ path' \in DOMAIN services
        /\ UNCHANGED <<parserVars, values, field>>
    BY <1>2 DEF Receive
  <2>2. QED
    BY <2>1 DEF ParserInv, RequestInv
<1>3. CASE Refuse
  BY <1>3 DEF Refuse, ParserInv, RequestInv
<1>4. CASE Accept
  <2>1. /\ stage = "received" /\ stage' = "substitute" /\ field' = 1
        /\ UNCHANGED <<parserVars, path>> /\ DOMAIN values' = DOMAIN Fields
    BY <1>4 DEF Accept
  <2>2. loop = "done" /\ path \in DOMAIN services
    BY <2>1 DEF RequestInv
  <2>3. Fields' = Fields /\ Len(Fields) \in Nat
    BY <2>1, <2>2 DEF Fields, ParserInv, IsSequence
  <2>4. 1 \in 1..Len(Fields) + 1
    BY <2>3
  <2>5. QED
    BY <2>1, <2>2, <2>3, <2>4 DEF ParserInv, RequestInv
<1>5. CASE Substitute
  <2>1. UNCHANGED <<parserVars, stage, path, values, field>>
    BY <1>5 DEF Substitute
  <2>2. Fields' = Fields
    BY <2>1 DEF Fields
  <2>3. QED
    BY <2>1, <2>2 DEF ParserInv, RequestInv
<1>6. CASE NextField
  <2>1. /\ stage = "substitute" /\ UNCHANGED <<parserVars, path, values>>
        /\ \/ field > Len(Fields) /\ stage' = "done" /\ field' = field
           \/ ~(field > Len(Fields)) /\ stage' = stage /\ field' = field + 1
    BY <1>6 DEF NextField, Finished
  <2>2. loop = "done" /\ path \in DOMAIN services
    BY <2>1 DEF RequestInv
  <2>3. Fields' = Fields /\ Len(Fields) \in Nat
    BY <2>1, <2>2 DEF Fields, ParserInv, IsSequence
  <2>4. field \in 1..Len(Fields) + 1 /\ DOMAIN values = DOMAIN Fields
    BY <2>1 DEF RequestInv
  <2>5. ~(field > Len(Fields)) => field + 1 \in 1..Len(Fields) + 1
    BY <2>3, <2>4
  <2>6. field' \in 1..Len(Fields) + 1
    BY <2>1, <2>4, <2>5
  <2>7. QED
    BY <2>1, <2>2, <2>3, <2>4, <2>6 DEF ParserInv, RequestInv
<1>7. CASE UNCHANGED vars
  <2>1. UNCHANGED <<parserVars, stage, path, values, field>>
    BY <1>7 DEF vars
  <2>2. Fields' = Fields
    BY <2>1 DEF Fields
  <2>3. QED
    BY <2>1, <2>2 DEF ParserInv, RequestInv
<1>8. QED
  BY <1>1, <1>2, <1>3, <1>4, <1>5, <1>6, <1>7 DEF Next, Serve

\* The names of fields have no quotes: a name is that of its line.
LEMMA NameTaken ==
  ASSUME NEW doc \in Documents, NEW d \in DOMAIN doc, NEW i \in DOMAIN doc[d].fields
  PROVE  GetAttribute(doc[d].fields[i].name) = doc[d].fields[i].name
<1> DEFINE name == doc[d].fields[i].name
<1>1. name \in Seq(Range(name) \ {"&", "=", Quote, "name=", "\n"})
  BY NamesAssumption
<1> HIDE DEF name
<1>2. \A c \in DOMAIN name : name[c] # Quote
  <2>1. \A c \in 1..Len(name) : name[c] \in Range(name) \ {"&", "=", Quote, "name=", "\n"}
    BY <1>1, ElementOfSeq
  <2>2. DOMAIN name = 1..Len(name)
    BY <1>1, LenProperties
  <2>3. QED
    BY <2>1, <2>2
<1>3. "\"" \notin Range(name)
  BY <1>2 DEF Range, Quote
<1>4. QED
  BY <1>3, GetUnquoted DEF name

\* A service that is loaded is one of its document.
LEMMA LoadedOne ==
  ASSUME ConfigInv, NEW p \in DOMAIN services
  PROVE  \E d \in DOMAIN document :
           AsRead(services[p], document[d]) /\ WellFormed(document[d])
<1>1. PICK n \in 0..Len(document) : Loaded(n)
  BY DEF ConfigInv
<1>2. PICK d \in FirstOnes(document, n) : p = document[d].uri
  BY <1>1 DEF Loaded
<1>3. document \in Documents
  BY DEF ConfigInv
<1>4. d \in DOMAIN document /\ WellFormed(document[d])
  <2>1. /\ Len(document) \in Nat /\ DOMAIN document = 1..Len(document)
        /\ \A i \in 1..Len(document) : WellFormed(document[i])
    BY <1>3, FilePlaced
  <2>2. d \in 1..n
    BY <1>2 DEF FirstOnes
  <2>3. d \in 1..Len(document)
    BY <2>1, <2>2
  <2>4. QED
    BY <2>1, <2>3
<1>5. AsRead(services[p], document[d])
  BY <1>1, <1>2 DEF Loaded
<1>6. QED
  BY <1>4, <1>5

\* The fields of a service that is loaded are named as its document says, and
\* its template is what get_value() makes of the document's.
LEMMA FieldsNamed ==
  ASSUME ConfigInv, NEW p \in DOMAIN services
  PROVE  \E d \in DOMAIN document :
           LET fields == services[p].fields
               said == document[d].fields
           IN  /\ Len(fields) \in Nat /\ DOMAIN fields = 1..Len(fields)
               /\ DOMAIN fields \subseteq DOMAIN said
               /\ \A i \in DOMAIN fields : said[i].name # <<>> => fields[i].name = said[i].name
               /\ services[p].texts["sql"] = GetValue(document[d].texts["sql"])
               /\ document[d].texts["sql"] \in Seq(Range(document[d].texts["sql"]))
<1>1. PICK d \in DOMAIN document : AsRead(services[p], document[d]) /\ WellFormed(document[d])
  BY LoadedOne
<1> DEFINE fields == services[p].fields
           said == document[d].fields
<1>2. PICK k \in 0..Len(said) : Agreed(fields, said, k)
  BY <1>1 DEF AsRead, Kept
<1>3. Len(said) \in Nat /\ DOMAIN said = 1..Len(said)
  BY <1>1, LenProperties DEF WellFormed
<1>4. Len(fields) = k /\ Len(fields) \in Nat /\ DOMAIN fields = 1..Len(fields)
  BY <1>2 DEF Agreed, IsSequence
<1>5. DOMAIN fields \subseteq DOMAIN said
  BY <1>2, <1>3, <1>4
<1>6. ASSUME NEW i \in DOMAIN fields, said[i].name # <<>> PROVE fields[i].name = said[i].name
  <2>1. fields[i].name = GetAttribute(said[i].name)
    BY <1>2, <1>4, <1>6 DEF Agreed
  <2>2. document \in Documents /\ i \in DOMAIN said
    BY <1>5 DEF ConfigInv
  <2>3. QED
    BY <2>1, <2>2, NameTaken
<1>7. "sql" \in Keys /\ "sql" \in ValueKeys
  BY DEF Keys, ValueKeys
<1>8. services[p].texts["sql"] = GetValue(document[d].texts["sql"])
  BY <1>1, <1>7 DEF AsRead, Read
<1>9. document[d].texts["sql"] \in Seq(Range(document[d].texts["sql"]))
  BY <1>1, <1>7 DEF WellFormed
<1>10. QED
  BY <1>4, <1>5, <1>6, <1>8, <1>9

LEMMA FormStep ==
  ASSUME IInv, [Next]_vars
  PROVE  FormInv'
<1> USE DEF parserVars, requestVars
<1>0. ParserInv /\ ConfigInv /\ RequestInv /\ FormInv
  BY DEF IInv
<1>1. CASE Load
  <2>1. loop # "done"
    BY <1>0, <1>1, ParseStep DEF Load
  <2>2. stage = "none" /\ stage' = stage
    BY <1>0, <1>1, <2>1 DEF RequestInv, Load
  <2>3. QED
    BY <2>2 DEF FormInv
<1>2. CASE Receive
  <2>1. PICK p \in DOMAIN services :
          \E s \in Filled(services[p].fields) :
            /\ path' = p /\ sent' = s
            /\ \/ received' = EofParams(ParseMultipart(MultipartBody(Form(services[p].fields, s))))
               \/ /\ \A i \in DOMAIN services[p].fields : ~IsDocument(services[p].fields[i])
                  /\ received' = [params |-> ParseQueryString(QueryString(Form(services[p].fields, s))),
                                  files |-> <<>>]
    BY <1>2 DEF Receive
  <2> DEFINE fields == services[p].fields
  <2>2. PICK s \in Filled(fields) :
          /\ path' = p /\ sent' = s
          /\ \/ received' = EofParams(ParseMultipart(MultipartBody(Form(fields, s))))
             \/ /\ \A i \in DOMAIN fields : ~IsDocument(fields[i])
                /\ received' = [params |-> ParseQueryString(QueryString(Form(fields, s))),
                                files |-> <<>>]
    BY <2>1
  <2>3. PICK d \in DOMAIN document :
          /\ Len(fields) \in Nat /\ DOMAIN fields = 1..Len(fields)
          /\ DOMAIN fields \subseteq DOMAIN document[d].fields
          /\ \A i \in DOMAIN fields :
               document[d].fields[i].name # <<>> => fields[i].name = document[d].fields[i].name
    BY <1>0, FieldsNamed
  <2>4. Fields' = fields /\ stage' = "received"
    BY <1>2, <2>2 DEF Fields, Receive
  <2> HIDE DEF fields
  <2>5. PICK S : ClientForm(S, fields, s)
    <3>1. document \in Documents
      BY <1>0 DEF ConfigInv
    <3>2. QED
      BY <2>3, <3>1, FormFilled
  <2>6. NotSent # <<>>
    BY SentAssumption
  <2>7. AsSent(fields, s, received')
    BY <2>2, <2>5, <2>6, FormReceived
  <2>8. QED
    BY <2>2, <2>4, <2>5, <2>7 DEF FormInv
<1>3. CASE Refuse \/ Accept
  <2>1. /\ stage = "received" /\ UNCHANGED <<parserVars, path, sent, received>>
        /\ \/ stage' = "refused" /\ \E i \in DOMAIN Fields : BadField(i)
           \/ stage' = "substitute" /\ \A i \in DOMAIN Fields : ~BadField(i)
    BY <1>3 DEF Refuse, Accept
  <2>2. Fields' = Fields /\ \A i : BadField(i)' <=> BadField(i)
    BY <2>1 DEF Fields, BadField, Input
  <2>3. QED
    BY <1>0, <2>1, <2>2 DEF FormInv
<1>4. CASE Substitute \/ NextField \/ UNCHANGED vars
  <2>1. /\ UNCHANGED <<parserVars, path, sent, received>>
        /\ \/ stage' = stage
           \/ stage = "substitute" /\ stage' = "done"
    BY <1>4 DEF Substitute, NextField, vars
  <2>2. Fields' = Fields /\ \A i : BadField(i)' <=> BadField(i)
    BY <2>1 DEF Fields, BadField, Input
  <2>3. QED
    BY <1>0, <2>1, <2>2 DEF FormInv
<1>5. QED
  BY <1>1, <1>2, <1>3, <1>4 DEF Next, Serve

\* A text, whatever its characters are.
HoldsText(q) == \E T : q \in Seq(T)

LEMMA NamesAre ==
  ASSUME ConfigInv, path \in DOMAIN services
  PROVE  /\ Len(Fields) \in Nat /\ DOMAIN Fields = 1..Len(Fields)
         /\ HoldsText(Sql)
         /\ \A i \in DOMAIN Fields : NoDollar(Fields[i].name)
<1>1. PICK d \in DOMAIN document :
        /\ Len(Fields) \in Nat /\ DOMAIN Fields = 1..Len(Fields)
        /\ DOMAIN Fields \subseteq DOMAIN document[d].fields
        /\ \A i \in DOMAIN Fields :
             document[d].fields[i].name # <<>> => Fields[i].name = document[d].fields[i].name
        /\ services[path].texts["sql"] = GetValue(document[d].texts["sql"])
        /\ document[d].texts["sql"] \in Seq(Range(document[d].texts["sql"]))
  BY FieldsNamed DEF Fields
<1>2. document \in Documents
  BY DEF ConfigInv
<1>3. HoldsText(Sql)
  <2>1. \E T : GetValue(document[d].texts["sql"]) \in Seq(T)
    BY <1>1, ValueIsText
  <2>2. QED
    BY <1>1, <2>1 DEF HoldsText, Sql
<1>4. ASSUME NEW i \in DOMAIN Fields PROVE NoDollar(Fields[i].name)
  <2> DEFINE name == document[d].fields[i].name
             N == Range(name) \ {"&", "=", Quote, "name=", "\n"}
  <2>1. name # <<>> /\ name \in Seq(N) /\ "$" \notin Range(name)
    BY <1>1, <1>2, NamesAssumption
  <2>2. Fields[i].name = name
    BY <1>1, <2>1
  <2> HIDE DEF N, name
  <2>3. Range(name) = {name[c] : c \in 1..Len(name)}
    BY <2>1, OwnRange
  <2>4. Without(name, "$")
    BY <2>1, <2>3 DEF Without
  <2>5. QED
    BY <2>1, <2>2, <2>4 DEF NoDollar
<1>5. QED
  BY <1>1, <1>3, <1>4

LEMMA MarksMade ==
  ASSUME ParserInv, ConfigInv, path \in DOMAIN services
  PROVE  /\ Len(Fields) \in Nat /\ DOMAIN Fields = 1..Len(Fields)
         /\ DOMAIN Marks = 0..Len(Fields)
         /\ \A i \in 0..Len(Fields) : \E T : IsMark(T, Marks[i])
<1>1. /\ Len(Fields) \in Nat /\ DOMAIN Fields = 1..Len(Fields)
      /\ \A i \in DOMAIN Fields : NoDollar(Fields[i].name)
  BY NamesAre
<1>2. DOMAIN Marks = 0..Len(Fields)
  BY <1>1 DEF Marks
<1>3. ASSUME NEW i \in 0..Len(Fields) PROVE \E T : IsMark(T, Marks[i])
  <2> DEFINE name == IF i = 0 THEN <<"userlogin">> ELSE Fields[i].name
  <2>1. NoDollar(name)
    <3>1. CASE i = 0
      <4>1. "userlogin" # "$"
        OBVIOUS
      <4>2. NoDollar(<<"userlogin">>)
        BY <4>1, OneCharacter
      <4>3. QED
        BY <3>1, <4>2
    <3>2. CASE i # 0
      <4>1. i \in DOMAIN Fields
        BY <1>1, <3>2
      <4>2. QED
        BY <1>1, <3>2, <4>1
    <3>3. QED
      BY <3>1, <3>2
  <2>2. Marks[i] = Placeholder(name)
    BY <1>1, <1>2 DEF Marks
  <2> HIDE DEF name
  <2>3. PICK T : name \in Seq(T) /\ Without(name, "$")
    BY <2>1 DEF NoDollar
  <2>4. IsMark(T \cup {"$"}, Placeholder(name))
    BY <2>3, PlaceholderIs
  <2>5. QED
    BY <2>2, <2>4
<1>4. QED
  BY <1>1, <1>2, <1>3

MeansLiteral(i) ==
  /\ NoDollar(Lits[i])
  /\ IF i = 0 THEN Lits[i] = Quotes(UserLogin)
     ELSE Literal(AsStored[i], Fields[i].type) = Lits[i]

LEMMA LiteralsMade ==
  ASSUME ParserInv, ConfigInv, FormInv, path \in DOMAIN services, stage # "none",
         \A i \in DOMAIN Fields : ~BadField(i), Apart(AsStored, Sql), NEW i \in 0..Len(Fields)
  PROVE  MeansLiteral(i)
<1>1. /\ Len(Fields) \in Nat /\ DOMAIN Fields = 1..Len(Fields)
      /\ DOMAIN Marks = 0..Len(Fields)
  BY MarksMade
<1>2. Lits[i] = MeantLiteral(i)
  BY <1>1 DEF Lits
<1>3. CASE i = 0
  <2>1. UserLogin \in Seq(Range(UserLogin))
    BY TextsAssumption DEF IsText
  <2>2. Without(UserLogin, "$")
    <3>1. OneToken(UserLogin, "$")
      BY <2>1, TokenFound
    <3>2. Occurrences(UserLogin, <<"$">>) = {}
      BY DEF Apart
    <3>3. QED
      BY <3>1, <3>2 DEF OneToken, Without
  <2>3. NoDollar(Quotes(UserLogin))
    BY <2>1, <2>2, QuotedText DEF NoDollar
  <2>4. MeantLiteral(i) = Quotes(UserLogin)
    BY <1>3 DEF MeantLiteral, Quotes
  <2>5. QED
    BY <1>2, <1>3, <2>3, <2>4 DEF MeansLiteral
<1>4. CASE i # 0
  <2>1. i \in DOMAIN Fields
    BY <1>1, <1>4
  <2>2. PICK S : Input(i) \in Seq(S) /\ Input(i) = Meant(i)
    BY <2>1, InputMeant
  <2>3. Fields[i].type \in Types
    <3>1. FieldsTyped(services[path].fields)
      BY DEF ConfigInv, Loaded
    <3>2. QED
      BY <2>1, <3>1 DEF FieldsTyped, Fields
  <2>4. Input(i) # <<>> => HasType(Input(i), Fields[i].type)
    BY <2>1 DEF BadField
  <2>5. AsStored[i] = Stored(Input(i), Fields[i].type)
    BY <2>1 DEF AsStored
  <2>6. Occurrences(Stored(Input(i), Fields[i].type), <<"$">>) = {}
    <3>1. AsStored[i] \in Range(AsStored)
      BY <2>1 DEF Range, AsStored
    <3>2. QED
      BY <2>5, <3>1 DEF Apart
  <2>a. Fields[i].type = "date" => "'" \notin Range(Stored(Input(i), Fields[i].type))
    BY <2>1, <2>5 DEF Apart
  <2>7. GoodLiteral(Input(i), Fields[i].type)
    BY <2>2, <2>3, <2>4, <2>6, <2>a, LiteralMeant
  <2>8. MeantLiteral(i) = LiteralOf(Meant(i), Fields[i].type)
    BY <1>4 DEF MeantLiteral, LiteralOf, Quotes, DoubledQuotes, DoubledPieces
  <2>9. QED
    BY <1>2, <1>4, <2>2, <2>5, <2>7, <2>8 DEF MeansLiteral, GoodLiteral
<1>5. QED
  BY <1>3, <1>4

\* The template and the literals are as the turns of sql() need them.
Prepared ==
  /\ \E S : Template(S, Sql, Marks, Len(Fields)) /\ Literals(S, Lits, Len(Fields))
  /\ \A p, q \in Occurrences(Sql, Marks[0]) : p = q
  /\ \A i \in 0..Len(Fields) : MeansLiteral(i)
LEMMA PreparedIs ==
  ASSUME ParserInv, ConfigInv, FormInv, path \in DOMAIN services, stage # "none",
         \A i \in DOMAIN Fields : ~BadField(i), Apart(AsStored, Sql)
  PROVE  Prepared
<1> DEFINE k == Len(Fields)
           t == Sql
           marks == Marks
           lits == Lits
           A == Range(t)
           B == UNION {Range(marks[i]) : i \in 0..k}
           C == UNION {Range(lits[i]) : i \in 0..k}
           S == A \cup B \cup C
<1>1. /\ k \in Nat /\ DOMAIN marks = 0..k
      /\ \A i \in 0..k : \E T : IsMark(T, marks[i])
  BY MarksMade
<1>2. \A i \in 0..k : MeansLiteral(i)
  BY LiteralsMade
<1>3. /\ \A i, j \in 0..k : i < j => ~IsPrefix(marks[i], marks[j])
      /\ \A p, q \in Occurrences(t, marks[0]) : p = q
      /\ \A p, q \in Occurrences(t, <<"$">>), i \in 0..k :
           p < q => ~IsStrictPrefix(SubSeq(t, p, q - 1), marks[i])
  BY <1>1 DEF Apart
<1>4. PICK T : t \in Seq(T)
  BY NamesAre DEF HoldsText
<1> HIDE DEF k, t, marks, lits
<1>5. \A p : p \in Occurrences(t, <<"$">>) <=> p \in 1..Len(t) /\ t[p] = "$"
  <2>1. OneToken(t, "$")
    BY <1>4, TokenFound
  <2>2. QED
    BY <2>1 DEF OneToken
<1>6. A \subseteq S /\ (\A i \in 0..k : Range(marks[i]) \subseteq S) /\ \A i \in 0..k : Range(lits[i]) \subseteq S
  OBVIOUS
<1> HIDE DEF S, B, C
<1>7. t \in Seq(S)
  <2>1. t \in Seq(A)
    BY <1>4, OwnRange
  <2> HIDE DEF A
  <2>2. QED
    BY <1>6, <2>1, SeqMonotonic
<1>8. ASSUME NEW i \in 0..k
      PROVE  /\ marks[i] \in Seq(S) /\ Len(marks[i]) \in Nat /\ 1 <= Len(marks[i]) /\ marks[i][1] = "$"
             /\ \A j \in 1..Len(marks[i]) : marks[i][j] = "$" => j = 1
  <2>1. PICK U : IsMark(U, marks[i])
    BY <1>1
  <2> DEFINE D == Range(marks[i])
  <2>2. marks[i] \in Seq(D) /\ D \subseteq S
    BY <1>6, <2>1, OwnRange DEF IsMark
  <2> HIDE DEF D
  <2>3. marks[i] \in Seq(S)
    BY <2>2, SeqMonotonic
  <2>4. QED
    BY <2>1, <2>3 DEF IsMark
<1>9. ASSUME NEW i \in 0..k
      PROVE  lits[i] \in Seq(S) /\ \A j \in 1..Len(lits[i]) : lits[i][j] # "$"
  <2>1. PICK U : lits[i] \in Seq(U) /\ Without(lits[i], "$")
    BY <1>2 DEF MeansLiteral, NoDollar, lits
  <2> DEFINE D == Range(lits[i])
  <2>2. lits[i] \in Seq(D) /\ D \subseteq S
    BY <1>6, <2>1, OwnRange
  <2> HIDE DEF D
  <2>3. lits[i] \in Seq(S)
    BY <2>2, SeqMonotonic
  <2>4. QED
    BY <2>1, <2>3 DEF Without
<1>10. Template(S, t, marks, k)
  BY <1>1, <1>3, <1>5, <1>7, <1>8 DEF Template
<1>11. Literals(S, lits, k)
  BY <1>9 DEF Literals
<1>12. QED
  BY <1>2, <1>3, <1>10, <1>11 DEF Prepared, k, t, marks, lits

LEMMA MeantKept ==
  ASSUME UNCHANGED <<parserVars, path, sent, received>>
  PROVE  /\ Fields' = Fields /\ Sql' = Sql /\ Marks' = Marks /\ Lits' = Lits /\ AsStored' = AsStored
         /\ Apart(AsStored, Sql)' <=> Apart(AsStored, Sql)
<1>1. Fields' = Fields /\ Sql' = Sql
  BY DEF Fields, Sql, parserVars
<1>2. Marks' = Marks
  BY <1>1 DEF Marks
<1>3. \A i : Input(i)' = Input(i) /\ Meant(i)' = Meant(i)
  BY <1>1 DEF Input, Meant
<1>4. \A i : MeantLiteral(i)' = MeantLiteral(i)
  BY <1>1, <1>3 DEF MeantLiteral
<1>5. Lits' = Lits /\ AsStored' = AsStored
  BY <1>1, <1>2, <1>3, <1>4 DEF Lits, AsStored
<1>6. QED
  BY <1>1, <1>2, <1>5 DEF Apart

LEMMA TextStep ==
  ASSUME IInv, [Next]_vars
  PROVE  TextInv'
<1>0. ParserInv /\ ConfigInv /\ RequestInv /\ FormInv /\ TextInv
  BY DEF IInv
<1>1. CASE Load
  <2>1. loop # "done"
    BY <1>0, <1>1, ParseStep DEF Load
  <2>2. stage = "none" /\ stage' = stage
    BY <1>0, <1>1, <2>1 DEF RequestInv, Load, requestVars
  <2>3. QED
    BY <2>2 DEF TextInv
<1>2. CASE Receive \/ Refuse
  BY <1>2 DEF Receive, Refuse, TextInv
<1>3. CASE Accept
  <2>1. /\ stage = "received" /\ stage' = "substitute" /\ field' = 1
        /\ \A i \in DOMAIN Fields : ~BadField(i)
        /\ values' = AsStored
        /\ text' = ReplaceFirst(Sql, Placeholder(<<"userlogin">>), <<"'">> \o UserLogin \o <<"'">>)
        /\ UNCHANGED <<parserVars, path, sent, received>>
    BY <1>3 DEF Accept, AsStored, Sql
  <2>2. path \in DOMAIN services
    BY <1>0, <2>1 DEF RequestInv
  <2>3. /\ Fields' = Fields /\ Sql' = Sql /\ Marks' = Marks /\ Lits' = Lits /\ AsStored' = AsStored
        /\ Apart(AsStored, Sql)' <=> Apart(AsStored, Sql)
    BY <2>1, MeantKept
  <2>4. ASSUME Apart(AsStored, Sql) PROVE Replacing(Sql, Marks, Lits, 1, text')
    <3>1. Prepared
      BY <1>0, <2>1, <2>2, <2>4, PreparedIs
    <3>2. PICK S : Template(S, Sql, Marks, Len(Fields)) /\ Literals(S, Lits, Len(Fields))
      BY <3>1 DEF Prepared
    <3>3. \A p, q \in Occurrences(Sql, Marks[0]) : p = q
      BY <3>1 DEF Prepared
    <3>4. 0 \in DOMAIN Marks /\ 0 \in 0..Len(Fields)
      BY <3>2 DEF Template
    <3>5. Marks[0] = Placeholder(<<"userlogin">>)
      BY <3>4 DEF Marks
    <3>6. Lits[0] = <<"'">> \o UserLogin \o <<"'">>
      <4>1. MeansLiteral(0)
        BY <3>1, <3>4 DEF Prepared
      <4>2. QED
        BY <4>1 DEF MeansLiteral, Quotes
    <3>7. text' = ReplaceFirst(Sql, Marks[0], Lits[0])
      BY <2>1, <3>5, <3>6
    <3>8. Replacing(Sql, Marks, Lits, 1, ReplaceFirst(Sql, Marks[0], Lits[0]))
      BY <3>2, <3>3, FirstTurn, Zenon
    <3>9. QED
      BY <3>7, <3>8
  <2>5. QED
    BY <2>1, <2>3, <2>4 DEF TextInv
<1>4. CASE Substitute \/ NextField
  <2>1. /\ stage = "substitute" /\ UNCHANGED <<parserVars, path, sent, received, values>>
    BY <1>4 DEF Substitute, NextField
  <2>2. path \in DOMAIN services /\ stage # "none" /\ \A i \in DOMAIN Fields : ~BadField(i)
    BY <1>0, <2>1 DEF RequestInv, FormInv
  <2>3. /\ Fields' = Fields /\ Sql' = Sql /\ Marks' = Marks /\ Lits' = Lits /\ AsStored' = AsStored
        /\ Apart(AsStored, Sql)' <=> Apart(AsStored, Sql)
    BY <2>1, MeantKept
  <2>4. /\ values = AsStored
        /\ Apart(AsStored, Sql) => Replacing(Sql, Marks, Lits, field, text)
    BY <1>0, <2>1 DEF TextInv
  <2>5. Len(Fields) \in Nat /\ DOMAIN Fields = 1..Len(Fields) /\ field \in 1..Len(Fields) + 1
    BY <1>0, <2>1, <2>2, NamesAre DEF RequestInv
  <2>6. ASSUME Apart(AsStored, Sql)
        PROVE  /\ \E S : Template(S, Sql, Marks, Len(Fields)) /\ Literals(S, Lits, Len(Fields))
               /\ \A i \in DOMAIN Fields : /\ Marks[i] = Placeholder(Fields[i].name)
                                           /\ Lits[i] = Literal(values[i], Fields[i].type)
    <3>1. Prepared
      BY <1>0, <2>2, <2>6, PreparedIs
    <3>2. ASSUME NEW i \in DOMAIN Fields
          PROVE  Marks[i] = Placeholder(Fields[i].name) /\ Lits[i] = Literal(values[i], Fields[i].type)
      <4>1. i # 0 /\ i \in 0..Len(Fields) /\ i \in DOMAIN Marks
        BY <2>5 DEF Marks
      <4>2. MeansLiteral(i)
        BY <3>1, <4>1 DEF Prepared
      <4>3. QED
        BY <2>4, <4>1, <4>2 DEF MeansLiteral, Marks
    <3>3. QED
      BY <3>1, <3>2 DEF Prepared
  <2>7. CASE Substitute
    <3>1. /\ stage' = stage /\ field' = field /\ field \in DOMAIN Fields
          /\ Occurrences(text, Placeholder(Fields[field].name)) # {}
          /\ text' = ReplaceFirst(text, Placeholder(Fields[field].name),
                                  Literal(values[field], Fields[field].type))
      BY <2>7 DEF Substitute, Found, SubstituteValue
    <3>2. ASSUME Apart(AsStored, Sql) PROVE Replacing(Sql, Marks, Lits, field, text')
      <4>1. PICK S : Template(S, Sql, Marks, Len(Fields)) /\ Literals(S, Lits, Len(Fields))
        BY <2>6, <3>2
      <4>2. Marks[field] = Placeholder(Fields[field].name) /\ Lits[field] = Literal(values[field], Fields[field].type)
        BY <2>6, <3>1, <3>2
      <4>3. field \in 0..Len(Fields)
        BY <2>5, <3>1
      <4>4. Occurrences(text, Marks[field]) # {} /\ Replacing(Sql, Marks, Lits, field, text)
        BY <2>4, <3>1, <3>2, <4>2
      <4>5. Replacing(Sql, Marks, Lits, field, ReplaceFirst(text, Marks[field], Lits[field]))
        BY <4>1, <4>3, <4>4, NextTurn, Zenon
      <4>6. QED
        BY <3>1, <4>2, <4>5
    <3>3. QED
      BY <2>1, <2>3, <2>4, <3>1, <3>2 DEF TextInv
  <2>8. CASE NextField /\ field > Len(Fields)
    <3>1. field' = field /\ text' = text
      BY <2>8 DEF NextField, Finished
    <3>2. field = Len(Fields) + 1
      BY <2>5, <2>8
    <3>3. QED
      BY <2>1, <2>3, <2>4, <3>1, <3>2 DEF TextInv
  <2>9. CASE NextField /\ ~(field > Len(Fields))
    <3>1. field' = field + 1 /\ text' = text /\ stage' = stage
      BY <2>9 DEF NextField, Finished
    <3>2. field \in DOMAIN Fields /\ field \in 0..Len(Fields)
      BY <2>5, <2>9
    <3>3. Occurrences(text, Placeholder(Fields[field].name)) = {}
      BY <2>9, <3>2 DEF NextField, Found
    <3>4. ASSUME Apart(AsStored, Sql) PROVE Replacing(Sql, Marks, Lits, field + 1, text)
      <4>1. PICK S : Template(S, Sql, Marks, Len(Fields)) /\ Literals(S, Lits, Len(Fields))
        BY <2>6, <3>4
      <4>2. Marks[field] = Placeholder(Fields[field].name)
        BY <2>6, <3>2, <3>4
      <4>3. Occurrences(text, Marks[field]) = {} /\ Replacing(Sql, Marks, Lits, field, text)
        BY <2>4, <3>3, <3>4, <4>2
      <4>4. QED
        BY <3>2, <4>1, <4>3, NoTurn, Zenon
    <3>5. QED
      BY <2>1, <2>3, <2>4, <3>1, <3>4 DEF TextInv
  <2>10. QED
    BY <1>4, <2>7, <2>8, <2>9
<1>5. CASE UNCHANGED vars
  <2>1. UNCHANGED <<parserVars, path, sent, received>> /\ UNCHANGED <<stage, field, values, text>>
    BY <1>5 DEF vars, requestVars, parserVars
  <2>2. /\ Fields' = Fields /\ Sql' = Sql /\ Marks' = Marks /\ Lits' = Lits /\ AsStored' = AsStored
        /\ Apart(AsStored, Sql)' <=> Apart(AsStored, Sql)
    BY <2>1, MeantKept
  <2>3. QED
    BY <1>0, <2>1, <2>2 DEF TextInv
<1>6. QED
  BY <1>1, <1>2, <1>3, <1>4, <1>5 DEF Next, Serve

LEMMA StepInv == ASSUME IInv, [Next]_vars PROVE IInv'
<1>1. ParserInv' /\ RequestInv' /\ FormInv' /\ TextInv'
  BY RequestStep, FormStep, TextStep DEF IInv
<1>2. CASE Load
  <2>1. ConfigInv'
    BY <1>2, ConfigStep DEF IInv, Load
  <2>2. QED
    BY <1>1, <2>1 DEF IInv
<1>3. CASE ~Load
  <2>1. UNCHANGED parserVars
    BY <1>3 DEF Next, Serve, Receive, Refuse, Accept, Substitute, NextField, vars, requestVars
  <2>2. ConfigInv'
    BY <2>1, ConfigKept DEF IInv
  <2>3. QED
    BY <1>1, <2>2 DEF IInv
<1>4. QED
  BY <1>2, <1>3

LEMMA InvTypes == IInv => TypeOK
BY DEF IInv, ParserInv, RequestInv, TypeOK

-----------------------------------------------------------------------------
\* The parser is in one of its loops, no request precedes the configuration or
\* is for a service it does not have, and the loop of sql() never leaves the
\* parameters (config::parse, config.cpp; requestParameters::sql, config.h).
THEOREM TypeCorrectness == Spec => []TypeOK
<1>1. Init => IInv
  BY InitInv
<1>2. IInv /\ [Next]_vars => IInv'
  BY StepInv
<1>3. QED
  BY <1>1, <1>2, InvTypes, PTL DEF Spec

\* What is read of a service says what Agrees() asks for.
LEMMA ReadAgrees ==
  ASSUME NEW doc \in Documents, NEW d \in DOMAIN doc, WellFormed(doc[d]),
         NEW service, AsRead(service, doc[d])
  PROVE  Agrees(service, doc[d])
<1> DEFINE s == doc[d]
<1>1. ASSUME NEW k \in Keys, Plain(k, s.texts[k])
      PROVE  service.texts[k] = s.texts[k]
  <2> DEFINE raw == s.texts[k]
  <2>1. service.texts[k] = Read(k, raw)
    BY DEF AsRead
  <2>2. CASE k \in ValueKeys
    <3>1. Read(k, raw) = GetValue(raw) /\ PlainText(raw)
      BY <1>1, <2>2 DEF Read, Plain
    <3> HIDE DEF raw
    <3>2. QED
      BY <2>1, <3>1, GetPlain DEF raw
  <2>3. CASE k \notin ValueKeys
    <3>1. Read(k, raw) = GetNames(raw) /\ \A i \in DOMAIN raw : "\"" \notin Range(raw[i])
      BY <1>1, <2>3 DEF Read, Plain
    <3>2. raw \in Seq(Range(raw))
      BY DEF WellFormed
    <3> HIDE DEF raw
    <3>3. \A i \in DOMAIN raw : GetAttribute(raw[i]) = raw[i]
      BY <3>1, GetUnquoted
    <3>4. raw = [i \in DOMAIN raw |-> raw[i]]
      BY <3>2
    <3>5. GetNames(raw) = raw
      BY <3>3, <3>4 DEF GetNames
    <3>6. QED
      BY <2>1, <3>1, <3>5 DEF raw
  <2>4. QED
    BY <2>2, <2>3
<1>2. ASSUME NEW k \in MailKeys, PlainText(s.mail[k])
      PROVE  service.mail[k] = s.mail[k] \/ (service.mail[k] = <<>> /\ Braced(s.mail))
  BY <1>2, GetPlain DEF AsRead
<1>3. PICK k \in 0..Len(s.fields) :
        /\ Agreed(service.fields, s.fields, k)
        /\ k < Len(s.fields) => "]" \in Range(s.fields[k + 1].name)
  BY DEF AsRead, Kept
<1>4. Len(s.fields) \in Nat /\ DOMAIN s.fields = 1..Len(s.fields)
  BY LenProperties DEF WellFormed
<1>5. \A i \in 1..k : "]" \notin Range(s.fields[i].name)
  BY <1>3 DEF Agreed
<1>6. KeptFields(s) = 1..k
  <2>1. ASSUME NEW i \in 1..k
        PROVE  i \in DOMAIN s.fields /\ \A j \in 1..i : "]" \notin Range(s.fields[j].name)
    <3>1. i \in 1..Len(s.fields) /\ \A j \in 1..i : j \in 1..k
      BY <1>4
    <3>2. QED
      BY <1>4, <1>5, <3>1
  <2>2. ASSUME NEW i \in DOMAIN s.fields, i \notin 1..k
        PROVE  \E j \in 1..i : "]" \in Range(s.fields[j].name)
    <3>1. k < Len(s.fields) /\ k + 1 \in 1..i
      BY <1>4, <2>2
    <3>2. QED
      BY <1>3, <3>1
  <2>3. QED
    BY <2>1, <2>2 DEF KeptFields
<1>7. DOMAIN service.fields = 1..k
  BY <1>3 DEF Agreed, IsSequence
<1>8. ASSUME NEW i \in 1..k
      PROVE  /\ s.fields[i].name # <<>> => service.fields[i].name = s.fields[i].name
             /\ s.fields[i].type # Unstated => service.fields[i].type = s.fields[i].type
             /\ s.fields[i].required # Unstated =>
                  service.fields[i].required = (s.fields[i].required = "true")
  <2>1. i \in DOMAIN s.fields
    BY <1>4
  <2>2. GetAttribute(s.fields[i].name) = s.fields[i].name
    BY <2>1, NameTaken
  <2>3. QED
    BY <1>3, <2>2 DEF Agreed
<1>9. service.secure = s.secure
  BY DEF AsRead
<1> HIDE DEF s
<1>10. QED
  BY <1>1, <1>2, <1>6, <1>7, <1>8, <1>9 DEF Agrees, s

LEMMA InvConfig == ConfigInv => ConfigAsWritten
<1> SUFFICES ASSUME ConfigInv PROVE ConfigAsWritten
  OBVIOUS
<1>1. PICK n \in 0..Len(document) : Loaded(n)
  BY DEF ConfigInv
<1>2. document \in Documents
  BY DEF ConfigInv
<1>3. /\ Len(document) \in Nat /\ DOMAIN document = 1..Len(document)
      /\ \A i \in 1..Len(document) : WellFormed(document[i])
  BY <1>2, FilePlaced
<1>4. ASSUME NEW i \in FirstOnes(document, n)
      PROVE  Agrees(services[document[i].uri], document[i])
  <2>1. i \in 1..n
    BY DEF FirstOnes
  <2>2. i \in 1..Len(document)
    BY <1>3, <2>1
  <2>3. AsRead(services[document[i].uri], document[i])
    BY <1>1 DEF Loaded
  <2>4. QED
    BY <1>2, <1>3, <2>2, <2>3, ReadAgrees
<1>5. DOMAIN services = {document[i].uri : i \in FirstOnes(document, n)}
  BY <1>1 DEF Loaded
<1>6. QED
  BY <1>4, <1>5 DEF ConfigAsWritten, FirstOnes

\* Wherever the file was cut, what is loaded are the first services of the
\* document, and of two with the same path the first.  A text without quotes and
\* without blanks at its ends is loaded as it is written; of the rest only the
\* fields from one with a ] in its name on and attributes of a mail with a } in
\* one of its texts are lost, and with them nothing of another service
\* (config::parse, get_value, get_attribute, config.cpp).
THEOREM LoadedAsWritten == Spec => []ConfigAsWritten
<1>1. Init => IInv
  BY InitInv
<1>2. IInv /\ [Next]_vars => IInv'
  BY StepInv
<1>3. IInv => ConfigAsWritten
  BY InvConfig DEF IInv
<1>4. QED
  BY <1>1, <1>2, <1>3, PTL DEF Spec

\* Whichever way a form is encoded, and whatever the client filled in, the
\* parameters of the request are the names and the values it filled in, and the
\* files saved are its files, byte for byte (parse_query_string and
\* decode_param, httputils.cpp; parse_multipart and eof).
THEOREM ReceivedAsSent == Spec => []ParamsAsSent
<1>1. Init => IInv
  BY InitInv
<1>2. IInv /\ [Next]_vars => IInv'
  BY StepInv
<1>3. IInv => ParamsAsSent
  BY InvForm DEF IInv
<1>4. QED
  BY <1>1, <1>2, <1>3, PTL DEF Spec

-----------------------------------------------------------------------------
(* What is refused. *)

\* Malformed() for any text and type.
IllTyped(value, type) ==
  LET chars == {value[c] : c \in DOMAIN value}
  IN  CASE type \in {"int", "integer"} -> ~(chars \subseteq Digits)
        [] type = "double" ->
             \/ ~(chars \subseteq Digits \cup {"."})
             \/ Cardinality({c \in DOMAIN value : value[c] = "."}) > 1
        [] type = "date" -> ~GivesDay(value)
        [] type = "string" -> FALSE

LEMMA AtMostOne ==
  ASSUME NEW n \in Nat, NEW P \in SUBSET (1..n)
  PROVE  Cardinality(P) > 1 <=> \E x, y \in P : x # y
<1>1. IsFiniteSet(P) /\ Cardinality(P) \in Nat
  <2>1. IsFiniteSet(1..n)
    BY FS_Interval
  <2>2. QED
    BY <2>1, FS_Subset, FS_CardinalityType
<1>2. Cardinality(P) = 0 <=> P = {}
  BY <1>1, FS_EmptySet
<1>3. Cardinality(P) = 1 <=> \E x : P = {x}
  BY <1>1, FS_Singleton
<1>4. (\E x, y \in P : x # y) <=> ~(P = {} \/ \E x : P = {x})
  <2>1. ASSUME NEW x \in P, P # {x} PROVE \E y \in P : x # y
    BY <2>1
  <2>2. QED
    BY <2>1
<1>5. Cardinality(P) > 1 <=> ~(Cardinality(P) = 0 \/ Cardinality(P) = 1)
  BY <1>1
<1>6. QED
  BY <1>2, <1>3, <1>4, <1>5

LEMMA DoubleTest ==
  ASSUME NEW S, NEW value \in Seq(S)
  PROVE  IsDouble(value) <=> ~IllTyped(value, "double")
<1> DEFINE P == {c \in DOMAIN value : value[c] = "."}
           chars == {value[c] : c \in DOMAIN value}
<1>1. Len(value) \in Nat /\ DOMAIN value = 1..Len(value)
  OBVIOUS
<1>2. Cardinality(P) > 1 <=> \E x, y \in P : x # y
  <2>1. P \in SUBSET (1..Len(value))
    BY <1>1
  <2> HIDE DEF P
  <2>2. QED
    BY <1>1, <2>1, AtMostOne
<1>3. IsDouble(value) <=>
        /\ \A i \in DOMAIN value : value[i] \in Digits \cup {"."}
        /\ \A i, j \in DOMAIN value : value[i] = "." /\ value[j] = "." => i = j
  BY DoublesHaveOnePoint
<1>4. chars \subseteq Digits \cup {"."} <=> \A i \in DOMAIN value : value[i] \in Digits \cup {"."}
  OBVIOUS
<1>5. IllTyped(value, "double") <=>
        ~(chars \subseteq Digits \cup {"."}) \/ Cardinality(P) > 1
  BY DEF IllTyped
<1>6. (\E x, y \in P : x # y) <=>
        ~(\A i, j \in DOMAIN value : value[i] = "." /\ value[j] = "." => i = j)
  OBVIOUS
<1> HIDE DEF P, chars
<1>7. QED
  BY <1>2, <1>3, <1>4, <1>5, <1>6

LEMMA DateTest ==
  ASSUME NEW S, NEW value \in Seq(S)
  PROVE  IsDate(value) <=> ~IllTyped(value, "date")
BY DatesGiveDays DEF IllTyped

LEMMA TypeTest ==
  ASSUME NEW S, NEW value \in Seq(S), NEW type \in Types
  PROVE  HasType(value, type) <=> ~IllTyped(value, type)
<1>1. CASE type \in {"int", "integer"}
  BY <1>1 DEF HasType, IllTyped, IsInteger
<1>2. CASE type = "double"
  <2>1. HasType(value, type) <=> IsDouble(value)
    BY <1>2 DEF HasType
  <2>2. QED
    BY <1>2, <2>1, DoubleTest
<1>3. CASE type = "date"
  <2>1. HasType(value, type) <=> IsDate(value)
    BY <1>3 DEF HasType
  <2>2. QED
    BY <1>3, <2>1, DateTest
<1>4. CASE type = "string"
  BY <1>4 DEF HasType, IllTyped
<1>5. QED
  BY <1>1, <1>2, <1>3, <1>4 DEF Types

LEMMA BadFieldMeant ==
  ASSUME FormInv, stage # "none", NEW i \in DOMAIN Fields, Fields[i].type \in Types
  PROVE  BadField(i) <=> IF Meant(i) = <<>> THEN Fields[i].required ELSE Malformed(i)
<1>1. PICK S : Input(i) \in Seq(S) /\ Input(i) = Meant(i)
  BY InputMeant
<1>2. Malformed(i) <=> IllTyped(Meant(i), Fields[i].type)
  BY DEF Malformed, IllTyped
<1>3. HasType(Input(i), Fields[i].type) <=> ~IllTyped(Input(i), Fields[i].type)
  BY <1>1, TypeTest
<1>4. BadField(i) <=> \/ Fields[i].required /\ Input(i) = <<>>
                      \/ Input(i) # <<>> /\ ~HasType(Input(i), Fields[i].type)
  BY DEF BadField
<1>5. QED
  BY <1>1, <1>2, <1>3, <1>4

LEMMA InvRefused == IInv => RefusedIffInvalid
<1> SUFFICES ASSUME IInv, stage \in {"refused", "substitute", "done"}
             PROVE  RefusedIffInvalid
  BY DEF RefusedIffInvalid
<1> DEFINE Bad(i) == IF Meant(i) = <<>> THEN Fields[i].required ELSE Malformed(i)
<1>1. /\ FormInv /\ stage # "none"
      /\ stage = "refused" => \E i \in DOMAIN Fields : BadField(i)
      /\ stage \in {"substitute", "done"} => \A i \in DOMAIN Fields : ~BadField(i)
  BY DEF IInv, FormInv
<1>2. \A i \in DOMAIN Fields : Fields[i].type \in Types
  <2>1. path \in DOMAIN services
    BY DEF IInv, RequestInv
  <2>2. FieldsTyped(services[path].fields)
    BY <2>1 DEF IInv, ConfigInv, Loaded
  <2>3. QED
    BY <2>2 DEF FieldsTyped, Fields
<1>3. \A i \in DOMAIN Fields : BadField(i) <=> Bad(i)
  BY <1>1, <1>2, BadFieldMeant
<1>4. RefusedIffInvalid <=>
        /\ stage = "refused" => \E i \in DOMAIN Fields : Bad(i)
        /\ stage \in {"substitute", "done"} => ~\E i \in DOMAIN Fields : Bad(i)
  BY DEF RefusedIffInvalid
<1> HIDE DEF Bad
<1>5. QED
  BY <1>1, <1>3, <1>4

\* A form is refused when a required field was left out or holds blanks only, or
\* a value is not one of its field's type, and never otherwise, whatever was
\* filled in and however it was encoded: trimming, the one point of a number and
\* the days of the months included (validateRequestParams, mse.cpp).  Of a date
\* that is the day it gives; the characters between its numbers are free.
THEOREM RefusedWhenInvalid == Spec => []RefusedIffInvalid
<1>1. Init => IInv
  BY InitInv
<1>2. IInv /\ [Next]_vars => IInv'
  BY StepInv
<1>3. QED
  BY <1>1, <1>2, InvRefused, PTL DEF Spec

-----------------------------------------------------------------------------
(* The statement. *)

LEMMA PiecesMeant ==
  ASSUME NEW S, NEW k, Template(S, Sql, Marks, k)
  PROVE  FlattenSeq(Pieces(Sql, Marks, Lits, Starts(Sql, Marks))) = MeantText(Sql)
<1> DEFINE t == Sql
           Within(p) == \E q \in 1..p - 1 : /\ MarksAt(t, Marks, q) # {}
                                            /\ p < q + Len(Marks[Longest(t, Marks, q)])
           P == [p \in DOMAIN t |->
                   IF MarksAt(t, Marks, p) # {} THEN MeantLiteral(Longest(t, Marks, p))
                   ELSE IF Within(p) THEN <<>> ELSE <<t[p]>>]
<1>1. MeantText(t) = FlattenSeq(P)
  BY DEF MeantText
<1>2. Len(t) \in Nat /\ DOMAIN t = 1..Len(t)
  <2>1. t \in Seq(S)
    BY DEF Template
  <2> HIDE DEF t
  <2>2. QED
    BY <2>1
<1>3. ASSUME NEW p \in 1..Len(t) PROVE p \in Starts(t, Marks) <=> MarksAt(t, Marks, p) # {}
  BY DEF Starts
<1>4. ASSUME NEW p \in 1..Len(t) PROVE Within(p) <=> Covered(t, Marks, Starts(t, Marks), p)
  <2>1. \A q : q \in 1..p - 1 <=> q \in 1..Len(t) /\ q < p
    BY <1>2
  <2>2. \A q : q \in Starts(t, Marks) /\ q < p <=> q \in 1..p - 1 /\ MarksAt(t, Marks, q) # {}
    BY <2>1 DEF Starts
  <2>3. QED
    BY <2>2 DEF Covered
<1>5. ASSUME NEW p \in Starts(t, Marks) PROVE Lits[Longest(t, Marks, p)] = MeantLiteral(Longest(t, Marks, p))
  <2>1. StartAt(t, Marks, k, p, Longest(t, Marks, p))
    BY StartIs
  <2>2. Longest(t, Marks, p) \in DOMAIN Marks
    BY <2>1 DEF StartAt, Template
  <2>3. QED
    BY <2>2 DEF Lits
<1> HIDE DEF Within, t
<1>6. Pieces(t, Marks, Lits, Starts(t, Marks)) = P
  BY <1>2, <1>3, <1>4, <1>5 DEF Pieces
<1>7. QED
  BY <1>1, <1>6 DEF t

LEMMA InvText == IInv => SqlAsTemplate
<1> SUFFICES ASSUME IInv, stage = "done", Apart(values, Sql) PROVE text = MeantText(Sql)
  BY DEF SqlAsTemplate, Sql
<1>1. values = AsStored /\ field = Len(Fields) + 1
  BY DEF IInv, TextInv
<1>2. Apart(AsStored, Sql)
  BY <1>1
<1>3. Replacing(Sql, Marks, Lits, Len(Fields) + 1, text)
  BY <1>1, <1>2 DEF IInv, TextInv
<1>4. Prepared
  <2>1. path \in DOMAIN services /\ \A i \in DOMAIN Fields : ~BadField(i)
    BY DEF IInv, RequestInv, FormInv
  <2>2. ParserInv /\ ConfigInv /\ FormInv /\ stage # "none"
    BY DEF IInv
  <2>3. QED
    BY <1>2, <2>1, <2>2, PreparedIs
<1>5. PICK S : Template(S, Sql, Marks, Len(Fields))
  BY <1>4 DEF Prepared
<1>6. text = FlattenSeq(Pieces(Sql, Marks, Lits, Starts(Sql, Marks)))
  BY <1>3, <1>5, LastTurn, Zenon
<1>7. QED
  BY <1>5, <1>6, PiecesMeant

\* Although sql() searches its own result again and again, and puts in values
\* that look like nothing it knows, the statement is the service's template with
\* each placeholder, the longest that begins there, replaced by its literal: for
\* every template and form that Apart() describes, with however many placeholders
\* (requestParameters::sql, config.h; the quotes of validateRequestParams, mse.cpp).
\* A form with a quote between the numbers of a date is not one of them: that
\* value is accepted and its quote is not doubled.
THEOREM SubstitutedAsTemplate == Spec => []SqlAsTemplate
<1>1. Init => IInv
  BY InitInv
<1>2. IInv /\ [Next]_vars => IInv'
  BY StepInv
<1>3. QED
  BY <1>1, <1>2, InvText, PTL DEF Spec
=============================================================================
