----------------------------- MODULE MCSqlText -----------------------------
(* Small documents and forms for SqlText. *)
EXTENDS SqlText

SomeLogin == <<"ana">>

\* Days and no days, with other characters than dashes between the numbers.
SomeDates ==
  {<<"2", "0", "0", "0", "-", "0", "2", "-", "2", "9">>,
   <<"1", "9", "0", "0", "-", "0", "2", "-", "2", "9">>,
   <<"2", "0", "2", "3", "-", "0", "4", "-", "3", "1">>,
   <<"2", "0", "2", "4", "'", "0", "2", "'", "2", "9">>,
   <<"2", "0", "2", "4", "/", "1", "2", "/", "3", "x">>}

SomeValues ==
  {<<>>, <<" ">>, <<" ", "7", "4">>, <<"7", ".", "4">>, <<"7", ".", ".">>,
   <<"a", "'", "+", "b", "&">>, <<"$", "d">>, <<"$", "d", "1">>} \cup SomeDates
SomeContents ==
  {<<>>, <<"x", "\n", "\n", "y">>, <<"x", "\r", "\n">>, <<"-", "-", "\r", "\r", "\n">>}

Texts(sql) ==
  [k \in Keys |-> CASE k = "sql" -> sql
                   [] k = "db" -> <<"testdb">>
                   [] k = "roles" -> <<<<"sysadmin">>, <<"can_delete">>>>
                   [] OTHER -> <<>>]
NoMail == [k \in MailKeys |-> <<>>]
Mail == [k \in MailKeys |-> IF k = "to" THEN <<"$", "d">> ELSE <<>>]
F(name, type, required) == [name |-> name, type |-> type, required |-> required]
S(path_, sql, fields, mail, secure) ==
  [uri |-> path_, texts |-> Texts(sql), secure |-> secure, fields |-> fields, mail |-> mail]

Days ==
  S(<<"days">>, <<"f(", "$", "d", "1", ",", "$", "d", ",", "$", "userlogin", ",", "$", "d", "1", ")">>,
    <<F(<<"d", "1">>, "date", "true"), F(<<"d">>, Unstated, "false")>>, Mail, TRUE)
Amounts ==
  S(<<"amounts">>, <<"g(", "$", "d", ",", "$", "d", "1", ")">>,
    <<F(<<"d">>, "string", "false"), F(<<"d", "1">>, "double", Unstated)>>, NoMail, FALSE)
Other ==
  S(<<"amounts">>, <<"h(", "$", "n", ")">>,
    <<F(<<"n">>, "int", "true"), F(<<"d">>, "string", "false")>>, Mail, TRUE)
Upload ==
  S(<<"upload">>, <<"i(", "$", "title", ",", "$", "document", ")">>,
    <<F(<<"title">>, "string", "true"), F(<<"document">>, "string", "true")>>, NoMail, TRUE)
Wrong ==
  S(<<"wrong">>, <<"$", "n">>, <<F(<<"n">>, "text", "true")>>, NoMail, TRUE)

\* Texts that the parser does not take as they are: a name and a mail with the
\* bracket that ends their loop, a quote and outer blanks in a template.
Cut ==
  [S(<<"cut">>, <<" ", "j(", "$", "d", ")", "\\", "\"", ",", "k", "\\", "\"">>,
     <<F(<<"d">>, "int", "true"), F(<<"ids", "[", "]">>, "int", "true"),
       F(<<"n">>, "string", "true")>>,
     [k \in MailKeys |-> IF k = "to" THEN <<" ", "a", "}">> ELSE <<"b", "}">>], TRUE)
   EXCEPT !.texts["roles"] = <<<<"sysadmin">>, <<"can", "\\", "\"", "delete">>>>]

SomeDocuments ==
  {<<Days, Amounts, Other>>, <<Upload, Other, Amounts>>, <<Wrong, Days>>,
   <<Cut, Amounts>>}
=============================================================================
