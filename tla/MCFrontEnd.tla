----------------------------- MODULE MCFrontEnd -----------------------------
(***************************************************************************)
(* Texts for the front end.  Short texts over few symbols at a time let     *)
(* every combination of them occur; a text is given to the program in the   *)
(* ways that read it differently.                                           *)
(***************************************************************************)
EXTENDS FrontEnd

MCNames == {"a", "x", "int", "text", "exit", "quit"}

MCDigits == {"1", "2^63"}

Texts(symbols, n) == UNION {[1 .. k -> symbols] : k \in 0 .. n}

\* Words with blanks between them, after a first word.
Spaced(words) == FlattenSeq([i \in DOMAIN words |-> <<" ", words[i]>>])

Clause(head, symbols, n, tail) ==
  {head \o Spaced(words) \o tail : words \in Texts(symbols, n)}

File(content, readable) ==
  [spelling |-> <<"x", ".", "x">>, sql_file |-> TRUE, readable |-> readable, content |-> content]

Argument(text) ==
  [spelling |-> text, sql_file |-> FALSE, readable |-> FALSE, content |-> <<>>]

Start(args, tty, stdin) == [args |-> args, tty |-> tty, stdin |-> stdin]

\* Strings, comments of both kinds and terminators against one another.
SplitTexts ==
  Texts({"'", ";", "\n", "a"}, 4) \cup Texts({"-", ";", "\n", "\r"}, 5)
    \cup Texts({"/", "*", ";", "'"}, 5) \cup Texts({"/", "*", "-", "\n", ";"}, 4)

TypedTexts ==
  Texts({"'", ";", "\n"}, 6) \cup Texts({"-", ";", "\n", "'"}, 4)
    \cup Texts({"exit", "'", ";", "\n"}, 5) \cup Texts({"exit", " ", "\n"}, 4)

Sessions ==
  {Start(<<>>, FALSE, text) : text \in SplitTexts}
    \cup {Start(<<>>, TRUE, text) : text \in TypedTexts}

Files ==
  LET contents == {<<>>, <<";">>, <<"'", ";">>, <<" ", "\f">>, <<"SELECT", " ", "1", ";", " ">>}
      files    == {File(content, TRUE) : content \in contents} \cup {File(<<>>, FALSE)}
      texts    == {Argument(<<"SELECT">>), Argument(<<"'", ";">>), Argument(<<>>)}
  IN  {Start(<<f, g>>, TRUE, <<>>) : f \in files \cup texts, g \in files \cup texts}
        \cup {Start(<<f, g, h>>, FALSE, <<>>) : f, g, h \in files}

\* Statements, given as an argument.
Statements ==
  Clause(<<"SELECT">>, {"a", "+", "*", "-"}, 5, <<";">>)
    \cup Clause(<<"SELECT">>, {"1", "-", "(", ")"}, 5, <<>>)
    \cup Clause(<<"SELECT">>, {"1", "-", ",", ")"}, 4, <<>>)
    \cup Clause(<<"SELECT">>, {"a", "AND", "OR", "NOT"}, 6, <<>>)
    \cup Clause(<<"SELECT">>, {"a", "=", "+", "NOT"}, 5, <<>>)
    \cup Clause(<<"SELECT">>, {"a", ",", "AS", "FROM", "WHERE", "."}, 4, <<>>)
    \cup Clause(<<"SELECT">>, {"1", "2^63", "-", "("}, 3, <<>>)
    \cup {<<"SELECT">> \o text : text \in Texts({"'", "x", "<", ">", "!", "="}, 4)}
    \cup Clause(<<"INSERT", " ", "INTO", " ", "a">>, {"VALUES", "(", ")", "1"}, 4, <<";">>)
    \cup Clause(<<"INSERT", " ", "INTO", " ", "a", " ", "VALUES", "(">>, {"1", ",", ")", "-"}, 4, <<>>)
    \cup Clause(<<"CREATE", " ", "TABLE", " ", "a", "(">>, {"a", "int", ",", ")"}, 5, <<>>)

MCInvocations == Sessions \cup Files \cup {Start(<<Argument(sql)>>, FALSE, <<>>) : sql \in Statements}

NotStatements == Clause(<<"SELECT">>, {"a", "AND", "OR", "NOT"}, 6, <<>>)

NotInvocations == {Start(<<Argument(sql)>>, FALSE, <<>>) : sql \in NotStatements}
=============================================================================
