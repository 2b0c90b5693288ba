------------------------------- MODULE Parser -------------------------------
(***************************************************************************)
(* Parser::ParseStatement of src/src/parser/parser.cpp, on the tokens of    *)
(* Lexer.  A rule applied at position i returns the set of its results, of  *)
(* which there is at most one: [item, next], what it built and the position *)
(* after it.  Every exception is a ParseError to the caller, so there is    *)
(* one kind of failure, no result.                                          *)
(*                                                                          *)
(* A tree is [node, of, kids, parens]: its kind, the symbols or operator it *)
(* carries, its operands, and (history; the AST does not keep it) how many pairs of  *)
(* parentheses surround it.  The digits "2^63" stand for the one number     *)
(* whose negation fits a word and which does not fit itself.                *)
(***************************************************************************)
EXTENDS Lexer, Integers, SequencesExt

Fail == {}

Parsed(item, next) == {[item |-> item, next |-> next]}

Tree(node, of, kids) == [node |-> node, of |-> of, kids |-> kids, parens |-> 0]

\* Continue with what was parsed, or pass the error on.
Then(results, Continue(_)) == UNION {Continue(result) : result \in results}

TypeAt(tokens, i) == tokens[i].type

\* Whether tokens of these types follow one another from i on (Consume).
Follows(tokens, i, types) ==
  /\ i + Len(types) - 1 <= Len(tokens)
  /\ \A k \in DOMAIN types : TypeAt(tokens, i + k - 1) = types[k]

-----------------------------------------------------------------------------
(* Literals and names                                                      *)

\* Mutant: the quotes around the text are removed and no other.
unescape_sql_string_OuterOnly(lexeme) == SubSeq(lexeme, 2, Len(lexeme) - 1)

\* The text of a quoted lexeme, every doubled quote in it made single.
unescape_sql_string(lexeme) ==
  LET from[k \in 2 .. Len(lexeme)] ==
        IF k = Len(lexeme) THEN <<>>
        ELSE IF lexeme[k] = "'" /\ k + 1 < Len(lexeme) /\ lexeme[k + 1] = "'"
        THEN <<"'">> \o from[k + 2]
        ELSE <<lexeme[k]>> \o from[k + 1]
  IN  from[2]

\* std::stoll throws.
OutOfRange(lexeme) == Contains(lexeme, "2^63")

\* The length of the dotted name that starts at i.
NameLength(tokens, i) ==
  LET ends == {n \in 1 .. Len(tokens) - i :
                 \A k \in 1 .. n - 1 :
                   TypeAt(tokens, i + k) = IF k % 2 = 1 THEN "." ELSE "Identifier"}
  IN  Max(ends)

ParseName(tokens, i) ==
  LET n == NameLength(tokens, i)
  IN  IF n % 2 = 0 THEN Fail      \* no identifier after a dot
      ELSE Parsed(Tree("ColumnRef", FlattenSeq([k \in 1 .. n |-> tokens[i + k - 1].lexeme]), <<>>),
                  i + n)

-----------------------------------------------------------------------------
(* Expressions: precedence climbing                                        *)

kNotPrecedence == 3

GetBinaryPrecedence(type) ==
  CASE type = "OR"  -> 1
    [] type = "AND" -> 2
    [] type \in {"=", "<>", "<", "<=", ">", ">="} -> 4
    [] type \in {"+", "-"} -> 5
    [] type \in {"*", "/"} -> 6
    [] OTHER -> -1

TokenToBinaryOperator(type) ==
  CASE type = "+"  -> "Add"          [] type = "-"  -> "Subtract"
    [] type = "*"  -> "Multiply"     [] type = "/"  -> "Divide"
    [] type = "="  -> "Equal"        [] type = "<>" -> "NotEqual"
    [] type = "<"  -> "Less"         [] type = "<=" -> "LessEqual"
    [] type = ">"  -> "Greater"      [] type = ">=" -> "GreaterEqual"
    [] type = "AND" -> "And"         [] type = "OR" -> "Or"

TokenToUnaryOperator(type) ==
  CASE type = "+" -> "Plus" [] type = "-" -> "Minus" [] type = "NOT" -> "Not"

\* The operator at i applied to what was parsed after it.
Prefixed(tokens, i, e) ==
  Parsed(Tree("Unary", <<TokenToUnaryOperator(TypeAt(tokens, i))>>, <<e.item>>), e.next)

RECURSIVE ParseExpression(_, _, _)
RECURSIVE Climb(_, _, _)
RECURSIVE ParsePrefixExpression(_, _)

ParsePrimaryExpression(tokens, i) ==
  LET type   == TypeAt(tokens, i)
      lexeme == tokens[i].lexeme
  IN  CASE type = "Integer" ->
             IF OutOfRange(lexeme) THEN Fail ELSE Parsed(Tree("Integer", lexeme, <<>>), i + 1)
        [] type = "String" ->
             Parsed(Tree("String", unescape_sql_string(lexeme), <<>>), i + 1)
        [] type \in {"TRUE", "FALSE", "NULL", "*"} ->
             Parsed(Tree("Constant", lexeme, <<>>), i + 1)
        [] type = "Identifier" -> ParseName(tokens, i)
        [] type = "(" ->
             Then(ParseExpression(tokens, i + 1, 0),
                  LAMBDA e : IF TypeAt(tokens, e.next) # ")" THEN Fail
                             ELSE Parsed([e.item EXCEPT !.parens = @ + 1], e.next + 1))
        [] OTHER -> Fail

\* Mutant: a sign is followed by a primary expression.
ParsePrefixExpression_OneSign(tokens, i) ==
  IF TypeAt(tokens, i) \in {"+", "-"}
  THEN Then(ParsePrimaryExpression(tokens, i + 1), LAMBDA e : Prefixed(tokens, i, e))
  ELSE ParsePrimaryExpression(tokens, i)

ParsePrefixExpression(tokens, i) ==
  IF TypeAt(tokens, i) \in {"+", "-"}
  THEN IF TypeAt(tokens, i) = "-" /\ tokens[i + 1].lexeme = <<"2^63">>
       THEN Parsed(Tree("Integer", <<"-", "2^63">>, <<>>), i + 2)
       ELSE Then(ParsePrefixExpression(tokens, i + 1), LAMBDA e : Prefixed(tokens, i, e))
  ELSE ParsePrimaryExpression(tokens, i)

\* Both operands of the operator between them.
Combined(tokens, left, right) ==
  Parsed(Tree("Binary", <<TokenToBinaryOperator(TypeAt(tokens, left.next))>>,
              <<left.item, right.item>>), right.next)

\* Mutant: operators of one precedence group to the right.
Climb_RightFirst(tokens, left, min_precedence) ==
  LET precedence == GetBinaryPrecedence(TypeAt(tokens, left.next))
  IN  IF precedence < min_precedence THEN {left}
      ELSE Then(Then(ParseExpression(tokens, left.next + 1, precedence),
                     LAMBDA right : Combined(tokens, left, right)),
                LAMBDA longer : Climb(tokens, longer, min_precedence))

\* The loop of ParseExpression with `left' parsed.
Climb(tokens, left, min_precedence) ==
  LET precedence == GetBinaryPrecedence(TypeAt(tokens, left.next))
  IN  IF precedence < min_precedence THEN {left}
      ELSE Then(Then(ParseExpression(tokens, left.next + 1, precedence + 1),
                     LAMBDA right : Combined(tokens, left, right)),
                LAMBDA longer : Climb(tokens, longer, min_precedence))

\* After NOT the code returns without entering the loop.
ParseExpression(tokens, i, min_precedence) ==
  IF min_precedence <= kNotPrecedence /\ TypeAt(tokens, i) = "NOT"
  THEN Then(ParseExpression(tokens, i + 1, kNotPrecedence),
            LAMBDA e : Prefixed(tokens, i, e))
  ELSE Then(ParsePrefixExpression(tokens, i),
            LAMBDA left : Climb(tokens, left, min_precedence))

-----------------------------------------------------------------------------
(* Lists, separated by commas                                              *)

\* ParseTypeName: the type a name stands for, if any.
TypeName(lexeme) ==
  CASE lexeme \in {<<"int">>, <<"integer">>} -> {"Int"}
    [] lexeme = <<"text">>                  -> {"Text"}
    [] lexeme \in {<<"bool">>, <<"boolean">>} -> {"Bool"}
    [] OTHER                                -> {}

ParseProjection(tokens, i) ==
  Then(ParseExpression(tokens, i, 0),
       LAMBDA e :
         IF TypeAt(tokens, e.next) # "AS"
         THEN Parsed([tree |-> e.item, alias |-> <<>>], e.next)
         ELSE IF TypeAt(tokens, e.next + 1) # "Identifier" THEN Fail
         ELSE Parsed([tree |-> e.item, alias |-> tokens[e.next + 1].lexeme], e.next + 2))

ParseColumn(tokens, i) ==
  IF ~Follows(tokens, i, <<"Identifier", "Identifier">>) THEN Fail
  ELSE IF TypeName(tokens[i + 1].lexeme) = {} THEN Fail
  ELSE Parsed([name |-> tokens[i].lexeme,
               type |-> CHOOSE type \in TypeName(tokens[i + 1].lexeme) : TRUE], i + 2)

ParseItem(tokens, i, kind) ==
  CASE kind = "projection" -> ParseProjection(tokens, i)
    [] kind = "value"      -> ParseExpression(tokens, i, 0)
    [] kind = "column"     -> ParseColumn(tokens, i)

RECURSIVE ParseList(_, _, _)

ParseList(tokens, i, kind) ==
  Then(ParseItem(tokens, i, kind),
       LAMBDA first :
         IF TypeAt(tokens, first.next) # "," THEN Parsed(<<first.item>>, first.next)
         ELSE Then(ParseList(tokens, first.next + 1, kind),
                   LAMBDA rest : Parsed(<<first.item>> \o rest.item, rest.next)))

-----------------------------------------------------------------------------
(* Statements: [statement, table, items, where]; table is empty without    *)
(* FROM, where holds at most one tree                                      *)

Statement(kind, table, items, where) ==
  [statement |-> kind, table |-> table, items |-> items, where |-> where]

ParseWhere(tokens, i, table, items) ==
  IF TypeAt(tokens, i) # "WHERE" THEN Parsed(Statement("SELECT", table, items, <<>>), i)
  ELSE Then(ParseExpression(tokens, i + 1, 0),
            LAMBDA e : Parsed(Statement("SELECT", table, items, <<e.item>>), e.next))

ParseSelectStatement(tokens, i) ==
  Then(ParseList(tokens, i, "projection"),
       LAMBDA list :
         IF TypeAt(tokens, list.next) # "FROM"
         THEN ParseWhere(tokens, list.next, <<>>, list.item)
         ELSE IF TypeAt(tokens, list.next + 1) # "Identifier" THEN Fail
         ELSE ParseWhere(tokens, list.next + 2, tokens[list.next + 1].lexeme, list.item))

\* What INSERT and CREATE TABLE have in common: a list in parentheses.
ParseParenthesized(tokens, i, head, statement, kind) ==
  IF ~Follows(tokens, i, head) THEN Fail
  ELSE Then(ParseList(tokens, i + Len(head), kind),
            LAMBDA list :
              IF TypeAt(tokens, list.next) # ")" THEN Fail
              ELSE Parsed(Statement(statement, tokens[i + 1].lexeme, list.item, <<>>),
                          list.next + 1))

ParseInsertStatement(tokens, i) ==
  ParseParenthesized(tokens, i, <<"INTO", "Identifier", "VALUES", "(">>, "INSERT", "value")

ParseCreateTableStatement(tokens, i) ==
  ParseParenthesized(tokens, i, <<"TABLE", "Identifier", "(">>, "CREATE", "column")

ParseStatement(tokens) ==
  Then(CASE TypeAt(tokens, 1) = "SELECT" -> ParseSelectStatement(tokens, 2)
         [] TypeAt(tokens, 1) = "INSERT" -> ParseInsertStatement(tokens, 2)
         [] TypeAt(tokens, 1) = "CREATE" -> ParseCreateTableStatement(tokens, 2)
         [] OTHER -> Fail,
       LAMBDA s :
         LET end == IF TypeAt(tokens, s.next) = ";" THEN s.next + 1 ELSE s.next
         IN  IF TypeAt(tokens, end) = "EndOfFile" THEN Parsed(s.item, end) ELSE Fail)

\* parse_sql of the engine, which makes every exception a ParseError.
parse_sql(sql) ==
  Then({Tokenize(sql)},
       LAMBDA tokens : IF Last(tokens).type = "Unterminated" THEN Fail ELSE ParseStatement(tokens))
=============================================================================
