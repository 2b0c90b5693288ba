------------------------------ MODULE FrontEnd ------------------------------
(***************************************************************************)
(* The shell with the lexer and the parser behind it: what becomes of the   *)
(* statements the shell cuts out of a text.  The shell itself only needs    *)
(* to know that a text without a statement's first word is refused.         *)
(***************************************************************************)
EXTENDS Shell, Parser

EngineOutcomes(sql) ==
  IF ToSet(sql) \cap {"SELECT", "INSERT", "CREATE"} = {} THEN {FALSE} ELSE BOOLEAN

-----------------------------------------------------------------------------
(* Writing a statement out again                                           *)

Mark(token) ==
  IF token.type \in {"Integer", "String", "Identifier"} THEN token.lexeme ELSE <<token.type>>

\* The tokens of a text as symbols, without an ending ';'.
Marks(tokens) ==
  LET solid == SelectSeq(tokens, LAMBDA token : token.type # "EndOfFile")
      body  == IF solid # <<>> /\ Last(solid).type = ";" THEN Front(solid) ELSE solid
  IN  FlattenSeq([i \in DOMAIN body |-> Mark(body[i])])

Commas(parts) ==
  FlattenSeq([i \in DOMAIN parts |-> (IF i = 1 THEN <<>> ELSE <<",">>) \o parts[i]])

Quoted(value) ==
  <<"'">> \o FlattenSeq([i \in DOMAIN value |->
                           IF value[i] = "'" THEN <<"'", "'">> ELSE <<value[i]>>]) \o <<"'">>

UnarySymbol == [Plus |-> "+", Minus |-> "-", Not |-> "NOT"]

BinarySymbol ==
  [Add |-> "+", Subtract |-> "-", Multiply |-> "*", Divide |-> "/",
   Equal |-> "=", NotEqual |-> "<>", Less |-> "<", LessEqual |-> "<=",
   Greater |-> ">", GreaterEqual |-> ">=", And |-> "AND", Or |-> "OR"]

RECURSIVE SpellTree(_)
SpellTree(tree) ==
  LET inner == CASE tree.node = "String" -> Quoted(tree.of)
                 [] tree.node = "Unary"  -> <<UnarySymbol[tree.of[1]]>> \o SpellTree(tree.kids[1])
                 [] tree.node = "Binary" ->
                      SpellTree(tree.kids[1]) \o <<BinarySymbol[tree.of[1]]>>
                        \o SpellTree(tree.kids[2])
                 [] OTHER -> tree.of
  IN  [i \in 1 .. tree.parens |-> "("] \o inner \o [i \in 1 .. tree.parens |-> ")"]

ShortName(type) == CASE type = "Int" -> "int" [] type = "Text" -> "text" [] type = "Bool" -> "bool"

SpellStatement(s) ==
  LET items(Spell(_)) == Commas([i \in DOMAIN s.items |-> Spell(s.items[i])])
      clause(word, part) == IF part = <<>> THEN <<>> ELSE <<word>> \o part
  IN  CASE s.statement = "SELECT" ->
             <<"SELECT">>
               \o items(LAMBDA item : SpellTree(item.tree) \o clause("AS", item.alias))
               \o clause("FROM", s.table)
               \o clause("WHERE", FlattenSeq([i \in DOMAIN s.where |-> SpellTree(s.where[i])]))
        [] s.statement = "INSERT" ->
             <<"INSERT", "INTO">> \o s.table \o <<"VALUES", "(">>
               \o items(SpellTree) \o <<")">>
        [] s.statement = "CREATE" ->
             <<"CREATE", "TABLE">> \o s.table \o <<"(">>
               \o items(LAMBDA item : item.name \o <<ShortName(item.type)>>) \o <<")">>

\* The statement that was run last.
LastSql == trim(Last(ran).sql)

\* Its AST, if it has one.
LastParsed == IF ran = <<>> THEN {} ELSE {result.item : result \in parse_sql(LastSql)}

\* A statement the parser accepts can be written out again from its AST,
\* token by token: nothing the user wrote is dropped, repeated, reordered or
\* decoded wrongly, and no operator becomes another (ParseStatement with every
\* rule below it, TokenToBinaryOperator, ScanString and unescape_sql_string, the
\* smallest integer).
StatementsSpelled ==
  \A s \in LastParsed : SpellStatement(s) = Marks(Tokenize(LastSql))

-----------------------------------------------------------------------------
(* Operator precedence                                                     *)

Tiers ==
  << {"Or"}, {"And"}, {"Not"},
     {"Equal", "NotEqual", "Less", "LessEqual", "Greater", "GreaterEqual"},
     {"Add", "Subtract"}, {"Multiply", "Divide"} >>

\* How tightly a tree holds together against what is next to it.
Tier(tree) ==
  CASE tree.parens > 0 \/ tree.kids = <<>> -> 8
    [] tree.parens = 0 /\ tree.node = "Unary" -> IF tree.of = <<"Not">> THEN 3 ELSE 7
    [] tree.parens = 0 /\ tree.node = "Binary" ->
         CHOOSE n \in DOMAIN Tiers : tree.of[1] \in Tiers[n]

\* Mixed operators are grouped by precedence and, at the same one, from the left.
BoundHere(tree) ==
  LET tier == Tier([tree EXCEPT !.parens = 0])
  IN  CASE tree.node = "Unary"  -> Tier(tree.kids[1]) >= tier
        [] tree.node = "Binary" -> Tier(tree.kids[1]) >= tier /\ Tier(tree.kids[2]) > tier
        [] OTHER -> TRUE

RECURSIVE Subtrees(_)
Subtrees(tree) == {tree} \cup UNION {Subtrees(tree.kids[i]) : i \in DOMAIN tree.kids}

ExpressionsOf(s) ==
  CASE s.statement = "SELECT" -> {s.items[i].tree : i \in DOMAIN s.items} \cup ToSet(s.where)
    [] s.statement = "INSERT" -> ToSet(s.items)
    [] s.statement = "CREATE" -> {}

\* The nodes of all expressions of the statement that was run last.
Nodes == UNION {UNION {Subtrees(tree) : tree \in ExpressionsOf(s)} : s \in LastParsed}

\* "Parses an expression with precedence climbing from the minimum precedence"
\* (parser.cpp:211): every expression is grouped by the precedence of its
\* operators.  The code breaks this after NOT.
PrecedenceRespected == \A tree \in Nodes : BoundHere(tree)

\* A OR NOT B AND C, where AND takes all of A OR NOT B for its left side.
AfterNot(tree) ==
  /\ tree.of = <<"And">> /\ tree.kids[1].of = <<"Or">> /\ tree.kids[1].parens = 0
  /\ LET last == tree.kids[1].kids[2] IN last.of = <<"Not">> /\ last.parens = 0

\* Every expression is grouped by precedence, and from the left at the same one,
\* with one exception: an AND after NOT on the right of an OR (the loop of
\* ParseExpression, the precedence it passes on, and chained signs).
GroupedByPrecedence ==
  \A tree \in Nodes : BoundHere(tree) \/ AfterNot(tree)

-----------------------------------------------------------------------------
(* What is accepted                                                        *)

BinaryOperators == {BinarySymbol[op] : op \in DOMAIN BinarySymbol}

\* A reference acceptor for lists of expressions without NOT: operands and
\* binary operators alternate, signs and '(' stand before an operand, ')' after
\* one; '*' is an operand where one is expected and an operator elsewhere.
Scan(state, type) ==
  LET to(place, depth) == [place |-> place, depth |-> depth]
  IN  IF state.place = "operand" THEN
           CASE type \in {"Identifier", "Integer", "*"} -> to("operator", state.depth)
             [] type \in {"+", "-"}                     -> state
             [] type = "("                              -> to("operand", state.depth + 1)
             [] OTHER                                   -> to("error", 0)
      ELSE IF state.place = "operator" THEN
           CASE type \in BinaryOperators                -> to("operand", state.depth)
             [] type = ")" /\ state.depth > 0           -> to("operator", state.depth - 1)
             [] type = "," /\ state.depth = 0           -> to("operand", 0)
             [] OTHER                                   -> to("error", 0)
      ELSE state

Plain == BinaryOperators \cup {"Identifier", "Integer", "(", ")", ","}

\* A SELECT list of plain expressions is accepted exactly when the reference
\* acceptor takes it: recursive descent neither gets stuck on an expression nor
\* stops before its end (ParsePrimaryExpression, ParsePrefixExpression).
AcceptsExpressions ==
  ran # <<>> =>
    LET tokens == Tokenize(LastSql)
        types  == [i \in DOMAIN tokens |-> tokens[i].type]
        end    == IF Contains(types, ";") THEN Len(types) - 2 ELSE Len(types) - 1
        body   == SubSeq(types, 2, end)
    IN  types[1] = "SELECT" /\ ToSet(body) \subseteq Plain /\ ~Contains(LastSql, "2^63")
          => (LastParsed # {} <=> FoldLeft(Scan, [place |-> "operand", depth |-> 0], body)
                               = [place |-> "operator", depth |-> 0])
=============================================================================
