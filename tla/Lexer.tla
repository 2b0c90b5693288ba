------------------------------- MODULE Lexer -------------------------------
(***************************************************************************)
(* Lexer::Tokenize of src/src/lexer/lexer.cpp as operators on a text.      *)
(*                                                                         *)
(* A text is a sequence of symbols.  A symbol is a character, or a run of  *)
(* letters or digits that the code never looks into: a keyword in any      *)
(* spelling, a name, a number.  Two such symbols side by side are one      *)
(* longer run, as in the code.  A token type is named by its spelling      *)
(* ("SELECT", "<=") or, when it has many, by its name in token.hpp.        *)
(* Tabs behave like spaces; the form feed is white space to isspace only.  *)
(***************************************************************************)
EXTENDS Naturals, Sequences

CONSTANTS
  Names,     \* symbols for runs of letters that are no keyword
  Digits     \* symbols for runs of digits

kKeywords ==
  {"SELECT", "FROM", "WHERE", "INSERT", "INTO", "VALUES", "CREATE", "TABLE",
   "DROP", "NULL", "AND", "OR", "NOT", "AS", "ORDER", "BY", "LIMIT", "TRUE",
   "FALSE"}

IsSpace(c) == c \in {" ", "\n", "\r", "\f"}

IsDigit(c) == c \in Digits

IsAlpha(c) == c \in kKeywords \cup Names

IsAlphaNumeric(c) == IsAlpha(c) \/ IsDigit(c)

Peek(text, i) == IF i \in DOMAIN text THEN text[i] ELSE "NUL"

\* The first position from i on that satisfies P, or the end of the text.
FirstFrom(text, i, P(_)) ==
  CHOOSE j \in i .. Len(text) + 1 :
    /\ j <= Len(text) => P(j)
    /\ \A k \in i .. j - 1 : ~P(k)

-----------------------------------------------------------------------------
(* White space and comments                                                *)

\* A position no token starts at: the exception for an open block comment.
Unterminated == 0

LineCommentEnd(text, i) ==
  FirstFrom(text, i, LAMBDA j : text[j] \in {"\n", "\r"})

BlockCommentEnd(text, i) ==
  FirstFrom(text, i, LAMBDA j : text[j] = "*" /\ Peek(text, j + 1) = "/")

\* Where the next token starts when the cursor is at i.
SkipTrivia(text, i) ==
  LET skip[j \in 1 .. Len(text) + 1] ==
        LET pair == <<Peek(text, j), Peek(text, j + 1)>>
        IN  CASE IsSpace(pair[1])     -> skip[j + 1]
              [] pair = <<"-", "-">>  -> skip[LineCommentEnd(text, j + 2)]
              [] pair = <<"/", "*">>  ->
                   LET close == BlockCommentEnd(text, j + 2)
                   IN  IF close > Len(text) THEN Unterminated ELSE skip[close + 2]
              [] OTHER                -> j
  IN  skip[i]

-----------------------------------------------------------------------------
(* Tokens: [type, lexeme, end], end being the position after the token     *)

MakeToken(text, type, start, end) ==
  [type |-> type, lexeme |-> SubSeq(text, start, end - 1), end |-> end]

LookupKeyword(lexeme) ==
  IF Len(lexeme) = 1 /\ lexeme[1] \in kKeywords THEN lexeme[1] ELSE "Identifier"

ScanIdentifierOrKeyword(text, start) ==
  LET end == FirstFrom(text, start, LAMBDA j : ~IsAlphaNumeric(text[j]))
  IN  MakeToken(text, LookupKeyword(SubSeq(text, start, end - 1)), start, end)

ScanNumber(text, start) ==
  MakeToken(text, "Integer", start, FirstFrom(text, start, LAMBDA j : ~IsDigit(text[j])))

ScanString(text, start) ==
  LET body[j \in 1 .. Len(text) + 1] ==
        IF j > Len(text) THEN MakeToken(text, "Invalid", start, j)
        ELSE IF text[j] # "'" THEN body[j + 1]
        ELSE IF Peek(text, j + 1) = "'" THEN body[j + 2]
        ELSE MakeToken(text, "String", start, j + 1)
  IN  body[start + 1]

ScanOperatorOrPunctuation(text, start) ==
  LET c    == text[start]
      pair == <<c, Peek(text, start + 1)>>
  IN  CASE pair \in {<<"!", "=">>, <<"<", ">">>} -> MakeToken(text, "<>", start, start + 2)
        [] pair = <<"<", "=">> -> MakeToken(text, "<=", start, start + 2)
        [] pair = <<">", "=">> -> MakeToken(text, ">=", start, start + 2)
        [] c \in {"+", "-", "*", "/", "=", "<", ">", "(", ")", ",", ".", ";"}
             /\ pair \notin {<<"<", "=">>, <<"<", ">">>, <<">", "=">>} ->
             MakeToken(text, c, start, start + 1)
        [] OTHER -> MakeToken(text, "Invalid", start, start + 1)

ScanToken(text, start) ==
  CASE start > Len(text)      -> MakeToken(text, "EndOfFile", start, start)
    [] IsAlpha(Peek(text, start)) -> ScanIdentifierOrKeyword(text, start)
    [] IsDigit(Peek(text, start)) -> ScanNumber(text, start)
    [] Peek(text, start) = "'"    -> ScanString(text, start)
    [] OTHER                  -> ScanOperatorOrPunctuation(text, start)

\* The tokens of the text.  The last one is EndOfFile, or the exception that
\* ends the scan inside a block comment.
Tokenize(text) ==
  LET lex[i \in 1 .. Len(text) + 1] ==
        LET start == SkipTrivia(text, i)
        IN  IF start = Unterminated
            THEN << [type |-> "Unterminated", lexeme |-> <<>>, end |-> Len(text) + 1] >>
            ELSE LET token == ScanToken(text, start)
                 IN  IF token.type = "EndOfFile" THEN <<token>>
                     ELSE <<token>> \o lex[token.end]
  IN  lex[1]
=============================================================================
