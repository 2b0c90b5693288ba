------------------------------- MODULE Shell -------------------------------
(***************************************************************************)
(* The command line program, src/src/main.cpp: it reads SQL from files,    *)
(* from its arguments, from standard input or line by line from a          *)
(* terminal, cuts it into statements and runs them one after the other.    *)
(*                                                                         *)
(* The splitter is a second scanner beside the lexer, with code of its     *)
(* own; SplitAsLexed says that the two agree.                              *)
(***************************************************************************)
EXTENDS Lexer, SequencesExt

CONSTANTS
  Invocations,    \* how the program may be started, see below
  Engine(_)       \* Engine(sql): whether Execute may succeed (TRUE) or fail

(***************************************************************************)
(* An invocation is [args, tty, stdin].  An argument is its spelling,      *)
(* whether that ends in .sql, whether such a file can be read, and the     *)
(* file's content.  tty: whether standard input is a terminal.             *)
(***************************************************************************)
Text == Seq(STRING)

ASSUME InvocationsAssumption ==
  Invocations \subseteq
    [args  : Seq([spelling : Text, sql_file : BOOLEAN, readable : BOOLEAN, content : Text]),
     tty   : BOOLEAN,
     stdin : Text]

VARIABLES
  invocation,  \* argc, argv and standard input
  unread,      \* scripts, or the one terminal, still to be read
  buffer,      \* text that was read and not run (sql, buffer)
  phase,       \* "read", "run", "ended" (the loop of run_repl is left), "exited"
  success,     \* the result run_sql_file and run_sql_text have accumulated
  scripts,     \* history: the texts read, one per run_sql_text or run_repl
  ran          \* history: the calls of run_statement that reach the engine

vars == <<invocation, unread, buffer, phase, success, scripts, ran>>

-----------------------------------------------------------------------------
(* Text helpers                                                            *)

Blanks == {" ", "\r", "\n"}

Solid(text) == {i \in DOMAIN text : text[i] \notin Blanks}

IsBlank(text) == Solid(text) = {}

trim(text) ==
  IF IsBlank(text) THEN <<>> ELSE SubSeq(text, Min(Solid(text)), Max(Solid(text)))

is_exit_command(line) ==
  trim(line) \in {<<".", "exit">>, <<".", "quit">>, <<"exit">>, <<"quit">>}

-----------------------------------------------------------------------------
(* The splitter                                                            *)

\* Mutant: a carriage return does not end a line comment.
EndsLineComment_NewlineOnly(c) == c = "\n"

EndsLineComment(c) == c \in {"\n", "\r"}

\* What find_statement_terminator is in after it has read c, where next
\* follows: the mode, and whether it skips the next character too.
Scanned(state, c, next) ==
  LET to(mode, skip) == [mode |-> mode, skip |-> skip]
  IN  CASE state.skip -> to(state.mode, FALSE)
        [] ~state.skip /\ state.mode = "string" ->
             IF c # "'" THEN state
             ELSE IF next = "'" THEN to("string", TRUE) ELSE to("code", FALSE)
        [] ~state.skip /\ state.mode = "line comment" ->
             IF EndsLineComment(c) THEN to("code", FALSE) ELSE state
        [] ~state.skip /\ state.mode = "block comment" ->
             IF <<c, next>> = <<"*", "/">> THEN to("code", TRUE) ELSE state
        [] ~state.skip /\ state.mode = "code" ->
             IF c = "'" THEN to("string", FALSE)
             ELSE IF <<c, next>> = <<"-", "-">> THEN to("line comment", TRUE)
             ELSE IF <<c, next>> = <<"/", "*">> THEN to("block comment", TRUE)
             ELSE state

\* The position (from 1) after the first ';' outside strings and comments, 0 for npos.
find_statement_terminator(text) ==
  LET code == [mode |-> "code", skip |-> FALSE]
      before[i \in 1 .. Len(text)] ==
        IF i = 1 THEN {code}
        ELSE {Scanned(state, text[i - 1], text[i]) : state \in before[i - 1]}
      ends == {i \in 1 .. Len(text) : text[i] = ";" /\ code \in before[i]}
  IN  IF ends = {} THEN 0 ELSE Min(ends) + 1

\* Mutant: a terminator in front of the buffer leaves the buffer as it is.
extract_statement_KeepsEmpty(text) ==
  {[statement |-> SubSeq(text, 1, IF end = 2 THEN 0 ELSE end - 1),
    rest      |-> SubSeq(text, IF end = 2 THEN 1 ELSE end, Len(text))] :
     end \in {find_statement_terminator(text)} \ {0}}

\* The statement and what erase leaves in the buffer, if there is a statement.
extract_statement(text) ==
  {[statement |-> SubSeq(text, 1, end - 1), rest |-> SubSeq(text, end, Len(text))] :
     end \in {find_statement_terminator(text)} \ {0}}

-----------------------------------------------------------------------------
(* Starting: main chooses what to read                                     *)

AllSqlFiles(args) == \A i \in DOMAIN args : args[i].sql_file

Joined(args) ==
  FoldLeft(LAMBDA text, i : text \o (IF i = 1 THEN <<>> ELSE <<" ">>) \o args[i].spelling,
           <<>>, [i \in DOMAIN args |-> i])

Terminal == invocation.args = <<>> /\ invocation.tty

Sources(start) ==
  IF start.args # <<>> /\ AllSqlFiles(start.args)
  THEN [i \in DOMAIN start.args |->
          [readable |-> start.args[i].readable, text |-> start.args[i].content]]
  ELSE << [readable |-> TRUE,
           text |-> IF start.args # <<>> THEN Joined(start.args) ELSE start.stdin] >>

Init ==
  /\ invocation \in Invocations
  /\ unread = Sources(invocation)
  /\ buffer = <<>>
  /\ phase = "read"
  /\ success = TRUE
  /\ scripts = IF Terminal THEN << <<>> >> ELSE <<>>
  /\ ran = <<>>

-----------------------------------------------------------------------------
(* run_statement(sql), with the accumulated result of run_sql_text.  In    *)
(* run_repl the result is discarded.                                       *)

\* Mutant: the last statement decides.
Accumulated_LastOnly(ok) == ok

Accumulated(ok) == success /\ (ok \/ Terminal)

run_statement(sql) ==
  IF IsBlank(sql) THEN UNCHANGED <<success, ran>>
  ELSE \E trimmed \in {trim(sql)} : \E ok \in Engine(trimmed) :
         /\ ran' = Append(ran, [script |-> Len(scripts), sql |-> sql, ok |-> ok])
         /\ success' = Accumulated(ok)

\* The loop `while (extract_statement(...)) run_statement(...)', one round.
RunStatement ==
  /\ phase = "run"
  /\ \E cut \in extract_statement(buffer) :
       /\ run_statement(cut.statement)
       /\ buffer' = cut.rest
  /\ UNCHANGED <<invocation, unread, phase, scripts>>

-----------------------------------------------------------------------------
(* Scripts: files, arguments, standard input that is no terminal           *)

\* Mutant: a file that cannot be opened is tried again.
AfterFailure_Retries == unread

\* What is left to read when the next file cannot be opened.
AfterFailure == Tail(unread)

ReadScript ==
  /\ ~Terminal /\ phase = "read" /\ unread # <<>>
  /\ IF Head(unread).readable
     THEN /\ unread' = Tail(unread)
          /\ buffer' = Head(unread).text
          /\ scripts' = Append(scripts, Head(unread).text)
          /\ phase' = "run"
          /\ UNCHANGED success
     ELSE /\ unread' = AfterFailure
          /\ success' = FALSE
          /\ UNCHANGED <<buffer, scripts, phase>>
  /\ UNCHANGED <<invocation, ran>>

\* What remains without a ';' is run too, and the next script is its own.
RunRest ==
  /\ ~Terminal /\ phase = "run" /\ extract_statement(buffer) = {}
  /\ run_statement(buffer)
  /\ buffer' = <<>>
  /\ phase' = "read"
  /\ UNCHANGED <<invocation, unread, scripts>>

ExitMain ==
  /\ ~Terminal /\ phase = "read" /\ unread = <<>>
  /\ phase' = "exited"
  /\ UNCHANGED <<invocation, unread, buffer, success, scripts, ran>>

-----------------------------------------------------------------------------
(* run_repl                                                                *)

Typed == unread[1].text

IsExit(line) == IsBlank(buffer) /\ is_exit_command(line)

\* std::getline takes the text up to the newline and drops the newline; it
\* fails when there is nothing left to take.
ReadLine ==
  /\ Terminal /\ phase = "read" /\ Typed # <<>>
  /\ LET end  == FirstFrom(Typed, 1, LAMBDA i : Typed[i] = "\n")
         line == SubSeq(Typed, 1, end - 1)
     IN  /\ unread' = [unread EXCEPT ![1].text = SubSeq(Typed, end + 1, Len(Typed))]
         /\ IF IsExit(line)
            THEN /\ phase' = "ended"
                 /\ UNCHANGED <<buffer, scripts>>
            ELSE /\ phase' = "run"
                 /\ buffer' = buffer \o Append(line, "\n")
                 /\ scripts' = << scripts[1] \o Append(line, "\n") >>
  /\ UNCHANGED <<invocation, success, ran>>

EndOfInput ==
  /\ Terminal /\ phase = "read" /\ Typed = <<>>
  /\ phase' = "ended"
  /\ UNCHANGED <<invocation, unread, buffer, success, scripts, ran>>

\* No complete statement in the buffer: prompt for another line.
Prompt ==
  /\ Terminal /\ phase = "run" /\ extract_statement(buffer) = {}
  /\ phase' = "read"
  /\ UNCHANGED <<invocation, unread, buffer, success, scripts, ran>>

\* After the loop what is left is run as one statement.
ExitRepl ==
  /\ phase = "ended"
  /\ run_statement(buffer)
  /\ phase' = "exited"
  /\ UNCHANGED <<invocation, unread, buffer, scripts>>

-----------------------------------------------------------------------------

Exited == phase = "exited" /\ UNCHANGED vars

\* What the program does by itself; the user decides about ReadLine and
\* EndOfInput.
ProgramStep ==
  RunStatement \/ ReadScript \/ RunRest \/ ExitMain \/ Prompt \/ ExitRepl

Next == ProgramStep \/ ReadLine \/ EndOfInput \/ Exited

Spec == Init /\ [][Next]_vars /\ WF_vars(ProgramStep)

exit_code == IF success THEN 0 ELSE 1

-----------------------------------------------------------------------------
(* Properties                                                              *)

\* The statements the lexer sees in a text: cut after every ';' token.
Cuts(text) ==
  LET tokens == Tokenize(text)
      semis  == SelectSeq(tokens, LAMBDA token : token.type = ";")
  IN  <<1>> \o [i \in DOMAIN semis |-> semis[i].end]

Pieces(text) ==
  LET cuts == Cuts(text)
  IN  [i \in 1 .. Len(cuts) - 1 |-> SubSeq(text, cuts[i], cuts[i + 1] - 1)]

Rest(text) == SubSeq(text, Last(Cuts(text)), Len(text))

AllPieces(text) ==
  Pieces(text) \o (IF IsBlank(Rest(text)) THEN <<>> ELSE <<Rest(text)>>)

RanOf(k) ==
  LET calls == SelectSeq(ran, LAMBDA call : call.script = k)
  IN  [i \in DOMAIN calls |-> calls[i].sql]

\* Each script runs exactly the statements that the lexer, given the whole
\* text, sees in it, in their order and with every character; the remainder
\* is run last, if it is not blank.  In particular it makes no difference that
\* run_repl sees the text line by line, and no statement is lost, repeated or
\* joined with the next.  (find_statement_terminator against SkipTrivia and
\* ScanString.)
SplitAsLexed ==
  \A k \in DOMAIN scripts :
    IF k = Len(scripts) /\ phase # "exited" /\ (phase # "read" \/ Terminal)
    THEN /\ IsPrefix(RanOf(k), Pieces(scripts[k]))
         /\ FlattenSeq(RanOf(k)) \o buffer = scripts[k]
         /\ phase \in {"read", "ended"} => RanOf(k) = Pieces(scripts[k])
    ELSE RanOf(k) = AllPieces(scripts[k])

\* When a script run exits, its exit code is 0 exactly if every file could be
\* read and every statement succeeded: neither a failure between two successes
\* nor one in an earlier file is forgotten (run_sql_text, main).
ExitTellsFailure ==
  phase = "exited" /\ ~Terminal =>
    (exit_code = 0 <=> /\ \A i \in DOMAIN Sources(invocation) : Sources(invocation)[i].readable
                       /\ \A i \in DOMAIN ran : ran[i].ok)

\* Again and again the program has run every statement that a ';' completes in
\* what it has read of each script, although the user of a terminal may never
\* type another line: no statement waits forever (the while loops of
\* run_sql_text and run_repl).
InputIsRun ==
  []<>(\A k \in DOMAIN scripts : IsPrefix(Pieces(scripts[k]), RanOf(k)))

\* A program that does not read from a terminal ends, and one whose terminal
\* has ended does too (run_sql_text, run_repl, main).
ProgramEnds ==
  (~Terminal \/ phase = "ended") ~> (phase = "exited")
=============================================================================
