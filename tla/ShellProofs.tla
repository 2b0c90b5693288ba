---------------------------- MODULE ShellProofs ----------------------------
(***************************************************************************)
(* The exit code of the command line program, for every invocation and     *)
(* whatever the engine answers to each statement.                          *)
(***************************************************************************)
EXTENDS Shell, SequenceTheorems, TLAPS

-----------------------------------------------------------------------------
(* The invariant                                                           *)

(* The first n sources could be read and no statement so far failed.       *)
NothingFailed(n) ==
  /\ \A i \in 1 .. n : Sources(invocation)[i].readable
  /\ \A i \in DOMAIN ran : ran[i].ok

(* The sources before the n-th have been taken, the others are unread, and *)
(* success tells what happened up to here.                                 *)
Progress(n) ==
  /\ unread = SubSeq(Sources(invocation), n + 1, Len(Sources(invocation)))
  /\ success <=> NothingFailed(n)

RanIsASequence ==
  /\ Len(ran) \in Nat
  /\ ran \in [1 .. Len(ran) -> {ran[i] : i \in 1 .. Len(ran)}]

(* Files and texts are taken in their order, each once; the repl's phases  *)
(* do not occur; and the program exits with nothing left to read.          *)
ShellInv ==
  /\ invocation \in Invocations
  /\ RanIsASequence
  /\ success \in BOOLEAN
  /\ ~Terminal =>
       /\ phase \in {"read", "run", "exited"}
       /\ phase = "exited" => unread = <<>>
       /\ \E n \in 0 .. Len(Sources(invocation)) : Progress(n)

-----------------------------------------------------------------------------

(* What main reads from is a sequence of texts.                            *)
LEMMA SourcesTyped ==
  ASSUME NEW start \in Invocations
  PROVE  \E T : Sources(start) \in Seq(T)
<1>1. /\ start.args \in Seq([spelling : Text, sql_file : BOOLEAN, readable : BOOLEAN, content : Text])
      /\ DOMAIN start.args = 1 .. Len(start.args) /\ Len(start.args) \in Nat
  <2>1. start.args \in Seq([spelling : Text, sql_file : BOOLEAN, readable : BOOLEAN, content : Text])
    BY InvocationsAssumption
  <2>. QED
    BY <2>1, LenProperties
<1>2. CASE start.args # <<>> /\ AllSqlFiles(start.args)
  <2>. DEFINE Source(i) == [readable |-> start.args[i].readable, text |-> start.args[i].content]
              T         == {Source(i) : i \in 1 .. Len(start.args)}
  <2>1. Sources(start) = [i \in 1 .. Len(start.args) |-> Source(i)]
    BY <1>1, <1>2 DEF Sources
  <2>. HIDE DEF Source
  <2>2. [i \in 1 .. Len(start.args) |-> Source(i)] \in Seq(T)
    BY <1>1
  <2>. QED
    BY <2>1, <2>2
<1>3. CASE ~(start.args # <<>> /\ AllSqlFiles(start.args))
  <2>. DEFINE source == [readable |-> TRUE,
                         text |-> IF start.args # <<>> THEN Joined(start.args) ELSE start.stdin]
  <2>1. Sources(start) = <<source>>
    BY <1>3 DEF Sources
  <2>. HIDE DEF source
  <2>2. Sources(start) \in Seq({source})
    BY <2>1
  <2>. QED
    BY <2>2
<1>. QED
  BY <1>2, <1>3

(* A call of the engine is added at the end of ran; nothing else is.       *)
LEMMA Appended ==
  ASSUME RanIsASequence, NEW call, ran' = Append(ran, call)
  PROVE  /\ RanIsASequence'
         /\ (\A i \in DOMAIN ran' : ran'[i].ok) <=> (\A i \in DOMAIN ran : ran[i].ok) /\ call.ok
<1>. DEFINE C == {ran[i] : i \in 1 .. Len(ran)} \cup {call}
<1>1. ran \in Seq(C) /\ call \in C
  BY DEF RanIsASequence
<1>2. /\ ran' \in Seq(C)
      /\ Len(ran') = Len(ran) + 1
      /\ \A i \in 1 .. Len(ran) : ran'[i] = ran[i]
      /\ ran'[Len(ran) + 1] = call
  BY <1>1
<1>3. DOMAIN ran' = 1 .. Len(ran) + 1 /\ DOMAIN ran = 1 .. Len(ran) /\ Len(ran) \in Nat
  BY <1>1, <1>2
<1>4. RanIsASequence'
  <2>1. ran' \in [1 .. Len(ran') -> C] /\ Len(ran') \in Nat
    BY <1>2, LenProperties
  <2>. QED
    BY <1>2, <1>3, <2>1 DEF RanIsASequence
<1>5. (\A i \in DOMAIN ran' : ran'[i].ok) <=> (\A i \in DOMAIN ran : ran[i].ok) /\ call.ok
  <2>1. ASSUME \A i \in DOMAIN ran' : ran'[i].ok
        PROVE  (\A i \in DOMAIN ran : ran[i].ok) /\ call.ok
    BY <1>2, <1>3, <2>1
  <2>2. ASSUME \A i \in DOMAIN ran : ran[i].ok, call.ok
        PROVE  \A i \in DOMAIN ran' : ran'[i].ok
    <3>. TAKE i \in DOMAIN ran'
    <3>1. i \in 1 .. Len(ran) \/ i = Len(ran) + 1
      BY <1>3
    <3>. QED
      BY <1>2, <1>3, <2>2, <3>1
  <2>. QED
    BY <2>1, <2>2
<1>. QED
  BY <1>4, <1>5

(* run_statement outside the terminal: success still tells whether all is  *)
(* well, however the statement ends, and blank text changes nothing.       *)
LEMMA RunStatementTells ==
  ASSUME ShellInv, ~Terminal, NEW sql, run_statement(sql),
         invocation' = invocation, unread' = unread
  PROVE  /\ RanIsASequence'
         /\ success' \in BOOLEAN
         /\ \A n \in 0 .. Len(Sources(invocation)) : Progress(n) => Progress(n)'
<1>1. CASE IsBlank(sql)
  BY <1>1 DEF run_statement, ShellInv, RanIsASequence, Progress, NothingFailed
<1>2. CASE ~IsBlank(sql)
  <2>1. PICK ok \in Engine(trim(sql)) :
               /\ ran' = Append(ran, [script |-> Len(scripts), sql |-> sql, ok |-> ok])
               /\ success' = Accumulated(ok)
    BY <1>2, Zenon DEF run_statement
  <2>. DEFINE call == [script |-> Len(scripts), sql |-> sql, ok |-> ok]
  <2>2. /\ RanIsASequence'
        /\ (\A i \in DOMAIN ran' : ran'[i].ok) <=> (\A i \in DOMAIN ran : ran[i].ok) /\ call.ok
    BY <2>1, Appended DEF ShellInv
  <2>3. call.ok = ok
    OBVIOUS
  <2>4. success' = (success /\ (ok \/ Terminal))
    BY <2>1 DEF Accumulated
  <2>5. ASSUME NEW n \in 0 .. Len(Sources(invocation)), Progress(n)
        PROVE  Progress(n)'
    BY <2>2, <2>3, <2>4, <2>5 DEF Progress, NothingFailed
  <2>6. success' \in BOOLEAN
    BY <2>4
  <2>. QED
    BY <2>2, <2>5, <2>6
<1>. QED
  BY <1>1, <1>2

(* Taking one source from those that are unread.                           *)
LEMMA TakeOne ==
  ASSUME NEW T, NEW S \in Seq(T), NEW n \in 0 .. Len(S),
         NEW rest, rest = SubSeq(S, n + 1, Len(S)), rest # <<>>
  PROVE  /\ n + 1 \in 0 .. Len(S)
         /\ Head(rest) = S[n + 1]
         /\ Tail(rest) = SubSeq(S, n + 2, Len(S))
<1>1. Len(S) \in Nat /\ n \in Nat /\ n <= Len(S)
  OBVIOUS
<1>2. rest \in Seq(T) /\ Len(rest) = Len(S) - n
  BY <1>1
<1>3. n < Len(S)
  BY <1>1, <1>2
<1>4. Head(rest) = S[n + 1]
  BY <1>1, <1>2, <1>3
<1>5. Tail(rest) = SubSeq(S, n + 2, Len(S))
  <2>. DEFINE t == Tail(rest)
              u == SubSeq(S, n + 2, Len(S))
  <2>1. t \in Seq(T) /\ u \in Seq(T)
    BY <1>1, <1>2, <1>3
  <2>2. Len(t) = Len(S) - n - 1 /\ Len(u) = Len(S) - n - 1
    BY <1>1, <1>2, <1>3
  <2>3. ASSUME NEW i \in 1 .. Len(t)
        PROVE  t[i] = u[i]
    BY <1>1, <1>2, <1>3, <2>2
  <2>. QED
    BY <2>1, <2>2, <2>3, SeqEqual
<1>. QED
  BY <1>1, <1>3, <1>4, <1>5

-----------------------------------------------------------------------------
(* The steps                                                               *)

LEMMA InitShellInv ==
  ASSUME Init
  PROVE  ShellInv
<1>. DEFINE S == Sources(invocation)
<1>1. PICK T : S \in Seq(T)
  BY SourcesTyped DEF Init
<1>2. Len(S) \in Nat /\ SubSeq(S, 1, Len(S)) = S
  <2>1. /\ SubSeq(S, 1, Len(S)) \in Seq(T)
        /\ Len(S) \in Nat
        /\ Len(SubSeq(S, 1, Len(S))) = Len(S)
        /\ \A i \in 1 .. Len(S) : SubSeq(S, 1, Len(S))[i] = S[i]
    BY <1>1
  <2>. QED
    BY <1>1, <2>1, SeqEqual
<1>3. RanIsASequence /\ DOMAIN ran = {}
  BY DEF Init, RanIsASequence
<1>4. Progress(0)
  BY <1>2, <1>3 DEF Init, Progress, NothingFailed
<1>. QED
  BY <1>2, <1>3, <1>4 DEF Init, ShellInv

LEMMA RunsShellInv ==
  ASSUME ShellInv, RunStatement \/ RunRest \/ ExitRepl
  PROVE  ShellInv'
<1>1. PICK sql : run_statement(sql)
  BY DEF RunStatement, RunRest, ExitRepl
<1>2. invocation' = invocation /\ unread' = unread /\ (Terminal' <=> Terminal)
  BY DEF RunStatement, RunRest, ExitRepl, Terminal
<1>3. CASE Terminal
  <2>1. RanIsASequence'
    <3>1. CASE IsBlank(sql)
      BY <1>1, <3>1 DEF run_statement, ShellInv, RanIsASequence
    <3>2. CASE ~IsBlank(sql)
      <4>1. PICK ok : ran' = Append(ran, [script |-> Len(scripts), sql |-> sql, ok |-> ok])
        BY <1>1, <3>2, Zenon DEF run_statement
      <4>. QED
        BY <4>1, Appended DEF ShellInv
    <3>. QED
      BY <3>1, <3>2
  <2>2. success' \in BOOLEAN
    BY <1>1 DEF run_statement, Accumulated, ShellInv
  <2>. QED
    BY <1>2, <1>3, <2>1, <2>2 DEF ShellInv
<1>4. CASE ~Terminal
  <2>1. PICK n \in 0 .. Len(Sources(invocation)) : Progress(n)
    BY <1>4 DEF ShellInv
  <2>2. RanIsASequence' /\ success' \in BOOLEAN /\ Progress(n)'
    BY <1>1, <1>2, <1>4, <2>1, RunStatementTells
  <2>3. phase \in {"read", "run"} /\ phase' \in {"read", "run"}
    BY <1>4 DEF ShellInv, RunStatement, RunRest, ExitRepl
  <2>. QED
    BY <1>2, <1>4, <2>1, <2>2, <2>3 DEF ShellInv
<1>. QED
  BY <1>3, <1>4

LEMMA ReadScriptShellInv ==
  ASSUME ShellInv, ReadScript
  PROVE  ShellInv'
<1>. DEFINE S == Sources(invocation)
<1>1. /\ ~Terminal /\ phase = "read" /\ unread # <<>>
      /\ invocation' = invocation /\ ran' = ran /\ unread' = Tail(unread)
      /\ ~Terminal'
  BY DEF ReadScript, Terminal, AfterFailure
<1>2. PICK T : S \in Seq(T)
  BY SourcesTyped DEF ShellInv
<1>3. PICK n \in 0 .. Len(S) : Progress(n)
  BY <1>1 DEF ShellInv
<1>4. /\ n + 1 \in 0 .. Len(S)
      /\ Head(unread) = S[n + 1]
      /\ Tail(unread) = SubSeq(S, n + 2, Len(S))
  BY <1>1, <1>2, <1>3, TakeOne DEF Progress
<1>5. NothingFailed(n + 1)' <=> NothingFailed(n) /\ S[n + 1].readable
  <2>1. n \in Nat /\ 1 .. n + 1 = (1 .. n) \cup {n + 1}
    BY <1>2, <1>3
  <2>. QED
    BY <1>1, <2>1 DEF NothingFailed
<1>6. success' <=> success /\ S[n + 1].readable
  BY <1>4 DEF ReadScript
<1>7. Progress(n + 1)'
  <2>1. n + 1 + 1 = n + 2
    BY <1>2, <1>3
  <2>2. unread' = SubSeq(Sources(invocation), n + 1 + 1, Len(Sources(invocation)))'
    BY <1>1, <1>4, <2>1
  <2>3. success' <=> NothingFailed(n + 1)'
    BY <1>3, <1>5, <1>6 DEF Progress
  <2>. QED
    BY <2>2, <2>3 DEF Progress
<1>8. RanIsASequence' /\ success' \in BOOLEAN /\ phase' \in {"read", "run"}
  BY <1>1 DEF ReadScript, ShellInv, RanIsASequence
<1>. QED
  BY <1>1, <1>4, <1>7, <1>8 DEF ShellInv

(* The other steps read a line, or only change the phase.                  *)
LEMMA OthersShellInv ==
  ASSUME ShellInv, ExitMain \/ Prompt \/ ReadLine \/ EndOfInput \/ Exited \/ UNCHANGED vars
  PROVE  ShellInv'
<1>1. invocation' = invocation /\ ran' = ran /\ success' = success /\ (Terminal' <=> Terminal)
  BY DEF ExitMain, Prompt, ReadLine, EndOfInput, Exited, vars, Terminal
<1>2. RanIsASequence' /\ success' \in BOOLEAN /\ invocation' \in Invocations
  BY <1>1 DEF ShellInv, RanIsASequence
<1>3. CASE Terminal
  BY <1>1, <1>2, <1>3 DEF ShellInv
<1>4. CASE ~Terminal
  <2>1. /\ unread' = unread
        /\ phase' = phase \/ (phase' = "exited" /\ unread = <<>>)
    <3>1. ~Prompt /\ ~ReadLine /\ ~EndOfInput
      BY <1>4, Zenon DEF Prompt, ReadLine, EndOfInput
    <3>2. CASE ExitMain
      BY <3>2 DEF ExitMain
    <3>3. CASE UNCHANGED vars
      BY <3>3 DEF vars
    <3>. QED
      BY <3>1, <3>2, <3>3 DEF Exited
  <2>2. ASSUME NEW n, Progress(n)
        PROVE  Progress(n)'
    BY <1>1, <2>1, <2>2 DEF Progress, NothingFailed
  <2>. QED
    BY <1>1, <1>2, <1>4, <2>1, <2>2 DEF ShellInv
<1>. QED
  BY <1>3, <1>4

-----------------------------------------------------------------------------

(* While a script runs, the sources taken so far are the first ones, each  *)
(* taken once, and success tells whether all of them could be read and all *)
(* statements run so far succeeded (run_sql_file, run_sql_text, main).     *)
THEOREM ShellInvariant == Spec => []ShellInv
<1>1. ShellInv /\ [Next]_vars => ShellInv'
  BY RunsShellInv, ReadScriptShellInv, OthersShellInv DEF Next, ProgramStep
<1>. QED
  BY InitShellInv, <1>1, PTL DEF Spec

(* The exit code of a script run is 0 exactly if every file could be read  *)
(* and every statement succeeded (run_sql_text, main).                     *)
THEOREM ExitCodeTellsFailure == Spec => []ExitTellsFailure
<1>1. ASSUME ShellInv
      PROVE  ExitTellsFailure
  <2>. SUFFICES ASSUME phase = "exited", ~Terminal
                PROVE  exit_code = 0 <=> /\ \A i \in DOMAIN Sources(invocation) : Sources(invocation)[i].readable
                                         /\ \A i \in DOMAIN ran : ran[i].ok
    BY DEF ExitTellsFailure
  <2>. DEFINE S == Sources(invocation)
  <2>1. PICK T : S \in Seq(T)
    BY <1>1, SourcesTyped DEF ShellInv
  <2>2. PICK n \in 0 .. Len(S) : Progress(n) /\ unread = <<>>
    BY <1>1 DEF ShellInv
  <2>3. n = Len(S) /\ DOMAIN S = 1 .. Len(S)
    BY <2>1, <2>2, TakeOne DEF Progress
  <2>4. exit_code = 0 <=> success
    BY DEF exit_code
  <2>. QED
    BY <2>2, <2>3, <2>4 DEF Progress, NothingFailed
<1>. QED
  BY <1>1, ShellInvariant, PTL
=============================================================================
